---------------------------- MODULE FastFallback ----------------------------
(***************************************************************************)
(* The staggered race of connection/fast_fallback.rs: dial_route_plan      *)
(* spawns one task per route of a plan; a task sleeps its stagger,         *)
(* connects, finalizes (TLS, proxy tunnel) and reports over one unbounded  *)
(* channel; the dialer reads the channel, keeps the ConnectPlan of         *)
(* connection/planning.rs up to date and returns the first connection, the *)
(* first error that must not be retried, or the last error of all.         *)
(*                                                                         *)
(* A route is its index in the plan.  Aborting a task only raises a flag:  *)
(* the task ends when it is polled again, and a poll that is already       *)
(* running may first pass any number of awaits.                            *)
(***************************************************************************)
EXTENDS Naturals, FiniteSets, Sequences

CONSTANT MaxRoutes   \* the longest plan, a bound of the model

ASSUME MaxRoutesAssumption == MaxRoutes \in Nat

VARIABLES
  count,     \* route_count, chosen by the planner
  dialer,    \* where dial_route_plan is, or how it returned
  task,      \* where each route task is
  aborted,   \* the tasks whose AbortHandle has fired
  channel,   \* the FastFallbackMessages in flight
  plan,      \* ConnectPlan: the ConnectAttemptState of each route
  lost,      \* how often connect_race_lost was emitted for each route
  winner     \* winner_index, 0 before there is one

vars == <<count, dialer, task, aborted, channel, plan, lost, winner>>

Route == 1 .. count
AttemptState == {"Pending", "Running", "Won", "Lost", "Failed"}
Failure == {"retryable", "fatal"}   \* is_retryable_establishment or not
Message ==
  [kind : {"Started"}, route : 1 .. MaxRoutes]
    \cup [kind : {"Finished"}, route : 1 .. MaxRoutes, result : {"ok"} \cup Failure]

(***************************************************************************)
(* The ConnectPlan.  A transition does not look at the state it replaces.  *)
(***************************************************************************)
Transition(r, state) == [plan EXCEPT ![r] = state]

PromoteWinner(w) ==
  [r \in Route |->
     IF r = w THEN "Won"
     ELSE IF plan[r] \in {"Pending", "Running"} THEN "Lost" ELSE plan[r]]

(***************************************************************************)
(* The channel and its owners.  The receiver lives as long as              *)
(* dial_route_plan; a message sent later is dropped by its sender, a       *)
(* message that waits when the receiver goes is dropped with it.  A task   *)
(* holds its sender until it is gone; the dialer drops its own one when    *)
(* every route is spawned.                                                 *)
(***************************************************************************)
Listening == dialer \in {"spawning", "racing"}
Live(r) == task[r] \notin {"unspawned", "gone"}
Send(m) == channel' = IF Listening THEN Append(channel, m) ELSE channel

NoSenders == \A r \in Route : ~Live(r)

\* Mutant: the receiver outlives the dial.
ReturnListening(outcome) ==
  /\ dialer' = outcome
  /\ UNCHANGED channel

Return(outcome) ==
  /\ dialer' = outcome
  /\ channel' = <<>>

Init ==
  /\ count \in 0 .. MaxRoutes
  /\ dialer = "spawning"
  /\ task = [r \in Route |-> "unspawned"]
  /\ aborted = {}
  /\ channel = <<>>
  /\ plan = [r \in Route |-> "Pending"]
  /\ lost = [r \in Route |-> 0]
  /\ winner = 0

(***************************************************************************)
(* Spawning: no await separates the spawns, so the dial cannot be dropped  *)
(* among them, but the tasks already spawned run.                          *)
(***************************************************************************)
EmptyPlan ==
  /\ dialer = "spawning"
  /\ count = 0
  /\ Return("exhausted")
  /\ UNCHANGED <<count, task, aborted, plan, lost, winner>>

NextToSpawn(r) ==
  /\ dialer = "spawning"
  /\ task[r] = "unspawned"
  /\ \A s \in 1 .. r - 1 : task[s] # "unspawned"

Spawn(r) ==
  /\ NextToSpawn(r)
  /\ task' = [task EXCEPT ![r] = "delay"]
  /\ dialer' = IF r = count THEN "racing" ELSE dialer
  /\ UNCHANGED <<count, aborted, channel, plan, lost, winner>>

AbortAll == aborted' = {r \in Route : task[r] # "unspawned"}

SpawnFails(r) ==
  /\ NextToSpawn(r)
  /\ AbortAll
  /\ Return("failed")
  /\ UNCHANGED <<count, task, plan, lost, winner>>

(***************************************************************************)
(* A route task.                                                           *)
(***************************************************************************)
DelayEnds(r) ==
  /\ task[r] = "delay"
  /\ task' = [task EXCEPT ![r] = "connect"]
  /\ Send([kind |-> "Started", route |-> r])
  /\ UNCHANGED <<count, dialer, aborted, plan, lost, winner>>

Connects(r) ==
  /\ task[r] = "connect"
  /\ task' = [task EXCEPT ![r] = "finalize"]
  /\ UNCHANGED <<count, dialer, aborted, channel, plan, lost, winner>>

Finish(r, result) ==
  /\ task' = [task EXCEPT ![r] = "gone"]
  /\ Send([kind |-> "Finished", route |-> r, result |-> result])
  /\ UNCHANGED <<count, dialer, aborted, plan, lost, winner>>

ConnectFails(r) ==
  /\ task[r] = "connect"
  /\ \E f \in Failure : Finish(r, f)

Finalizes(r) ==
  /\ task[r] = "finalize"
  /\ \E result \in {"ok"} \cup Failure : Finish(r, result)

\* The abort flag is seen by the next poll.
Stops(r) ==
  /\ r \in aborted
  /\ Live(r)
  /\ task' = [task EXCEPT ![r] = "gone"]
  /\ UNCHANGED <<count, dialer, aborted, channel, plan, lost, winner>>

\* The executor drops the task before it reports (RouteTaskLifecycle::drop).
Vanishes(r) ==
  /\ Live(r)
  /\ task' = [task EXCEPT ![r] = "gone"]
  /\ UNCHANGED <<count, dialer, aborted, channel, plan, lost, winner>>

(***************************************************************************)
(* The dialer's loop over the channel.                                     *)
(***************************************************************************)
Heard(kind) ==
  /\ dialer = "racing"
  /\ channel # <<>>
  /\ Head(channel).kind = kind

HearStarted ==
  /\ Heard("Started")
  /\ plan' = Transition(Head(channel).route, "Running")
  /\ channel' = Tail(channel)
  /\ UNCHANGED <<count, dialer, task, aborted, lost, winner>>

\* emit_canceled_loss_if_needed, for a plan whose winner is promoted.
Canceled(w, states) ==
  {r \in Route \ {w} : states[r] \in {"Pending", "Running", "Lost"}}

HearWon ==
  /\ Heard("Finished")
  /\ Head(channel).result = "ok"
  /\ LET w == Head(channel).route IN
       /\ plan' = [r \in Route |-> IF r \in Canceled(w, PromoteWinner(w)) THEN "Lost"
                                   ELSE PromoteWinner(w)[r]]
       /\ lost' = [r \in Route |-> lost[r] + IF r \in Canceled(w, PromoteWinner(w)) THEN 1 ELSE 0]
       /\ aborted' = aborted \cup (Route \ {w})
       /\ winner' = w
  /\ Return("won")
  /\ UNCHANGED <<count, task>>

FailRoute(r) ==
  /\ plan' = Transition(r, "Failed")
  /\ lost' = [lost EXCEPT ![r] = @ + 1]

HearFailed ==
  /\ Heard("Finished")
  /\ Head(channel).result = "retryable"
  /\ FailRoute(Head(channel).route)
  /\ channel' = Tail(channel)
  /\ UNCHANGED <<count, dialer, task, aborted, winner>>

\* Mutant: the other routes are not aborted.
HearFatalQuietly ==
  /\ Heard("Finished")
  /\ Head(channel).result = "fatal"
  /\ FailRoute(Head(channel).route)
  /\ Return("failed")
  /\ UNCHANGED <<count, task, aborted, winner>>

HearFatal ==
  /\ Heard("Finished")
  /\ Head(channel).result = "fatal"
  /\ FailRoute(Head(channel).route)
  /\ AbortAll
  /\ Return("failed")
  /\ UNCHANGED <<count, task, winner>>

\* rx.next() yields None: nothing waits and every sender is gone.
ChannelEnds ==
  /\ dialer = "racing"
  /\ channel = <<>>
  /\ NoSenders
  /\ AbortAll
  /\ Return("exhausted")
  /\ UNCHANGED <<count, task, plan, lost, winner>>

\* The call is cancelled or its deadline passes: the future of the dial is
\* dropped, and the RaceTasks with it.  Dropping an AbortHandle aborts nothing.
Drop ==
  /\ dialer = "racing"
  /\ Return("dropped")
  /\ UNCHANGED <<count, task, aborted, plan, lost, winner>>

RouteStep(r) ==
  \/ DelayEnds(r)
  \/ Connects(r)
  \/ ConnectFails(r)
  \/ Finalizes(r)

DialerStep ==
  \/ HearStarted
  \/ HearWon
  \/ HearFailed
  \/ HearFatal
  \/ ChannelEnds

Next ==
  \/ EmptyPlan
  \/ \E r \in Route :
       \/ Spawn(r)
       \/ SpawnFails(r)
       \/ RouteStep(r)
       \/ Stops(r)
       \/ Vanishes(r)
  \/ DialerStep
  \/ Drop

(***************************************************************************)
(* The dialer and the route tasks are polled when they are woken.  That a  *)
(* task leaves "connect" and "finalize" holds when connect_timeout is set: *)
(* the connector and with_connect_timeout then end both.                   *)
(***************************************************************************)
Fairness ==
  /\ WF_vars(EmptyPlan \/ \E r \in Route : Spawn(r))
  /\ WF_vars(DialerStep)
  /\ \A n \in 1 .. MaxRoutes :
       /\ WF_vars(n \in Route /\ RouteStep(n))
       /\ WF_vars(n \in Route /\ Stops(n))

Spec == Init /\ [][Next]_vars /\ Fairness

-----------------------------------------------------------------------------
\* Every variable has its type; a waiting message names a route of the plan.
TypeOK ==
  /\ count \in 0 .. MaxRoutes
  /\ dialer \in {"spawning", "racing", "won", "failed", "exhausted", "dropped"}
  /\ task \in [Route -> {"unspawned", "delay", "connect", "finalize", "gone"}]
  /\ aborted \subseteq Route
  /\ channel \in Seq(Message)
  /\ \A i \in DOMAIN channel : channel[i].route \in Route
  /\ plan \in [Route -> AttemptState]
  /\ lost \in [Route -> Nat]
  /\ winner \in 0 .. count

\* A won race is settled for the listener: the winner never lost, and every
\* other route, whether it failed, was running or had not started, got exactly
\* one connect_race_lost, however its reports raced with the winner's
\* (promote_winner, cleanup_losers, emit_canceled_loss_if_needed).
WonRaceIsSettled ==
  dialer = "won" =>
    /\ plan[winner] = "Won"
    /\ lost[winner] = 0
    /\ \A r \in Route \ {winner} : plan[r] \in {"Lost", "Failed"} /\ lost[r] = 1

\* The dial gives up on the last error only when no route is left: every route
\* failed, or its task ended without a report (the end of the channel after
\* the dialer dropped its own sender).
ExhaustedMeansTried ==
  dialer = "exhausted" => \A r \in Route : task[r] = "gone" /\ plan[r] # "Won"

\* A dial that returned leaves nothing behind that is not told to stop: every
\* task still alive is aborted (abort_all and cleanup_losers on each return).
ReturnAbortsTasks ==
  dialer \in {"won", "failed", "exhausted"} =>
    \A r \in Route : Live(r) => r \in aborted

\* A dial that is neither dropped nor refused by the executor returns: the
\* channel ends once the routes have reported.
DialReturns == (dialer = "racing") ~> (dialer # "racing")

\* The sockets of a dial: a task holds one from its connect on, a connection
\* that waits in the channel one, and the winner's caller one.
Sockets ==
  {r \in Route : task[r] = "finalize"}
    \cup {r \in Route : \E i \in DOMAIN channel :
            channel[i] = [kind |-> "Finished", route |-> r, result |-> "ok"]}
    \cup (IF dialer = "won" THEN {winner} ELSE {})

\* Sooner or later only the winner's socket is open, also when the dial was
\* dropped: a connection nobody waits for is closed by its task.
LosersClose ==
  (dialer \notin {"spawning", "racing"}) ~> (Sockets \subseteq {winner})

\* Whichever way a dial returns, it has tried what it had to try, told the
\* listener how each route ended, and stopped what it does not need.
ReturnIsClean == TypeOK /\ WonRaceIsSettled /\ ExhaustedMeansTried /\ ReturnAbortsTasks

\* A dial returns, and what it leaves behind closes.
DialSettles == DialReturns /\ LosersClose
=============================================================================
