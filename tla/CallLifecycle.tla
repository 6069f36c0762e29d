---------------------------- MODULE CallLifecycle ----------------------------
(***************************************************************************)
(* One call of the client, from Call::execute or Call::enqueue to the drop  *)
(* of the response body (crates/openwire/src/client.rs), with the transport *)
(* layer's incoming body under it (crates/openwire/src/transport/body.rs).  *)
(*                                                                         *)
(* Who runs:                                                                *)
(*   - the task that polls the execution future, then the task that polls   *)
(*     the response body; between two polls either may move to another      *)
(*     task;                                                                *)
(*   - the owners of the call's handles, each running CallState::cancel,    *)
(*     whose store, wake and notify are three steps;                        *)
(*   - the timer, and the sleeper task of the body's deadline signal, whose *)
(*     store and wake are two steps.                                        *)
(*                                                                         *)
(* A poll of either wake slot (CallState::poll_canceled, poll_deadline)     *)
(* reads the flag, registers the waker and reads the flag again, as three   *)
(* steps.  The slots themselves (futures::task::AtomicWaker) and the timer  *)
(* are external: register replaces the waker, wake takes it.                *)
(*                                                                         *)
(* The attempt modelled is the one whose response reaches the caller; what  *)
(* the follow-up policy does with earlier ones is FollowUp's.               *)
(***************************************************************************)
EXTENDS Naturals, Sequences, Functions

CONSTANTS Tasks,    \* tasks that may poll the call
          Handles,  \* clones of the CallHandle, one cancel() each
          NoTask    \* an empty wake slot

ASSUME NoTaskIsNoTask == NoTask \notin Tasks

VARIABLES
    deadline,   \* the call has a call_timeout
    decoding,   \* a DecodedResponseBody sits between the two body wrappers
    queued,     \* "no": execute; else the QueuedCall is "held" or "dropped"
    pc,         \* where the call is
    on,         \* the task that polls it
    scheduled,  \* tasks the runtime is to poll
    canceled, notified, cancels, waker, cpc,    \* CallState and its cancels
    late, timerWaker,                           \* the call's deadline timer
    signal, dwaker,                             \* BodyDeadlineSignal
    force, drained, lease,                      \* the incoming body
    permit,     \* the request admission of the attempt
    log,        \* what the event listener was told, in order
    doomed      \* history: the call was canceled when this poll began

state == <<canceled, notified, cancels, waker, cpc>>
timer == <<late, timerWaker>>
body  == <<signal, dwaker, force, drained, lease, permit>>
fixed == <<deadline, decoding>>
vars  == <<deadline, decoding, queued, pc, on, scheduled, state, timer, body,
           log, doomed>>

Waiting == {"parked", "bparked"}
Executing == {"precheck", "inner", "sleep", "check", "register", "recheck",
              "parked"}
Over == {"refused", "failed", "dropped", "gone"}

Init ==
    /\ deadline \in BOOLEAN
    /\ decoding \in BOOLEAN
    /\ queued = "no"
    /\ pc = "built"
    /\ on \in Tasks
    /\ scheduled = {}
    /\ canceled = FALSE /\ notified = FALSE /\ cancels = 0
    /\ waker = NoTask
    /\ cpc = [h \in Handles |-> "idle"]
    /\ late = FALSE /\ timerWaker = NoTask
    /\ signal = "none" /\ dwaker = NoTask
    /\ force = FALSE /\ drained = FALSE /\ lease = "none"
    /\ permit = "none"
    /\ log = <<>>
    /\ doomed = FALSE

-----------------------------------------------------------------------------
(* What the listener is told when the incoming body goes away.             *)

Told(event) == event \in Range(log)

\* ensure_body_started
StartBody(l) == IF Told("response_body_start") THEN l
                ELSE Append(l, "response_body_start")

\* finish_abandoned of the incoming body, run by its Drop.  A body that has
\* finished (its lease is settled), or was never wrapped, says nothing.
Abandoned(l) ==
    IF lease # "held" THEN l
    ELSE Append(StartBody(l), IF force THEN "response_body_failed"
                                       ELSE "response_body_end")

AbandonedLease ==
    IF lease # "held" THEN lease
    ELSE IF force THEN "discarded" ELSE "abandoned"

Schedule(t) == scheduled \cup ({t} \ {NoTask})

-----------------------------------------------------------------------------
(* Cancellation: CallState::cancel, by any handle.                         *)

CancelStore(h) ==
    /\ cpc[h] = "idle"
    /\ canceled' = TRUE
    /\ cpc' = [cpc EXCEPT ![h] = "wake"]
    /\ UNCHANGED <<fixed, queued, pc, on, scheduled, notified, cancels, waker,
                   timer, body, log, doomed>>

CancelWake(h) ==
    /\ cpc[h] = "wake"
    /\ scheduled' = Schedule(waker)
    /\ waker' = NoTask
    /\ cpc' = [cpc EXCEPT ![h] = "notify"]
    /\ UNCHANGED <<fixed, queued, pc, on, canceled, notified, cancels, timer,
                   body, log, doomed>>

\* The swap, and listener.canceled() for the first to swap.
CancelNotify(h) ==
    /\ cpc[h] = "notify"
    /\ notified' = TRUE
    /\ cancels' = IF notified THEN cancels ELSE cancels + 1
    /\ cpc' = [cpc EXCEPT ![h] = "done"]
    /\ UNCHANGED <<fixed, queued, pc, on, scheduled, canceled, waker, timer,
                   body, log, doomed>>

-----------------------------------------------------------------------------
(* The deadline: the timer of with_call_deadline, and the sleeper.         *)

TimerFires ==
    /\ deadline /\ ~late
    /\ pc # "built"
    /\ late' = TRUE
    /\ scheduled' = Schedule(timerWaker)
    /\ timerWaker' = NoTask
    /\ UNCHANGED <<fixed, queued, pc, on, state, body, log, doomed>>

SleeperStores ==
    /\ late /\ signal = "waiting"
    /\ signal' = "stored"
    /\ UNCHANGED <<fixed, queued, pc, on, scheduled, state, timer, dwaker,
                   force, drained, lease, permit, log, doomed>>

SleeperWakes ==
    /\ signal = "stored"
    /\ signal' = "expired"
    /\ scheduled' = Schedule(dwaker)
    /\ dwaker' = NoTask
    /\ UNCHANGED <<fixed, queued, pc, on, state, timer, force, drained, lease,
                   permit, log, doomed>>

Expired == signal \in {"stored", "expired"}

-----------------------------------------------------------------------------
(* Execution.                                                              *)

Execute ==
    /\ pc = "built"
    /\ pc' = "precheck"
    /\ log' = Append(log, "call_start")
    /\ UNCHANGED <<fixed, queued, on, scheduled, state, timer, body, doomed>>

Enqueue ==
    /\ pc = "built"
    /\ log' = Append(log, "dispatcher_queue_start")
    /\ \/ pc' = "spawned" /\ queued' = "held"
       \/ pc' = "refused" /\ UNCHANGED queued
    /\ UNCHANGED <<fixed, on, scheduled, state, timer, body, doomed>>

RunSpawned ==
    /\ pc = "spawned"
    /\ pc' = "precheck"
    /\ log' = Append(log, "call_start")
    /\ UNCHANGED <<fixed, queued, on, scheduled, state, timer, body, doomed>>

\* Dropping the QueuedCall leaves the spawned task alone; a result it has
\* already sent is dropped with the channel (DropResult).
DropQueuedCall ==
    /\ queued = "held"
    /\ pc \in Executing \cup {"spawned"}
    /\ queued' = "dropped"
    /\ UNCHANGED <<fixed, pc, on, scheduled, state, timer, body, log, doomed>>

\* The call ends with an error before a response reached the caller: the
\* execution future is dropped, with the response some layer may be holding,
\* and execute_prepared reports call_failed.
Fail ==
    /\ pc' = "failed"
    /\ log' = Append(Abandoned(log), "call_failed")
    /\ lease' = AbandonedLease
    /\ permit' = IF permit = "held" THEN "free" ELSE permit
    /\ UNCHANGED <<signal, dwaker, force, drained>>

PreCheck ==
    /\ pc = "precheck"
    /\ IF canceled THEN Fail
       ELSE pc' = "inner" /\ UNCHANGED <<body, log>>
    /\ UNCHANGED <<fixed, queued, on, scheduled, state, timer, doomed>>

\* execute_exchange: a response arrives; its body gets the deadline signal,
\* the lease and, through the response's extensions, the permit.
TransportResponds ==
    /\ pc = "inner" /\ lease = "none"
    /\ lease' = "held" /\ permit' = "held"
    /\ signal' = IF ~deadline THEN "none"
                 ELSE IF late THEN "expired" ELSE "waiting"
    /\ UNCHANGED <<fixed, queued, pc, on, scheduled, state, timer, dwaker,
                   force, drained, log, doomed>>

\* The same, when the sleeper cannot be spawned: the lease and the permit are
\* dropped before there is a body to report about.
SleeperRefused ==
    /\ pc = "inner" /\ lease = "none" /\ deadline /\ ~late
    /\ pc' = "failed"
    /\ lease' = "abandoned" /\ permit' = "free"
    /\ log' = Append(log, "call_failed")
    /\ UNCHANGED <<fixed, queued, on, scheduled, state, timer, signal, dwaker,
                   force, drained, doomed>>

\* The service chain fails: no response, or one a layer above refused.
InnerFails ==
    /\ pc = "inner"
    /\ Fail
    /\ UNCHANGED <<fixed, queued, on, scheduled, state, timer, doomed>>

\* Mutant: the permit stays in the extensions and goes with them.
InnerReturnsBare ==
    /\ pc = "inner" /\ lease = "held"
    /\ pc' = IF queued = "no" THEN "ready" ELSE "sent"
    /\ permit' = "free"
    /\ UNCHANGED <<fixed, queued, on, scheduled, state, timer, signal, dwaker,
                   force, drained, lease, log, doomed>>

\* attach_call_lifecycle: the body is wrapped and the permit moves into it.
InnerReturns ==
    /\ pc = "inner" /\ lease = "held"
    /\ pc' = IF queued = "no" THEN "ready" ELSE "sent"
    /\ UNCHANGED <<fixed, queued, on, scheduled, state, timer, body, log,
                   doomed>>

InnerPending ==
    /\ pc = "inner"
    /\ pc' = "sleep"
    /\ UNCHANGED <<fixed, queued, on, scheduled, state, timer, body, log,
                   doomed>>

PollSleep ==
    /\ pc = "sleep"
    /\ IF late THEN Fail /\ UNCHANGED timerWaker
       ELSE /\ timerWaker' = IF deadline THEN on ELSE NoTask
            /\ pc' = "check"
            /\ UNCHANGED <<body, log>>
    /\ UNCHANGED <<fixed, queued, on, scheduled, state, late, doomed>>

\* Mutant: a cancellation seen late schedules one more poll.
CheckCanceledYielding ==
    /\ pc \in {"check", "recheck"}
    /\ pc' = IF canceled \/ pc = "recheck" THEN "parked" ELSE "register"
    /\ scheduled' = IF canceled THEN scheduled \cup {on} ELSE scheduled
    /\ UNCHANGED <<fixed, queued, on, state, timer, body, log, doomed>>

\* CallCanceled::poll, that is poll_canceled.
CheckCanceled ==
    /\ pc \in {"check", "recheck"}
    /\ IF canceled THEN Fail
       ELSE /\ pc' = IF pc = "check" THEN "register" ELSE "parked"
            /\ UNCHANGED <<body, log>>
    /\ UNCHANGED <<fixed, queued, on, scheduled, state, timer, doomed>>

\* Mutant: the flag is not read again after the registration.
RegisterAndPark ==
    /\ pc \in {"register", "bregister"}
    /\ waker' = on
    /\ pc' = IF pc = "register" THEN "parked"
             ELSE IF decoding THEN "decode" ELSE "dcheck"
    /\ UNCHANGED <<fixed, queued, on, scheduled, canceled, notified, cancels,
                   cpc, timer, body, log, doomed>>

RegisterCanceled ==
    /\ pc \in {"register", "bregister"}
    /\ waker' = on
    /\ pc' = IF pc = "register" THEN "recheck" ELSE "brecheck"
    /\ UNCHANGED <<fixed, queued, on, scheduled, canceled, notified, cancels,
                   cpc, timer, body, log, doomed>>

\* The runtime polls a scheduled task.
Woken ==
    /\ pc \in Waiting /\ on \in scheduled
    /\ scheduled' = scheduled \ {on}
    /\ pc' = IF pc = "parked" THEN "inner" ELSE "bcheck"
    /\ doomed' = (pc = "bparked" /\ canceled)
    /\ UNCHANGED <<fixed, queued, on, state, timer, body, log>>

\* Some other wakeup (I/O, another branch of the caller's task), possibly of
\* another task that the future was moved to.
Repoll(t) ==
    /\ pc \in Waiting
    /\ on' = t
    /\ scheduled' = scheduled \ {t}
    /\ pc' = IF pc = "parked" THEN "inner" ELSE "bcheck"
    /\ doomed' = (pc = "bparked" /\ canceled)
    /\ UNCHANGED <<fixed, queued, state, timer, body, log>>

\* The owner of the execution future drops it between two polls.
DropExecution ==
    /\ pc \in {"spawned", "parked"}
    /\ pc' = "dropped"
    /\ log' = Abandoned(log)
    /\ lease' = AbandonedLease
    /\ permit' = IF permit = "held" THEN "free" ELSE permit
    /\ UNCHANGED <<fixed, queued, on, scheduled, state, timer, signal, dwaker,
                   force, drained, doomed>>

-----------------------------------------------------------------------------
(* The response body in the caller's hands.                                *)

\* finish_successfully and finish_with_error of CallLifecycleBody: the inner
\* body is dropped, then the listener hears the end of the call.  The permit
\* stays until the wrapper itself is dropped.
Finish(event) ==
    /\ pc' = "held"
    /\ log' = Append(Abandoned(log), event)
    /\ lease' = AbandonedLease
    /\ UNCHANGED <<signal, dwaker, force, drained, permit>>

\* Mutant: a body that is given up is a success.
DropAsSuccess ==
    /\ pc' = "gone"
    /\ log' = Append(Abandoned(log), "call_end")
    /\ lease' = AbandonedLease
    /\ permit' = "free"
    /\ doomed' = canceled
    /\ UNCHANGED <<signal, dwaker, force, drained>>

\* The wrapper is dropped unfinished: finish_abandoned, then its fields.
DropUnfinished ==
    /\ pc' = "gone"
    /\ log' = Append(Abandoned(log),
                     IF canceled THEN "call_failed" ELSE "call_end")
    /\ lease' = AbandonedLease
    /\ permit' = "free"
    /\ doomed' = canceled
    /\ UNCHANGED <<signal, dwaker, force, drained>>

\* QueuedCall::await_response, or a drop with the result still unclaimed.
AwaitResponse ==
    /\ pc = "sent" /\ queued = "held"
    /\ pc' = "ready"
    /\ UNCHANGED <<fixed, queued, on, scheduled, state, timer, body, log,
                   doomed>>

DropResult ==
    /\ pc = "sent" /\ queued = "held"
    /\ queued' = "dropped"
    /\ DropUnfinished
    /\ UNCHANGED <<fixed, on, scheduled, state, timer>>

\* A send that finds the receiver gone drops the result at once.
SendFails ==
    /\ pc = "sent" /\ queued = "dropped"
    /\ DropUnfinished
    /\ UNCHANGED <<fixed, queued, on, scheduled, state, timer>>

DropBody ==
    /\ pc \in {"ready", "bparked"}
    /\ DropUnfinished
    /\ UNCHANGED <<fixed, queued, on, scheduled, state, timer>>

DropFinished ==
    /\ pc = "held"
    /\ pc' = "gone"
    /\ permit' = "free"
    /\ UNCHANGED <<fixed, queued, on, scheduled, state, timer, signal, dwaker,
                   force, drained, lease, log, doomed>>

\* poll_frame of CallLifecycleBody, from its first line.
PollBody(t) ==
    /\ pc = "ready"
    /\ on' = t
    /\ doomed' = canceled
    /\ pc' = "bcheck"
    /\ UNCHANGED <<fixed, queued, scheduled, state, timer, body, log>>

BodyCheckCanceled ==
    /\ pc \in {"bcheck", "brecheck"}
    /\ IF canceled THEN Finish("call_failed")
       ELSE /\ pc' = IF pc = "bcheck" THEN "bregister"
                     ELSE IF decoding THEN "decode" ELSE "dcheck"
            /\ UNCHANGED <<body, log>>
    /\ UNCHANGED <<fixed, queued, on, scheduled, state, timer, doomed>>

\* DecodedResponseBody::poll_frame: from what it has buffered it delivers
\* data, fails (marking the connection to be discarded) or reaches the end of
\* the encoded stream; or it polls the body below.
Decode ==
    /\ pc = "decode"
    /\ \/ pc' = "ready" /\ UNCHANGED <<body, log>>
       \/ /\ force' = TRUE
          /\ pc' = "held"
          /\ log' = Append(IF lease # "held" THEN log
                           ELSE Append(StartBody(log), "response_body_failed"),
                           "call_failed")
          /\ lease' = IF lease = "held" THEN "discarded" ELSE lease
          /\ UNCHANGED <<signal, dwaker, drained, permit>>
       \/ Finish("call_end")
       \/ ~drained /\ pc' = "dcheck" /\ UNCHANGED <<body, log>>
    /\ UNCHANGED <<fixed, queued, on, scheduled, state, timer, doomed>>

\* finish_with_error of the incoming body, and of the wrapper above it: the
\* two errors are one answer to the caller.  A decoder in between marks the
\* connection to be discarded.
BodyError ==
    /\ pc' = "held"
    /\ force' = (force \/ decoding)
    /\ log' = Append(Append(StartBody(log), "response_body_failed"), "call_failed")
    /\ lease' = "discarded"
    /\ UNCHANGED <<signal, dwaker, drained, permit>>

\* poll_deadline of the incoming body.
CheckDeadline ==
    /\ pc \in {"dcheck", "drecheck"}
    /\ IF Expired THEN BodyError
       ELSE /\ pc' = IF pc = "dcheck" /\ signal # "none" THEN "dregister"
                     ELSE "frame"
            /\ UNCHANGED <<body, log>>
    /\ UNCHANGED <<fixed, queued, on, scheduled, state, timer, doomed>>

RegisterDeadline ==
    /\ pc = "dregister"
    /\ dwaker' = on
    /\ pc' = "drecheck"
    /\ UNCHANGED <<fixed, queued, on, scheduled, state, timer, signal, force,
                   drained, lease, permit, log, doomed>>

\* poll_frame of the incoming body, past its deadline: a frame of data, a
\* frame of trailers, an error, the end, or nothing yet.
FrameData ==
    /\ pc = "frame"
    /\ pc' = IF decoding THEN "decode" ELSE "ready"
    /\ log' \in {StartBody(log), log}
    /\ UNCHANGED <<fixed, queued, on, scheduled, state, timer, body, doomed>>

FrameError ==
    /\ pc = "frame"
    /\ BodyError
    /\ UNCHANGED <<fixed, queued, on, scheduled, state, timer, doomed>>

FrameEnd ==
    /\ pc = "frame"
    /\ drained' = TRUE
    /\ lease' = "released"
    /\ LET ended == Append(StartBody(log), "response_body_end")
       IN IF decoding THEN pc' = "decode" /\ log' = ended
          ELSE pc' = "held" /\ log' = Append(ended, "call_end")
    /\ UNCHANGED <<fixed, queued, on, scheduled, state, timer, signal, dwaker,
                   force, permit, doomed>>

FramePending ==
    /\ pc = "frame"
    /\ pc' = "bparked"
    /\ UNCHANGED <<fixed, queued, on, scheduled, state, timer, body, log,
                   doomed>>

-----------------------------------------------------------------------------
Cancel == \E h \in Handles : CancelStore(h) \/ CancelWake(h) \/ CancelNotify(h)

Sleeper == SleeperStores \/ SleeperWakes

ExecutionStep ==
    \/ RunSpawned \/ PreCheck
    \/ TransportResponds \/ SleeperRefused
    \/ InnerFails \/ InnerReturns \/ InnerPending
    \/ PollSleep \/ CheckCanceled \/ RegisterCanceled

BodyStep ==
    \/ BodyCheckCanceled \/ Decode
    \/ CheckDeadline \/ RegisterDeadline
    \/ FrameData \/ FrameError \/ FrameEnd \/ FramePending

Caller ==
    \/ Execute \/ Enqueue \/ DropQueuedCall \/ AwaitResponse
    \/ DropResult \/ DropExecution \/ DropBody \/ DropFinished
    \/ \E t \in Tasks : PollBody(t) \/ Repoll(t)

\* The call is over and every cancel, timer and sleeper has run.
Finished ==
    /\ pc \in Over
    /\ \A h \in Handles : cpc[h] = "done"
    /\ deadline => late
    /\ signal \in {"none", "expired"}
    /\ UNCHANGED vars

Next ==
    \/ Cancel \/ TimerFires \/ Sleeper
    \/ ExecutionStep \/ BodyStep \/ Woken \/ SendFails
    \/ Caller
    \/ Finished

\* The runtime polls the tasks it was told to, a poll that has begun runs to
\* its end, the timer fires, and a cancel() that has begun returns.  Nothing
\* obliges a caller to poll, drop or cancel.
Fairness ==
    /\ WF_vars(Woken)
    /\ WF_vars(ExecutionStep)
    /\ WF_vars(BodyStep)
    /\ WF_vars(SendFails)
    /\ WF_vars(TimerFires)
    /\ WF_vars(Sleeper)
    /\ \A h \in Handles : WF_vars(CancelWake(h)) /\ WF_vars(CancelNotify(h))

Spec == Init /\ [][Next]_vars

FairSpec == Spec /\ Fairness

-----------------------------------------------------------------------------
Events == {"dispatcher_queue_start", "call_start", "call_end", "call_failed",
           "response_body_start", "response_body_end", "response_body_failed"}

TypeOK ==
    /\ deadline \in BOOLEAN /\ decoding \in BOOLEAN
    /\ queued \in {"no", "held", "dropped"}
    /\ pc \in Executing \cup Over
              \cup {"built", "spawned", "sent", "ready", "held", "bcheck",
                    "bregister", "brecheck", "decode", "dcheck", "dregister",
                    "drecheck", "frame", "bparked"}
    /\ on \in Tasks /\ scheduled \subseteq Tasks
    /\ canceled \in BOOLEAN /\ notified \in BOOLEAN /\ cancels \in Nat
    /\ {waker, timerWaker, dwaker} \subseteq Tasks \cup {NoTask}
    /\ cpc \in [Handles -> {"idle", "wake", "notify", "done"}]
    /\ late \in BOOLEAN
    /\ signal \in {"none", "waiting", "stored", "expired"}
    /\ force \in BOOLEAN /\ drained \in BOOLEAN
    /\ lease \in {"none", "held", "released", "discarded", "abandoned"}
    /\ permit \in {"none", "held", "free"}
    /\ log \in Seq(Events)
    /\ doomed \in BOOLEAN

Terminals == {"call_end", "call_failed"}
BodyEnds == {"response_body_end", "response_body_failed"}

Reported(S) == \E e \in S : Told(e)

AtMostOnce(S) == \A i, j \in DOMAIN log : log[i] \in S /\ log[j] \in S => i = j

\* A call reports at most one of call_end and call_failed, after call_start
\* and as the last thing it reports; and it has reported one whenever its
\* error or its body is out of the client's hands, however the body was given
\* up.  Only dropping the execution future ends a call without a report
\* (EventPairIsClosed).
OneTerminalEvent ==
    /\ AtMostOnce(Terminals) /\ AtMostOnce({"call_start"})
    /\ Reported(Terminals) => Told("call_start") /\ log[Len(log)] \in Terminals
    /\ pc \in {"failed", "held", "gone"} => Reported(Terminals)

\* The incoming body reports its start before exactly one of end and failed,
\* exactly when it gives up its lease, and always before the call's own
\* terminal event; and a body that failed never ends in call_end.
BodyIsInsideCall ==
    /\ AtMostOnce({"response_body_start"}) /\ AtMostOnce(BodyEnds)
    /\ \A i \in DOMAIN log :
          log[i] \in BodyEnds => \E j \in 1..(i-1) : log[j] = "response_body_start"
    /\ Told("response_body_failed") => ~Told("call_end")
    /\ pc # "failed" /\ lease \notin {"none", "held"} => Reported(BodyEnds)

\* A connection goes back to the pool for reuse only when its response was
\* read to the end and nothing was reported to have failed, and a body that
\* was reported to have failed takes its connection down with it.
LeaseFollowsBody ==
    /\ lease = "released" => drained /\ Told("response_body_end")
    /\ Told("response_body_failed") <=> lease = "discarded"
    /\ drained => lease = "released"

\* A request slot is held for as long as the exchange it was granted for has a
\* connection, and given back once the call is over.
SlotOutlivesLease ==
    /\ lease = "held" => permit = "held"
    /\ pc \in Over => permit # "held"

\* However many handles cancel, and however their steps interleave, the
\* listener hears canceled() once, and it has heard it when any of the
\* cancel() calls returns.
CanceledOnce ==
    /\ cancels <= 1
    /\ (\E h \in Handles : cpc[h] = "done") => cancels = 1

\* A task that waits while the call is canceled is about to be polled, or a
\* cancel() that is still running will wake it: the store of the flag cannot
\* fall between the waiter's look at it and its registration, even when the
\* future moved from one task to another in between.
CancelIsHeard ==
    pc \in Waiting /\ canceled =>
        \/ on \in scheduled
        \/ waker = on /\ \E h \in Handles : cpc[h] = "wake"

\* The same for the deadline: the task that waits for the response is woken
\* by the timer, and the task that waits for a frame by the sleeper.
DeadlineIsHeard ==
    /\ pc = "parked" /\ deadline => on \in scheduled \/ timerWaker = on
    /\ pc = "bparked" /\ deadline /\ signal # "waiting" =>
          on \in scheduled \/ (signal = "stored" /\ dwaker = on)

\* A call that was canceled before a poll of its body began, or before its
\* body was dropped, never reports call_end.
CanceledNeverEnds == Told("call_end") => ~doomed

\* Canceling a call that is executing ends the execution, and canceling one
\* whose body is being waited for ends the call, with no help from the peer.
CancelEndsWaiting ==
    /\ canceled /\ pc \in Executing ~> pc \notin Executing
    /\ canceled /\ pc = "bparked" ~> Reported(Terminals)

\* What the listener hears of a call: one terminal event, after the body's
\* own, one canceled() at most, and no call_end for a call that was canceled.
ListenerHearsOneStory ==
    TypeOK /\ OneTerminalEvent /\ BodyIsInsideCall /\ CanceledOnce /\ CanceledNeverEnds

\* The connection and the request slot of a call are held as long as its body
\* and no longer.
ResourcesFollowBody == LeaseFollowsBody /\ SlotOutlivesLease

\* No cancellation and no deadline falls between a look and a registration.
SignalsAreHeard == CancelIsHeard /\ DeadlineIsHeard
=============================================================================
