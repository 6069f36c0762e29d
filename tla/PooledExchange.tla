--------------------------- MODULE PooledExchange ---------------------------
(***************************************************************************)
(* The life of an exchange on a pooled connection: ConnectionPool and      *)
(* RealConnection (connection/), ConnectionBindings and                    *)
(* ConnectionTaskRegistry (transport/bindings.rs), the acquire and send    *)
(* paths of TransportService and the ResponseLease of transport/body.rs.   *)
(*                                                                         *)
(* Every pool operation takes the lock of one address, prunes it (first it *)
(* looks, then it closes), does its work and unlocks; what it pruned       *)
(* leaves the other indexes afterwards.  Whether a timeout has passed, and *)
(* which idle connection is the oldest, is left open: a prune may evict    *)
(* any idle connection and must evict those beyond MaxIdle.  Waiting for a *)
(* slot is the subject of ConnectionLimits: here a call just gives up.     *)
(***************************************************************************)
EXTENDS Integers, Sequences, FiniteSets, SequencesExt

CONSTANTS
  Call, Reaper,     \* the processes: calls and the reaper of client.rs
  Address,
  Setups,           \* what the calls may ask of which origins, see setup
  Id,               \* connection ids, never reused
  None,
  MaxIdle, MaxStreams,
  MaxLost           \* bound on the calls dropped in flight

ASSUME ExchangeAssumption ==
  /\ Setups \subseteq [addressOf : [Call -> Address],
                       protocolOf : [Address -> {"Http1", "Http2"}],
                       coalescesWith : [Address -> SUBSET Address],
                       reaper : BOOLEAN]
  /\ None \notin Id \cup Address
  /\ Reaper \notin Call
  /\ MaxIdle \in Nat /\ MaxStreams \in Nat \ {0} /\ MaxLost \in Nat

Proc == Call \cup {Reaper}

VARIABLES
  setup,    \* the address of each call, what each origin speaks, whose Http2
            \* connections an address may share, and whether the executor took
            \* the reaper (client.rs:909): never changes
  real,     \* RealConnection: address, health, allocations
  bucket,   \* PoolState::by_address, in insertion order
  byId,     \* ConnectionPool::by_id
  index,    \* ConnectionPool::coalesced_by_target
  binding,  \* ConnectionBindings: "none", "here", or "out" (Http1 sender taken)
  task,     \* the hyper connection task
  handles,  \* ConnectionTaskRegistry
  pc,
  then,     \* where a process goes after finish_removals
  at,       \* the address whose shard a process has locked
  victims,  \* what its prune found and will close, or has closed
  doomed,   \* the one of them that the eviction hook is called for
  conn,     \* the connection a call has checked out
  shared,   \* candidates that acquire_coalesced has collected
  lost      \* calls dropped while they were sending on a connection

poolVars == <<bucket, byId, index>>

taskVars == <<binding, task, handles>>

procVars == <<pc, then, at, victims, doomed>>

vars == <<setup, real, poolVars, taskVars, procVars, conn, shared, lost>>

AddressOf == setup.addressOf

ProtocolOf == setup.protocolOf

CoalescesWith == setup.coalescesWith

Goto(p, l) == pc' = [pc EXCEPT ![p] = l]

-----------------------------------------------------------------------------
(* RealConnection *)

Protocol(i) == ProtocolOf[real[i].address]

CanAcquire(i) ==
  /\ real[i].health = "Healthy"
  /\ IF Protocol(i) = "Http1" THEN real[i].allocations = 0
                              ELSE real[i].allocations < MaxStreams

CanRelease(i) == real[i].health # "Closed" /\ real[i].allocations > 0

InUse(i) == real[i].health # "Closed" /\ real[i].allocations > 0

Idle(i) == real[i].health # "Closed" /\ real[i].allocations = 0

Acquired(R, i) == [R EXCEPT ![i].allocations = @ + 1]

Released(R, i) == [R EXCEPT ![i].allocations = @ - 1]

MarkedUnhealthy(R, i) ==
  [R EXCEPT ![i].health = IF @ = "Closed" THEN @ ELSE "Unhealthy"]

Closed(R, S) ==
  [i \in Id |-> IF i \in S THEN [R[i] EXCEPT !.health = "Closed", !.allocations = 0]
                           ELSE R[i]]

-----------------------------------------------------------------------------
(* ConnectionPool *)

InBucket(a) == {bucket[a][k] : k \in 1..Len(bucket[a])}

\* Wrong variant: a connection is judged by its health alone.
PruneWhateverIsUsed(a) ==
  {{i \in InBucket(a) : real[i].health # "Healthy"} \cup S :
     S \in {T \in SUBSET InBucket(a) : Cardinality(InBucket(a) \ T) <= MaxIdle}}

\* What prune_connections may find: everything unhealthy without users,
\* expired idle connections, and the idle ones above max_idle_per_address.
PruneChoices(a) ==
  LET unhealthy == {i \in InBucket(a) : real[i].health # "Healthy" /\ ~InUse(i)}
      idle == {i \in InBucket(a) : real[i].health = "Healthy" /\ Idle(i)}
  IN  {unhealthy \cup S : S \in {T \in SUBSET idle : Cardinality(idle \ T) <= MaxIdle}}

Unlocked(a) == \A p \in Proc : at[p] # a

\* The first half of an operation on address a: lock and look.
Lock(p, a, l) ==
  /\ Unlocked(a)
  /\ at' = [at EXCEPT ![p] = a]
  /\ \E V \in PruneChoices(a) : victims' = [victims EXCEPT ![p] = V]
  /\ pc' = [pc EXCEPT ![p] = l]
  /\ UNCHANGED doomed

\* The second half closes and drops what was found, and unlocks.
Kept(p, a) == SelectSeq(bucket[a], LAMBDA i : i \notin victims[p])

\* finish_removals returns at once when nothing was pruned.
Unlock(p, l) ==
  /\ at' = [at EXCEPT ![p] = None]
  /\ IF victims[p] = {}
       THEN /\ pc' = [pc EXCEPT ![p] = l]
            /\ then' = [then EXCEPT ![p] = "idle"]
       ELSE /\ pc' = [pc EXCEPT ![p] = "finish"]
            /\ then' = [then EXCEPT ![p] = l]
  /\ UNCHANGED <<victims, doomed>>

-----------------------------------------------------------------------------
(* Bindings and tasks *)

\* Wrong variant: the handle is dropped, which detaches a task.
HandleDropped(i) ==
  /\ handles' = handles \ {i}
  /\ UNCHANGED task

\* abort_connection stops a task only when its handle is registered; one that
\* has finished with the socket runs its last steps all the same.
TaskAborted(i) ==
  /\ task' = [task EXCEPT ![i] =
       IF i \in handles /\ @ = "running" THEN "done" ELSE @]
  /\ handles' = handles \ {i}

\* A sender is closed once its connection task is gone.
SenderClosed(i) == task[i] \notin {"none", "running"}

\* remove_without_hook forgets the id, and ends there when by_id does not know
\* it; then, under the lock of the address, it takes the connection from its
\* bucket, closes it and takes it from the index.
Unlisted(i) == byId' = byId \ {i}

Unshelved(i) ==
  LET a == real[i].address
  IN  /\ Unlocked(a)
      /\ IF i \in InBucket(a)
           THEN /\ bucket' = [bucket EXCEPT ![a] = SelectSeq(@, LAMBDA j : j # i)]
                /\ real' = Closed(real, {i})
                /\ index' = index \ {i}
           ELSE UNCHANGED <<bucket, real, index>>

Init ==
  /\ setup \in Setups
  /\ real = [i \in Id |-> [address |-> None, health |-> "Closed", allocations |-> 0]]
  /\ bucket = [a \in Address |-> <<>>]
  /\ byId = {}
  /\ index = {}
  /\ binding = [i \in Id |-> "none"]
  /\ task = [i \in Id |-> "none"]
  /\ handles = {}
  /\ pc = [p \in Proc |-> "idle"]
  /\ then = [p \in Proc |-> "idle"]
  /\ at = [p \in Proc |-> None]
  /\ victims = [p \in Proc |-> {}]
  /\ doomed = [p \in Proc |-> None]
  /\ conn = [c \in Call |-> None]
  /\ shared = [c \in Call |-> {}]
  /\ lost = [i \in Id |-> 0]

-----------------------------------------------------------------------------
(* finish_removals, of every operation that pruned: by_id, then the index,   *)
(* then for each connection the eviction hook, which is teardown_connection.  *)

FinishRemovals(p) ==
  /\ pc[p] = "finish"
  /\ byId' = byId \ victims[p]
  /\ Goto(p, "unindex")
  /\ UNCHANGED <<real, bucket, index, taskVars, then, at, victims, doomed, conn, shared, lost>>

RemoveIndexed(p) ==
  /\ pc[p] = "unindex"
  /\ index' = index \ victims[p]
  /\ Goto(p, "hook")
  /\ UNCHANGED <<real, bucket, byId, taskVars, then, at, victims, doomed, conn, shared, lost>>

NotifyEviction(p) ==
  /\ pc[p] = "hook"
  /\ \E i \in victims[p] :
       /\ binding' = [binding EXCEPT ![i] = "none"]
       /\ victims' = [victims EXCEPT ![p] = @ \ {i}]
       /\ doomed' = [doomed EXCEPT ![p] = i]
  /\ Goto(p, "hook abort")
  /\ UNCHANGED <<real, poolVars, task, handles, then, at, conn, shared, lost>>

AbortEvicted(p) ==
  /\ pc[p] = "hook abort"
  /\ TaskAborted(doomed[p])
  /\ doomed' = [doomed EXCEPT ![p] = None]
  /\ IF victims[p] = {}
       THEN /\ Goto(p, then[p])
            /\ then' = [then EXCEPT ![p] = "idle"]
       ELSE /\ Goto(p, "hook")
            /\ UNCHANGED then
  /\ UNCHANGED <<real, poolVars, binding, at, victims, conn, shared, lost>>

\* prune_all, and the prune that comes with has_in_use_connection and stats.
Reap ==
  /\ setup.reaper
  /\ pc[Reaper] = "idle"
  /\ \E a \in Address : bucket[a] # <<>> /\ Lock(Reaper, a, "reap")
  /\ UNCHANGED <<real, poolVars, taskVars, then, conn, shared, lost>>

ReapClose ==
  LET a == at[Reaper]
  IN  /\ pc[Reaper] = "reap"
      /\ bucket' = [bucket EXCEPT ![a] = Kept(Reaper, a)]
      /\ real' = Closed(real, victims[Reaper])
      /\ Unlock(Reaper, "idle")
      /\ UNCHANGED <<byId, index, taskVars, conn, shared, lost>>

-----------------------------------------------------------------------------
(* acquire_connection_for_candidate *)

LookUp(c) ==
  /\ pc[c] = "idle"
  /\ Lock(c, AddressOf[c], "acquire")
  /\ UNCHANGED <<real, poolVars, taskVars, then, conn, shared, lost>>

\* acquire_with_in_use_hint: the first connection of the bucket that can.
PoolAcquire(c) ==
  LET a == AddressOf[c]
      kept == Kept(c, a)
      found == SelectInSeq(kept, CanAcquire)
  IN  /\ pc[c] = "acquire"
      /\ bucket' = [bucket EXCEPT ![a] = kept]
      /\ IF found = 0
           THEN /\ real' = Closed(real, victims[c])
                /\ Unlock(c, "miss")
                /\ UNCHANGED conn
           ELSE /\ real' = Acquired(Closed(real, victims[c]), kept[found])
                /\ conn' = [conn EXCEPT ![c] = kept[found]]
                /\ Unlock(c, "bind")
      /\ UNCHANGED <<byId, index, taskVars, shared, lost>>

\* acquire_coalesced: prune the address of an indexed connection ...
LookForShared(c) ==
  /\ pc[c] = "miss"
  /\ \E a \in CoalescesWith[AddressOf[c]] :
       (\E i \in index : real[i].address = a) /\ Lock(c, a, "prune shared")
  /\ UNCHANGED <<real, poolVars, taskVars, then, conn, shared, lost>>

PruneShared(c) ==
  LET a == at[c]
  IN  /\ pc[c] = "prune shared"
      /\ bucket' = [bucket EXCEPT ![a] = Kept(c, a)]
      /\ real' = Closed(real, victims[c])
      /\ Unlock(c, "collect")
      /\ UNCHANGED <<byId, index, taskVars, conn, shared, lost>>

\* ... collect the candidates under the lock of the index ...
CollectShared(c) ==
  /\ pc[c] = "collect"
  /\ shared' = [shared EXCEPT ![c] =
       {i \in index : real[i].address \in CoalescesWith[AddressOf[c]]
                      /\ real[i].health # "Closed"}]
  /\ index' = {i \in index : real[i].health # "Closed"}
  /\ Goto(c, "share")
  /\ UNCHANGED <<real, bucket, byId, taskVars, then, at, victims, doomed, conn, lost>>

\* ... and try them in turn, with no lock but the connection's own.
TryShared(c) ==
  /\ pc[c] = "share"
  /\ \E i \in shared[c] :
       IF CanAcquire(i)
         THEN /\ real' = Acquired(real, i)
              /\ conn' = [conn EXCEPT ![c] = i]
              /\ shared' = [shared EXCEPT ![c] = {}]
              /\ Goto(c, "bind")
         ELSE /\ shared' = [shared EXCEPT ![c] = @ \ {i}]
              /\ UNCHANGED <<real, conn, pc>>
  /\ UNCHANGED <<poolVars, taskVars, then, at, victims, doomed, lost>>

\* ConnectionBindings::acquire.  Acquired: the sender of an Http1 connection is
\* taken out.  Busy: it is out already, the allocation is given back.  Stale:
\* no binding is left, and teardown_pooled_connection goes on with the task.
Bind(c) ==
  LET i == conn[c]
      stale == binding[i] = "none" \/ (binding[i] = "here" /\ SenderClosed(i))
  IN  /\ pc[c] = "bind"
      /\ IF stale
           THEN /\ binding' = [binding EXCEPT ![i] = "none"]
                /\ then' = [then EXCEPT ![c] = "miss"]
                /\ Goto(c, "abort")
           ELSE IF binding[i] = "out"
           THEN /\ then' = [then EXCEPT ![c] = "miss"]
                /\ Goto(c, "release")
                /\ UNCHANGED binding
           ELSE /\ binding' = [binding EXCEPT ![i] =
                     IF Protocol(i) = "Http1" THEN "out" ELSE @]
                /\ Goto(c, "sending")
                /\ UNCHANGED then
      /\ UNCHANGED <<real, poolVars, task, handles, at, victims, doomed, conn, shared, lost>>

\* teardown_pooled_connection, when the binding is gone: abort the task, ...
AbortPooled(c) ==
  /\ pc[c] = "abort"
  /\ TaskAborted(conn[c])
  /\ Goto(c, "remove")
  /\ UNCHANGED <<real, poolVars, binding, then, at, victims, doomed, conn, shared, lost>>

\* ... then remove_without_hook.
RemovePooled(c) ==
  LET i == conn[c]
  IN  /\ pc[c] = "remove"
      /\ IF i \in byId
           THEN /\ Unlisted(i)
                /\ Goto(c, "unshelve")
                /\ UNCHANGED <<then, conn>>
           ELSE /\ conn' = [conn EXCEPT ![c] = None]
                /\ Goto(c, then[c])
                /\ then' = [then EXCEPT ![c] = "idle"]
                /\ UNCHANGED byId
      /\ UNCHANGED <<real, bucket, index, taskVars, at, victims, doomed, shared, lost>>

UnshelvePooled(c) ==
  /\ pc[c] = "unshelve"
  /\ Unshelved(conn[c])
  /\ conn' = [conn EXCEPT ![c] = None]
  /\ Goto(c, then[c])
  /\ then' = [then EXCEPT ![c] = "idle"]
  /\ UNCHANGED <<byId, taskVars, at, victims, doomed, shared, lost>>

\* Nothing to share, or coalescing is switched off for the request.
NothingShared(c) ==
  /\ pc[c] = "miss" \/ (pc[c] = "share" /\ shared[c] = {})
  /\ Goto(c, "dial")
  /\ UNCHANGED <<real, poolVars, taskVars, then, at, victims, doomed, conn, shared, lost>>

\* No slot, a failed dial or handshake, or the call is dropped on the way.
GiveUp(c) ==
  /\ pc[c] = "dial"
  /\ Goto(c, "idle")
  /\ UNCHANGED <<real, poolVars, taskVars, then, at, victims, doomed, conn, shared, lost>>

\* bind_fresh_connection: connected, acquired and bound, then inserted.
Dial(c) ==
  LET a == AddressOf[c]
  IN  /\ pc[c] = "dial"
      /\ Unlocked(a)
      /\ \E i \in Id :
           /\ real[i].address = None
           /\ real' = [real EXCEPT ![i] =
                [address |-> a, health |-> "Healthy", allocations |-> 1]]
           /\ binding' = [binding EXCEPT ![i] =
                IF ProtocolOf[a] = "Http1" THEN "out" ELSE "here"]
           /\ bucket' = [bucket EXCEPT ![a] = Append(@, i)]
           /\ conn' = [conn EXCEPT ![c] = i]
      /\ \E V \in PruneChoices(a) : victims' = [victims EXCEPT ![c] = V]
      /\ at' = [at EXCEPT ![c] = a]
      /\ Goto(c, "insert")
      /\ UNCHANGED <<byId, index, task, handles, then, doomed, shared, lost>>

InsertPrune(c) ==
  LET a == at[c]
  IN  /\ pc[c] = "insert"
      /\ bucket' = [bucket EXCEPT ![a] = Kept(c, a)]
      /\ real' = Closed(real, victims[c])
      /\ at' = [at EXCEPT ![c] = None]
      /\ Goto(c, "publish")
      /\ UNCHANGED <<byId, index, taskVars, then, victims, doomed, conn, shared, lost>>

Publish(c) ==
  /\ pc[c] = "publish"
  /\ byId' = byId \cup {conn[c]}
  /\ Goto(c, "index")
  /\ UNCHANGED <<real, bucket, index, taskVars, then, at, victims, doomed, conn, shared, lost>>

IndexCoalescing(c) ==
  LET i == conn[c]
  IN  /\ pc[c] = "index"
      /\ index' = IF Protocol(i) = "Http2" THEN index \cup {i} ELSE index
      /\ Unlock(c, "spawn")
      /\ UNCHANGED <<real, bucket, byId, taskVars, conn, shared, lost>>

Spawn(c) ==
  /\ pc[c] = "spawn"
  /\ task' = [task EXCEPT ![conn[c]] = "running"]
  /\ Goto(c, "attach")
  /\ UNCHANGED <<real, poolVars, binding, handles, then, at, victims, doomed, conn, shared, lost>>

\* The executor refuses and drops the task; the connection is torn down again.
SpawnFails(c) ==
  /\ pc[c] = "spawn"
  /\ task' = [task EXCEPT ![conn[c]] = "done"]
  /\ Goto(c, "evict")
  /\ UNCHANGED <<real, poolVars, binding, handles, then, at, victims, doomed, conn, shared, lost>>

Attach(c) ==
  /\ pc[c] = "attach"
  /\ handles' = handles \cup {conn[c]}
  /\ Goto(c, "sending")
  /\ UNCHANGED <<real, poolVars, binding, task, then, at, victims, doomed, conn, shared, lost>>

-----------------------------------------------------------------------------
(* send_bound_request and the ResponseLease *)

Respond(c) ==
  /\ pc[c] = "sending"
  /\ task[conn[c]] = "running"
  /\ Goto(c, "leased")
  /\ UNCHANGED <<real, poolVars, taskVars, then, at, victims, doomed, conn, shared, lost>>

\* The call is dropped at one of the awaits, or prepare_request_for_send
\* fails: into_send_parts has taken the connection out of SelectedConnection,
\* so nothing releases it.
DropInFlight(c) ==
  /\ pc[c] = "sending"
  /\ MapThenSumSet(LAMBDA i : lost[i], Id) < MaxLost
  /\ lost' = [lost EXCEPT ![conn[c]] = @ + 1]
  /\ conn' = [conn EXCEPT ![c] = None]
  /\ Goto(c, "idle")
  /\ UNCHANGED <<real, poolVars, taskVars, then, at, victims, doomed, shared>>

\* An Http1 exchange that fails, or whose body is dropped, or that does not
\* allow reuse, or that could not give back the sender or the allocation.
Evict(c) ==
  /\ \/ pc[c] \in {"sending", "leased"} /\ Protocol(conn[c]) = "Http1"
     \/ pc[c] = "evict"
  /\ binding' = [binding EXCEPT ![conn[c]] = "none"]
  /\ Goto(c, "abort")
  /\ UNCHANGED <<real, poolVars, task, handles, then, at, victims, doomed, conn, shared, lost>>

\* The response of an Http1 exchange is read to its end: release_http1 first.
ReturnSender(c) ==
  LET i == conn[c]
      back == ~SenderClosed(i) /\ binding[i] # "none"
  IN  /\ pc[c] = "leased"
      /\ Protocol(i) = "Http1"
      /\ binding' = [binding EXCEPT ![i] = IF back THEN "here" ELSE "none"]
      /\ Goto(c, IF back THEN "release" ELSE "evict")
      /\ UNCHANGED <<real, poolVars, task, handles, then, at, victims, doomed, conn, shared, lost>>

\* An Http2 stream ends; a failed one leaves the connection unhealthy.
EndStream(c) ==
  LET i == conn[c]
  IN  /\ pc[c] \in {"sending", "leased"}
      /\ Protocol(i) = "Http2"
      /\ \/ pc[c] = "leased" /\ UNCHANGED real
         \/ real' = MarkedUnhealthy(real, i)
      /\ Goto(c, "release")
      /\ UNCHANGED <<poolVars, taskVars, then, at, victims, doomed, conn, shared, lost>>

\* Wrong variant: the allocation is not given back.
ReleaseKeepingAllocation(c) ==
  /\ pc[c] = "release"
  /\ Goto(c, "prune")
  /\ UNCHANGED <<real, poolVars, taskVars, then, at, victims, doomed, conn, shared, lost>>

\* ConnectionPool::release: RealConnection::release, then the prune.
Release(c) ==
  LET i == conn[c]
  IN  /\ pc[c] = "release"
      /\ IF CanRelease(i)
           THEN /\ real' = Released(real, i)
                /\ Goto(c, "prune")
           ELSE /\ Goto(c, IF Protocol(i) = "Http1" /\ then[c] = "idle"
                             THEN "evict" ELSE "forget")
                /\ UNCHANGED real
      /\ UNCHANGED <<poolVars, taskVars, then, at, victims, doomed, conn, shared, lost>>

ReleasePrune(c) ==
  /\ pc[c] = "prune"
  /\ Lock(c, real[conn[c]].address, "released")
  /\ UNCHANGED <<real, poolVars, taskVars, then, conn, shared, lost>>

ReleaseClose(c) ==
  LET a == at[c]
  IN  /\ pc[c] = "released"
      /\ bucket' = [bucket EXCEPT ![a] = Kept(c, a)]
      /\ real' = Closed(real, victims[c])
      /\ conn' = [conn EXCEPT ![c] = None]
      /\ Unlock(c, then[c])
      /\ UNCHANGED <<byId, index, taskVars, shared, lost>>

Forget(c) ==
  /\ pc[c] = "forget"
  /\ conn' = [conn EXCEPT ![c] = None]
  /\ Goto(c, then[c])
  /\ then' = [then EXCEPT ![c] = "idle"]
  /\ UNCHANGED <<real, poolVars, taskVars, at, victims, doomed, shared, lost>>

-----------------------------------------------------------------------------
(* The spawned connection task, after hyper is done with the socket *)

TaskEnds(i) ==
  /\ task[i] = "running"
  /\ task' = [task EXCEPT ![i] = "closed"]
  /\ UNCHANGED <<real, poolVars, binding, handles, procVars, conn, shared, lost>>

TaskUnbinds(i) ==
  /\ task[i] = "closed"
  /\ task' = [task EXCEPT ![i] = "ended"]
  /\ binding' = [binding EXCEPT ![i] = "none"]
  /\ UNCHANGED <<real, poolVars, handles, procVars, conn, shared, lost>>

TaskRemoves(i) ==
  /\ task[i] = "ended"
  /\ Unlisted(i)
  /\ task' = [task EXCEPT ![i] = IF i \in byId THEN "unlisted" ELSE "removed"]
  /\ UNCHANGED <<real, bucket, index, binding, handles, procVars, conn, shared, lost>>

TaskUnshelves(i) ==
  /\ task[i] = "unlisted"
  /\ Unshelved(i)
  /\ task' = [task EXCEPT ![i] = "removed"]
  /\ UNCHANGED <<byId, binding, handles, procVars, conn, shared, lost>>

TaskCompletes(i) ==
  /\ task[i] = "removed"
  /\ task' = [task EXCEPT ![i] = "done"]
  /\ handles' = handles \ {i}
  /\ UNCHANGED <<real, poolVars, binding, procVars, conn, shared, lost>>

CallStep(c) ==
  \/ FinishRemovals(c) \/ RemoveIndexed(c) \/ NotifyEviction(c) \/ AbortEvicted(c)
  \/ LookUp(c) \/ PoolAcquire(c)
  \/ LookForShared(c) \/ PruneShared(c) \/ CollectShared(c) \/ TryShared(c)
  \/ NothingShared(c) \/ Bind(c) \/ GiveUp(c)
  \/ Dial(c) \/ InsertPrune(c) \/ Publish(c) \/ IndexCoalescing(c)
  \/ Spawn(c) \/ SpawnFails(c) \/ Attach(c)
  \/ Respond(c) \/ DropInFlight(c) \/ Evict(c) \/ ReturnSender(c) \/ EndStream(c)
  \/ Release(c) \/ ReleasePrune(c) \/ ReleaseClose(c) \/ Forget(c)
  \/ AbortPooled(c) \/ RemovePooled(c) \/ UnshelvePooled(c)

Step ==
  \/ \E c \in Call : CallStep(c)
  \/ Reap \/ ReapClose
  \/ FinishRemovals(Reaper) \/ RemoveIndexed(Reaper)
  \/ NotifyEviction(Reaper) \/ AbortEvicted(Reaper)
  \/ \E i \in Id : \/ TaskEnds(i) \/ TaskUnbinds(i) \/ TaskRemoves(i)
                   \/ TaskUnshelves(i) \/ TaskCompletes(i)

Next == Step /\ UNCHANGED setup

Spec == Init /\ [][Next]_vars

-----------------------------------------------------------------------------
(* Properties *)

TypeOK ==
  /\ \A i \in Id : /\ real[i].address \in Address \cup {None}
                   /\ real[i].health \in {"Healthy", "Unhealthy", "Closed"}
                   /\ real[i].allocations \in 0..MaxStreams
  /\ \A a \in Address : InBucket(a) \subseteq Id
  /\ byId \subseteq Id /\ index \subseteq Id /\ handles \subseteq Id
  /\ binding \in [Id -> {"none", "here", "out"}]
  /\ task \in [Id -> {"none", "running", "closed", "ended", "unlisted", "removed", "done"}]
  /\ at \in [Proc -> Address \cup {None}]
  /\ victims \in [Proc -> SUBSET Id]
  /\ doomed \in [Proc -> Id \cup {None}]
  /\ conn \in [Call -> Id \cup {None}]
  /\ shared \in [Call -> SUBSET Id]

\* Calls that have an allocation of connection i.
Users(i) == {c \in Call : conn[c] = i /\ pc[c] \notin {"prune", "released"}}

\* remove_without_hook is between its halves: the id is forgotten and the
\* connection still in its bucket, where calls find it.
Leaving(i) ==
  \/ \E c \in Call : conn[c] = i /\ pc[c] = "unshelve"
  \/ task[i] = "unlisted"

\* The allocations of an open connection are exactly the calls that use it and
\* those that were dropped in flight, through every path that ends an exchange.
\* Only while a connection is leaving may there be more: whoever gives it up
\* then finds its id forgotten and leaves the rest to the one that removes it.
AllocationsCounted ==
  \A i \in Id : real[i].health # "Closed" =>
    LET used == Cardinality(Users(i)) + lost[i]
    IN  /\ used <= real[i].allocations
        /\ ~Leaving(i) => real[i].allocations = used

\* HTTP/1.1 reuse is single-exchange, and a call that got the allocation finds
\* the sender in its place: Busy does not happen, nor does release_http1 find
\* a sender that was not checked out.
OneHttp1Exchange ==
  \A i \in Id : \A c \in Users(i) : Protocol(i) = "Http1" =>
    /\ Users(i) = {c}
    /\ pc[c] = "bind" => binding[i] # "out"
    /\ pc[c] \in {"sending", "leased"} => binding[i] # "here"

\* "in-use streams finish first": what a prune is about to close has no user,
\* but for a call that took a stream of an address other than its own, which
\* acquire_coalesced does without the lock of that address.
VictimsAreUnused ==
  \A p \in Proc : at[p] # None => \A i \in victims[p] :
    \A c \in Users(i) : AddressOf[c] # real[i].address

\* No operation of the pool, a teardown or a task is under way.
Quiet ==
  /\ \A p \in Proc : pc[p] \in {"idle", "miss", "dial", "sending", "leased"}
  /\ \A i \in Id : task[i] \notin {"closed", "ended", "unlisted", "removed"}

\* At rest the indexes of the pool agree, every pooled connection has its
\* binding and a running, registered task, and every connection that left the
\* pool has neither: eviction closes sockets.
PoolAndTasksAgree ==
  Quiet =>
    /\ byId = UNION {InBucket(a) : a \in Address}
    /\ index = {i \in byId : Protocol(i) = "Http2"}
    /\ \A i \in byId :
         real[i].health # "Closed" /\ binding[i] # "none" /\ task[i] = "running" /\ i \in handles
    /\ \A i \in Id \ byId : binding[i] = "none" /\ task[i] # "running"

\* At rest the pool keeps no unhealthy connection without users, and at most
\* max_idle_per_address idle ones.
PrunedAtRest ==
  Quiet => \A a \in Address :
    /\ \A i \in InBucket(a) : Idle(i) => real[i].health = "Healthy"
    /\ Cardinality({i \in InBucket(a) : Idle(i)}) <= MaxIdle

\* Who uses a connection is counted exactly: each stream once, an HTTP/1.1
\* connection by one call, and a bucket at rest is pruned by that count.
CountersAreExact == TypeOK /\ AllocationsCounted /\ OneHttp1Exchange /\ PrunedAtRest
=============================================================================
