-------------------------- MODULE ConnectionLimits --------------------------
(***************************************************************************)
(* Connection slots and the wait for one: ConnectionLimiter and            *)
(* ConnectionAvailability of connection/limits.rs, used the way the loop   *)
(* of acquire_connection_for_candidate in transport/service.rs uses them.  *)
(*                                                                         *)
(* The per-address semaphores and Notify objects live in maps that are     *)
(* filled on demand and reclaimed by reference count.  Every access to a   *)
(* shared object is a step of its own, so that drops on several threads    *)
(* interleave.  `pc[c]` is where call c is; a call that dialled keeps its  *)
(* identity while the connection it opened holds the ConnectionPermit.     *)
(***************************************************************************)
EXTENDS Integers, Sequences, FiniteSets

CONSTANTS
  Call, Address, AddressOf,
  CoalescesWith,  \* addresses whose HTTP/2 streams a waiter may share
  Sem, Note,      \* identities of AsyncSemaphore and Notify allocations
  None,
  MaxTotal, MaxPerAddress

ASSUME LimitsAssumption ==
  /\ AddressOf \in [Call -> Address]
  /\ CoalescesWith \in [Address -> SUBSET Address]
  /\ MaxTotal \in Nat /\ MaxPerAddress \in Nat \ {0}
  /\ None \notin Sem \cup Note
  /\ IsFiniteSet(Call)

VARIABLES
  semOf,      \* AddressSemaphoreSet: the entry of each address
  available,  \* free permits of each AsyncSemaphore
  free,       \* free permits of the global semaphore
  notifyOf,   \* ConnectionAvailability: the entry of each address
  stored,     \* Notify objects that hold the permit of a notify_one
  queue,      \* registered OwnedNotified futures of each Notify, oldest first
  pc,
  then,       \* where a call continues after a drop
  sem,        \* the Arc<AsyncSemaphore> a call holds
  wait,       \* the Arc<Notify> of a call's NotifyReclaim
  local,      \* the state of its OwnedNotified for the address
  heard,      \* notify_global was called since the call subscribed
  grabbed,    \* Arc<Notify> clones a releasing call is about to notify
  misled      \* history: blocked calls whose address had a permit given back
              \* for want of a global one, of which nobody was told

vars == <<semOf, available, free, notifyOf, stored, queue,
          pc, then, sem, wait, local, heard, grabbed, misled>>

semVars == <<semOf, available, free, sem>>

noteVars == <<notifyOf, stored, queue, wait, local, heard, grabbed, misled>>

-----------------------------------------------------------------------------
(* Reference counts *)

SemStrong(s) ==
  Cardinality({a \in Address : semOf[a] = s}) + Cardinality({c \in Call : sem[c] = s})

\* A subscription holds two references: its OwnedNotified and its reclaim.
NoteStrong(n) ==
  Cardinality({a \in Address : notifyOf[a] = n})
    + Cardinality({c \in Call : wait[c] = n})
    + Cardinality({c \in Call : wait[c] = n /\ local[c] # "dropped"})
    + Cardinality({c \in Call : n \in grabbed[c]})

Goto(c, l) == pc' = [pc EXCEPT ![c] = l]

GotoThen(c, l, m) == Goto(c, l) /\ then' = [then EXCEPT ![c] = m]

Init ==
  /\ semOf = [a \in Address |-> None]
  /\ available = [s \in Sem |-> MaxPerAddress]
  /\ free = MaxTotal
  /\ notifyOf = [a \in Address |-> None]
  /\ stored = {}
  /\ queue = [n \in Note |-> <<>>]
  /\ pc = [c \in Call |-> "idle"]
  /\ then = [c \in Call |-> "idle"]
  /\ sem = [c \in Call |-> None]
  /\ wait = [c \in Call |-> None]
  /\ local = [c \in Call |-> "dropped"]
  /\ heard = [c \in Call |-> FALSE]
  /\ grabbed = [c \in Call |-> {}]
  /\ misled = {}

-----------------------------------------------------------------------------
(* The loop of acquire_connection_for_candidate *)

\* listen: the entry of the address, inserted when there is none.
Listen(c) ==
  LET a == AddressOf[c]
      fresh == {n \in Note : NoteStrong(n) = 0}
  IN  /\ pc[c] \in {"idle", "again"}
      /\ \E n \in Note :
           /\ IF notifyOf[a] # None THEN n = notifyOf[a] ELSE n \in fresh
           /\ notifyOf' = [notifyOf EXCEPT ![a] = n]
           /\ wait' = [wait EXCEPT ![c] = n]
      /\ local' = [local EXCEPT ![c] = "init"]
      /\ Goto(c, "probe")
      /\ UNCHANGED <<semVars, stored, queue, heard, then, grabbed, misled>>

\* A pooled connection turned out to be stale: torn down, and announced.
Stale(c) ==
  /\ pc[c] = "probe"
  /\ GotoThen(c, "notify", "resolve")
  /\ UNCHANGED <<semVars, noteVars>>

\* The call is served by a pooled or coalesced connection, fails to resolve,
\* or is dropped at the await of route_plan.
LeaveEarly(c) ==
  /\ pc[c] \in {"probe", "resolve"}
  /\ GotoThen(c, "drop wait", "idle")
  /\ UNCHANGED <<semVars, noteVars>>

\* ConnectionLimiter::can_acquire.
CanAcquire(a) ==
  free > 0 /\ (semOf[a] = None \/ available[semOf[a]] > 0)

\* A DNS failure is suppressed while no slot is free: the call just waits.
SuppressDnsFailure(c) ==
  /\ pc[c] \in {"probe", "resolve"}
  /\ ~CanAcquire(AddressOf[c])
  /\ Goto(c, "blocked")
  /\ UNCHANGED <<semVars, noteVars, then>>

\* try_acquire, in AddressSemaphoreSet::semaphore_for.
SemaphoreFor(c) ==
  LET a == AddressOf[c]
      fresh == {s \in Sem : SemStrong(s) = 0}
  IN  /\ pc[c] \in {"probe", "resolve"}
      /\ \E s \in Sem :
           /\ IF semOf[a] # None THEN s = semOf[a] ELSE s \in fresh
           /\ semOf' = [semOf EXCEPT ![a] = s]
           /\ available' = IF semOf[a] = None
                             THEN [available EXCEPT ![s] = MaxPerAddress]
                             ELSE available
           /\ sem' = [sem EXCEPT ![c] = s]
      /\ Goto(c, "try address")
      /\ UNCHANGED <<free, then, noteVars>>

TryAddress(c) ==
  /\ pc[c] = "try address"
  /\ IF available[sem[c]] > 0
       THEN /\ available' = [available EXCEPT ![sem[c]] = @ - 1]
            /\ Goto(c, "try global")
            /\ UNCHANGED sem
       ELSE /\ sem' = [sem EXCEPT ![c] = None]
            /\ Goto(c, "blocked")
            /\ UNCHANGED available
  /\ UNCHANGED <<semOf, free, then, noteVars>>

\* Without a global permit the address permit is dropped, notifying nobody.
TryGlobal(c) ==
  /\ pc[c] = "try global"
  /\ IF free > 0
       THEN /\ free' = free - 1
            /\ Goto(c, "dial")
            /\ UNCHANGED then
       ELSE /\ GotoThen(c, "drop permit", "blocked")
            /\ UNCHANGED free
  /\ UNCHANGED <<semOf, available, sem, noteVars>>

\* bind_fresh_connection ends: the connection owns the permit, the wait that
\* was in scope is dropped.
DialSucceeds(c) ==
  /\ pc[c] = "dial"
  /\ GotoThen(c, "drop wait", "open")
  /\ UNCHANGED <<semVars, noteVars>>

\* The dial fails or the call is dropped: first the permit goes, then the wait.
DialFails(c) ==
  /\ pc[c] = "dial"
  /\ GotoThen(c, "drop permit", "drop global")
  /\ UNCHANGED <<semVars, noteVars>>

\* The connection is closed and the last clone of its permit dropped.
Close(c) ==
  /\ pc[c] = "open"
  /\ GotoThen(c, "drop permit", "drop global")
  /\ UNCHANGED <<semVars, noteVars>>

-----------------------------------------------------------------------------
(* Drop of AddressSemaphorePermit *)

BlockedBeside(c) ==
  {d \in Call \ {c} : AddressOf[d] = AddressOf[c] /\ pc[d] \in {"blocked", "waiting"}}

DropPermit(c) ==
  /\ pc[c] = "drop permit"
  /\ available' = [available EXCEPT ![sem[c]] = @ + 1]
  /\ Goto(c, "check semaphore")
  /\ misled' = misled \cup (IF then[c] = "blocked" THEN BlockedBeside(c) ELSE {})
  /\ UNCHANGED <<semOf, free, sem, then, notifyOf, stored, queue, wait, local, heard,
                 grabbed>>

\* Wrong variant: a call between semaphore_for and try_acquire is overlooked.
UnusedByPermits(c) == available[sem[c]] = MaxPerAddress

Unused(c) == available[sem[c]] = MaxPerAddress /\ SemStrong(sem[c]) = 2

\* The check without the lock.
CheckSemaphore(c) ==
  /\ pc[c] = "check semaphore"
  /\ Goto(c, IF Unused(c) THEN "reclaim semaphore" ELSE "drop semaphore")
  /\ UNCHANGED <<then, semVars, noteVars>>

\* The check under the lock of the shard, and the removal.
ReclaimSemaphore(c) ==
  LET a == AddressOf[c]
  IN  /\ pc[c] = "reclaim semaphore"
      /\ semOf' = IF semOf[a] = sem[c] /\ Unused(c)
                    THEN [semOf EXCEPT ![a] = None] ELSE semOf
      /\ Goto(c, "drop semaphore")
      /\ UNCHANGED <<available, free, sem, then, noteVars>>

DropSemaphore(c) ==
  /\ pc[c] = "drop semaphore"
  /\ sem' = [sem EXCEPT ![c] = None]
  /\ GotoThen(c, then[c], "idle")
  /\ UNCHANGED <<semOf, available, free, noteVars>>

-----------------------------------------------------------------------------
(* Drop of ConnectionPermitInner, after the address permit *)

DropGlobal(c) ==
  /\ pc[c] = "drop global"
  /\ free' = free + 1
  /\ GotoThen(c, "notify", "notify global")
  /\ UNCHANGED <<semOf, available, sem, noteVars>>

\* Clones of the Arcs of the entries there are, to be notified one by one.
Grab(c, notes, l) ==
  /\ grabbed' = [grabbed EXCEPT ![c] = notes \ {None}]
  /\ IF grabbed'[c] = {} THEN GotoThen(c, l, "idle") ELSE GotoThen(c, "notify one", l)

\* existing_notify: the entry of the address.
ExistingNotify(c) ==
  /\ pc[c] = "notify"
  /\ Grab(c, {notifyOf[AddressOf[c]]}, then[c])
  /\ UNCHANGED <<semVars, notifyOf, stored, queue, wait, local, heard, misled>>

\* tokio::sync::Notify::notify_one: the oldest registered waiter, or a permit.
Notified(n) ==
  IF queue[n] = <<>>
    THEN /\ stored' = stored \cup {n}
         /\ UNCHANGED <<queue, local>>
    ELSE /\ queue' = [queue EXCEPT ![n] = Tail(@)]
         /\ local' = [local EXCEPT ![Head(queue[n])] = "notified"]
         /\ UNCHANGED stored

NotifyOne(c) ==
  /\ pc[c] = "notify one"
  /\ \E n \in grabbed[c] :
       /\ Notified(n)
       /\ Grab(c, grabbed[c] \ {n}, then[c])
  /\ UNCHANGED <<semVars, notifyOf, wait, heard, misled>>

\* Wrong variant: a freed slot is announced on its own address only.
NotifyNobodyElse(c) ==
  /\ pc[c] = "notify global"
  /\ IF wait[c] # None THEN GotoThen(c, "drop wait", "idle")
                       ELSE Goto(c, "idle") /\ UNCHANGED then
  /\ UNCHANGED <<semVars, noteVars>>

\* notify_waiters: every subscription of now, registered or not yet polled.
NotifyGlobal(c) ==
  /\ pc[c] = "notify global"
  /\ heard' = [d \in Call |-> heard[d] \/ local[d] # "dropped"]
  /\ IF wait[c] # None THEN GotoThen(c, "drop wait", "idle")
                       ELSE Goto(c, "idle") /\ UNCHANGED then
  /\ UNCHANGED <<semVars, notifyOf, stored, queue, wait, local, grabbed, misled>>

\* An exchange on the open connection ends and the connection stays:
\* release_acquired_connection, notify or notify_http2.
ExchangeEnds(c) ==
  /\ pc[c] = "open"
  /\ GotoThen(c, "notify", "notify coalesced")
  /\ UNCHANGED <<semVars, noteVars>>

NotifyCoalesced(c) ==
  LET a == AddressOf[c]
  IN  /\ pc[c] = "notify coalesced"
      /\ Grab(c, {notifyOf[b] : b \in {d \in Address \ {a} : a \in CoalescesWith[d]}}, "open")
      /\ UNCHANGED <<semVars, notifyOf, stored, queue, wait, local, heard, misled>>

-----------------------------------------------------------------------------
(* ConnectionWait: poll and drop *)

\* poll of the local future consumes a stored permit or registers; then the
\* global one is ready when notify_waiters was called since listen.
Poll(c) ==
  LET n == wait[c]
      takes == local[c] = "notified" \/ (local[c] = "init" /\ n \in stored)
  IN  /\ pc[c] \in {"blocked", "waiting"}
      /\ pc[c] = "waiting" => local[c] = "notified" \/ heard[c]
      /\ stored' = IF local[c] = "init" THEN stored \ {n} ELSE stored
      /\ local' = [local EXCEPT ![c] =
                     IF takes THEN "done" ELSE "queued"]
      /\ queue' = IF ~takes /\ local[c] = "init"
                    THEN [queue EXCEPT ![n] = Append(@, c)] ELSE queue
      /\ IF takes \/ heard[c] THEN GotoThen(c, "drop wait", "again")
                              ELSE Goto(c, "waiting") /\ UNCHANGED then
      /\ UNCHANGED <<semVars, notifyOf, wait, heard, grabbed, misled>>

\* The call is dropped while it waits.
Cancel(c) ==
  /\ pc[c] = "waiting"
  /\ GotoThen(c, "drop wait", "idle")
  /\ UNCHANGED <<semVars, noteVars>>

\* The waiter leaves the list it may be registered in.
Without(q, c) ==
  IF \E i \in DOMAIN q : q[i] = c
    THEN LET at == CHOOSE i \in DOMAIN q : q[i] = c
         IN  SubSeq(q, 1, at - 1) \o SubSeq(q, at + 1, Len(q))
    ELSE q

\* The OwnedNotified goes first; one that was notified and not polled passes
\* its notification on.
DropNotified(c) ==
  LET n == wait[c]
  IN  /\ pc[c] = "drop wait"
      /\ CASE local[c] = "notified" ->
                IF queue[n] = <<>>
                  THEN /\ stored' = stored \cup {n}
                       /\ local' = [local EXCEPT ![c] = "dropped"]
                       /\ UNCHANGED queue
                  ELSE /\ queue' = [queue EXCEPT ![n] = Tail(@)]
                       /\ local' = [local EXCEPT ![c] = "dropped",
                                                 ![Head(queue[n])] = "notified"]
                       /\ UNCHANGED stored
           [] OTHER ->
                /\ queue' = [queue EXCEPT ![n] = Without(@, c)]
                /\ local' = [local EXCEPT ![c] = "dropped"]
                /\ UNCHANGED stored
      /\ heard' = [heard EXCEPT ![c] = FALSE]
      /\ misled' = misled \ {c}
      /\ Goto(c, "check notify")
      /\ UNCHANGED <<semVars, notifyOf, wait, then, grabbed>>

\* NotifyReclaim::drop, the check without the lock.
CheckNotify(c) ==
  /\ pc[c] = "check notify"
  /\ Goto(c, IF NoteStrong(wait[c]) = 2 THEN "reclaim notify" ELSE "drop notify")
  /\ UNCHANGED <<then, semVars, noteVars>>

ReclaimNotify(c) ==
  LET a == AddressOf[c]
  IN  /\ pc[c] = "reclaim notify"
      /\ notifyOf' = IF notifyOf[a] = wait[c] /\ NoteStrong(wait[c]) = 2
                       THEN [notifyOf EXCEPT ![a] = None] ELSE notifyOf
      /\ Goto(c, "drop notify")
      /\ UNCHANGED <<semVars, stored, queue, wait, local, heard, then, grabbed, misled>>

DropNotify(c) ==
  /\ pc[c] = "drop notify"
  /\ wait' = [wait EXCEPT ![c] = None]
  /\ stored' = IF NoteStrong(wait[c]) = 1 THEN stored \ {wait[c]} ELSE stored
  /\ GotoThen(c, then[c], "idle")
  /\ UNCHANGED <<semVars, notifyOf, queue, local, heard, grabbed, misled>>

Step(c) ==
  \/ SemaphoreFor(c) \/ TryAddress(c) \/ TryGlobal(c)
  \/ DropPermit(c) \/ CheckSemaphore(c) \/ ReclaimSemaphore(c) \/ DropSemaphore(c)
  \/ DropGlobal(c) \/ ExistingNotify(c) \/ NotifyOne(c) \/ NotifyGlobal(c)
  \/ NotifyCoalesced(c) \/ Poll(c)
  \/ DropNotified(c) \/ CheckNotify(c) \/ ReclaimNotify(c) \/ DropNotify(c)

Next ==
  \E c \in Call :
    \/ Step(c) \/ Listen(c) \/ Stale(c) \/ LeaveEarly(c) \/ SuppressDnsFailure(c)
    \/ DialSucceeds(c) \/ DialFails(c) \/ Close(c) \/ ExchangeEnds(c) \/ Cancel(c)

Spec == Init /\ [][Next]_vars

-----------------------------------------------------------------------------
(* Properties *)

Labels ==
  {"idle", "again", "probe", "resolve", "try address", "try global", "dial", "open",
   "blocked", "waiting", "drop permit", "check semaphore", "reclaim semaphore",
   "drop semaphore", "drop global", "notify", "notify one", "notify global",
   "notify coalesced", "drop wait", "check notify", "reclaim notify", "drop notify"}

TypeOK ==
  /\ semOf \in [Address -> Sem \cup {None}]
  /\ available \in [Sem -> 0..MaxPerAddress]
  /\ free \in 0..MaxTotal
  /\ notifyOf \in [Address -> Note \cup {None}]
  /\ stored \in SUBSET Note
  /\ pc \in [Call -> Labels]
  /\ then \in [Call -> Labels]
  /\ sem \in [Call -> Sem \cup {None}]
  /\ wait \in [Call -> Note \cup {None}]
  /\ local \in [Call -> {"init", "queued", "notified", "done", "dropped"}]
  /\ heard \in [Call -> BOOLEAN]
  /\ grabbed \in [Call -> SUBSET Note]
  /\ misled \in SUBSET Call

\* Calls with a permit of the address semaphore.
Holding(a) ==
  {c \in Call :
     /\ AddressOf[c] = a /\ sem[c] # None
     /\ pc[c] \notin {"try address", "check semaphore", "reclaim semaphore", "drop semaphore"}}

\* However semaphores are created, reclaimed and created again, an address
\* never has more permits out than its limit.
AddressLimitHolds == \A a \in Address : Cardinality(Holding(a)) <= MaxPerAddress

\* The calls that dial or have a connection open never exceed the total limit.
TotalLimitHolds ==
  Cardinality({c \in Call : pc[c] \in {"dial", "open"}}) <= MaxTotal

\* A subscribed call is reached by notify: its Notify is the entry of its
\* address, whatever other waiters drop.
ListenersAreReachable ==
  \A c \in Call : wait[c] # None /\ local[c] # "dropped" =>
    notifyOf[AddressOf[c]] = wait[c]

Asleep(c) == pc[c] = "waiting" /\ local[c] = "queued" /\ ~heard[c]

\* Nobody is in the middle of anything: every call is asleep, open or gone.
Quiet == \A c \in Call : pc[c] \in {"idle", "open"} \/ Asleep(c)

\* A call does not sleep beside a slot it could take: whenever nothing is in
\* progress, can_acquire is false for every sleeping call.  The exception is a
\* call that was blocked when another one gave back a permit of their address
\* that it could not use for want of a global one: try_acquire tells nobody.
StrandedOnlyByBounce ==
  Quiet => \A c \in Call \ misled : Asleep(c) => ~CanAcquire(AddressOf[c])

\* No counter leaves its range, no limit is exceeded, and nobody waits where the
\* next release cannot reach them.
LimitsHold == TypeOK /\ AddressLimitHolds /\ TotalLimitHolds /\ ListenersAreReachable
=============================================================================
