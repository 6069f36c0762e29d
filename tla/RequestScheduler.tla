-------------------------- MODULE RequestScheduler --------------------------
(***************************************************************************)
(* The request admission scheduler of connection/scheduler.rs: a client    *)
(* wide cap and a per-address cap on running requests, a bounded queue of  *)
(* waiters ordered by RFC 9218 urgency with aging, and slots that are      *)
(* handed over when a permit or a promoted waiter is dropped.              *)
(*                                                                         *)
(* `global` is the GlobalState behind the mutex; every critical section is *)
(* one action.  `guard[r]` is the slab key held by the WaiterGuard of the  *)
(* acquire future of request r, `permits` the requests that hold a permit. *)
(* A wake that follows the unlock is part of the action that decides it.   *)
(***************************************************************************)
EXTENDS Integers, Sequences, FiniteSets

CONSTANTS
  Request,        \* acquire futures; one identity may acquire again and again
  Address,
  AddressOf,      \* the address of each request
  UrgencyOf,      \* the raw urgency (a u8) of each request
  Key,            \* slab keys
  Waker,          \* the tasks that may poll one future
  Poller,         \* tasks that wait in poll_ready
  NoKey, NoWaker, Vacant,
  MaxTotal, MaxPerAddress, MaxQueued,
  PromotionsBeforeAging,   \* HIGH_URGENCY_PROMOTIONS_BEFORE_AGING
  CounterMax,     \* where high_urgency_promotions saturates (u32::MAX)
  MaxSeq          \* bound on next_seq

\* What the code guarantees of its parameters: limits are usize, an address
\* and an urgency per request, sentinels that are not ordinary values.
ASSUME SchedulerAssumption ==
  /\ AddressOf \in [Request -> Address]
  /\ UrgencyOf \in [Request -> 0..255]
  /\ MaxTotal \in Nat /\ MaxPerAddress \in Nat /\ MaxQueued \in Nat
  /\ PromotionsBeforeAging \in Nat /\ CounterMax \in Nat /\ MaxSeq \in Nat
  /\ PromotionsBeforeAging <= CounterMax
  /\ NoKey \notin Key
  /\ IsFiniteSet(Request) /\ IsFiniteSet(Key)

HighUrgencyMax == 2

FromUrgency(u) == IF u > 7 THEN 7 ELSE u

Priority(r) == FromUrgency(UrgencyOf[r])

WakerOf == (Request \X Waker) \cup {NoWaker}

Waiter == [waker : WakerOf, address : Address, urgency : 0..7, seq : Nat,
           aged : BOOLEAN, admitted : BOOLEAN]

\* aged abstracts enqueued_at.elapsed() >= AGING_WAIT.
ASSUME VacantAssumption == Vacant \notin Waiter

\* Neither the absence of a waker nor a task in poll_ready is a task that polls
\* an acquire future.
ASSUME WakerAssumption ==
  /\ NoWaker \notin Request \X Waker
  /\ Poller \cap (Request \X Waker) = {}

GlobalState ==
  [global_running : Nat, queued : Nat, next_seq : Nat,
   high_urgency_promotions : Nat,
   waiters : [Key -> Waiter \cup {Vacant}],
   ordered : SUBSET ((0..7) \X Nat \X Key),
   fifo : Seq(Key),
   address_running : [Address -> Nat],
   ready_waiters : Seq(Poller)]

VARIABLES
  global,     \* the GlobalState behind the mutex
  guard,      \* the slab key each acquire future's WaiterGuard holds
  permits,    \* requests that hold a RequestAdmissionPermit
  polledBy,   \* the task that last polled each acquire future
  woken,      \* wakes delivered to a task and not yet consumed by a poll
  rejected    \* requests whose last acquire returned a capacity error

vars == <<global, guard, permits, polledBy, woken, rejected>>

-----------------------------------------------------------------------------
(* The methods of GlobalState, each from the state before to the one after *)

SaturatingSub1(n) == IF n > 0 THEN n - 1 ELSE 0

RemoveFromFifo(fifo, k) ==
  IF \E i \in 1..Len(fifo) : fifo[i] = k
    THEN LET i == CHOOSE i \in 1..Len(fifo) :
                    fifo[i] = k /\ \A j \in 1..(i - 1) : fifo[j] # k
         IN  [j \in 1..(Len(fifo) - 1) |-> IF j < i THEN fifo[j] ELSE fifo[j + 1]]
    ELSE fifo

EnqueueWaiter(g, urgency, seq, k) ==
  [g EXCEPT !.ordered = @ \cup {<<urgency, seq, k>>},
            !.fifo = Append(@, k),
            !.queued = @ + 1]

DequeueWaiter(g, urgency, seq, k) ==
  [g EXCEPT !.ordered = @ \ {<<urgency, seq, k>>},
            !.fifo = RemoveFromFifo(@, k),
            !.queued = SaturatingSub1(@)]

BumpAddressRunning(g, a) ==
  [g EXCEPT !.address_running[a] = @ + 1, !.global_running = @ + 1]

\* An entry that reaches zero leaves the map: 0 stands for no entry.
DropAddressRunning(g, a) ==
  [g EXCEPT !.address_running[a] = SaturatingSub1(@),
            !.global_running = SaturatingSub1(@)]

\* Wrong variant: one request too many.
HasGlobalCapacityOffByOne(g) == g.global_running <= MaxTotal

HasGlobalCapacity(g) == g.global_running < MaxTotal

AddressHasCapacity(g, a) == g.address_running[a] < MaxPerAddress

WaiterIsEligible(g, k) ==
  g.waiters[k] # Vacant /\ AddressHasCapacity(g, g.waiters[k].address)

\* Wrong variant: a waiter stuck on its own address blocks the others.
AnyWaiterBlocks(g, urgency) == \E e \in g.ordered : e[1] <= urgency

QueueBlocksPriority(g, urgency) ==
  \E e \in g.ordered : e[1] <= urgency /\ WaiterIsEligible(g, e[3])

\* The BTreeSet's order; two entries never share a seq.
Precedes(e, f) == e[1] < f[1] \/ (e[1] = f[1] /\ e[2] < f[2])

EligibleOrdered(g) == {e \in g.ordered : WaiterIsEligible(g, e[3])}

EligibleFifo(g) == {i \in 1..Len(g.fifo) : WaiterIsEligible(g, g.fifo[i])}

BestEntry(g) ==
  CHOOSE e \in EligibleOrdered(g) :
    \A f \in EligibleOrdered(g) : ~Precedes(f, e)

OldestIndex(g) ==
  CHOOSE i \in EligibleFifo(g) : \A j \in EligibleFifo(g) : i <= j

AgedByCount(g, oldest, best) ==
  /\ g.high_urgency_promotions >= PromotionsBeforeAging
  /\ g.waiters[oldest].urgency > g.waiters[best].urgency

SelectWaiter(g) ==
  LET best == BestEntry(g)[3]
      oldest == g.fifo[OldestIndex(g)]
  IN  IF EligibleOrdered(g) = {} \/ EligibleFifo(g) = {} THEN NoKey
      ELSE IF /\ oldest # best
              /\ g.waiters[oldest].aged \/ AgedByCount(g, oldest, best)
             THEN oldest
             ELSE best

\* The waiter try_promote admits, NoKey when it returns without a promotion.
Promoted(g) == IF HasGlobalCapacity(g) THEN SelectWaiter(g) ELSE NoKey

Promote(g, k) ==
  LET w == g.waiters[k]
      dequeued == DequeueWaiter(g, w.urgency, w.seq, k)
      admitted ==
        [dequeued EXCEPT
           !.waiters[k] = [w EXCEPT !.admitted = TRUE, !.waker = NoWaker],
           !.high_urgency_promotions =
             IF w.urgency > HighUrgencyMax THEN 0
             ELSE IF @ < CounterMax THEN @ + 1 ELSE @]
  IN  BumpAddressRunning(admitted, w.address)

TryPromote(g) == IF Promoted(g) = NoKey THEN g ELSE Promote(g, Promoted(g))

\* The task woken by try_promote: the taken waker, when there is one.
PromotedWakes(g) ==
  IF Promoted(g) = NoKey THEN {} ELSE {g.waiters[Promoted(g)].waker} \ {NoWaker}

\* wake_ready_waiters, which looks at the capacity before try_promote does.
ReadyWoken(g) ==
  IF HasGlobalCapacity(g) /\ g.ready_waiters # <<>>
    THEN {Head(g.ready_waiters)} ELSE {}

WakeReadyWaiters(g) ==
  IF ReadyWoken(g) = {} THEN g ELSE [g EXCEPT !.ready_waiters = Tail(@)]

\* Wrong variant: the slot is given back and nobody is promoted.
GiveBackSilently(g, a) == WakeReadyWaiters(DropAddressRunning(g, a))

\* What release and the cancellation of an admitted waiter have in common:
\* the slot is given back, one ready waiter is woken, one waiter promoted.
GiveBack(g, a) == TryPromote(WakeReadyWaiters(DropAddressRunning(g, a)))

GiveBackWakes(g, a) ==
  LET dropped == DropAddressRunning(g, a)
  IN  ReadyWoken(dropped) \cup PromotedWakes(WakeReadyWaiters(dropped))

-----------------------------------------------------------------------------
Init ==
  /\ global = [global_running |-> 0, queued |-> 0, next_seq |-> 0,
               high_urgency_promotions |-> 0,
               waiters |-> [k \in Key |-> Vacant],
               ordered |-> {}, fifo |-> <<>>,
               address_running |-> [a \in Address |-> 0],
               ready_waiters |-> <<>>]
  /\ guard = [r \in Request |-> NoKey]
  /\ permits = {}
  /\ polledBy \in [Request -> Waker]
  /\ woken = {}
  /\ rejected = {}

Idle(r) == guard[r] = NoKey /\ r \notin permits

CanRun(r) ==
  HasGlobalCapacity(global) /\ AddressHasCapacity(global, AddressOf[r])

AdmitsNow(r) == CanRun(r) /\ ~QueueBlocksPriority(global, Priority(r))

\* First poll of acquire: a slot is free and no eligible waiter goes first.
AcquireNow(r) ==
  /\ Idle(r)
  /\ AdmitsNow(r)
  /\ global' = BumpAddressRunning(global, AddressOf[r])
  /\ permits' = permits \cup {r}
  /\ rejected' = rejected \ {r}
  /\ UNCHANGED <<guard, polledBy, woken>>

\* First poll of acquire with the queue at its limit: a capacity error.
RejectCapacity(r) ==
  /\ Idle(r)
  /\ ~AdmitsNow(r)
  /\ global.queued >= MaxQueued
  /\ rejected' = rejected \cup {r}
  /\ UNCHANGED <<global, guard, permits, polledBy, woken>>

\* First poll of acquire that queues; try_promote may admit the new waiter
\* itself, which then takes its permit in the same poll.
Enqueued(r, w, k) ==
  EnqueueWaiter(
    [global EXCEPT
       !.next_seq = @ + 1,
       !.waiters[k] = [waker |-> <<r, w>>, address |-> AddressOf[r],
                       urgency |-> Priority(r), seq |-> global.next_seq,
                       aged |-> FALSE, admitted |-> FALSE]],
    Priority(r), global.next_seq, k)

Enqueue(r, w, k) ==
  LET g == Enqueued(r, w, k)
      promoted == TryPromote(g)
  IN  /\ Idle(r)
      /\ ~AdmitsNow(r)
      /\ global.queued < MaxQueued
      /\ global.next_seq < MaxSeq
      /\ global.waiters[k] = Vacant
      /\ polledBy' = [polledBy EXCEPT ![r] = w]
      /\ rejected' = rejected \ {r}
      /\ IF promoted.waiters[k].admitted
           THEN /\ global' = [promoted EXCEPT !.waiters[k] = Vacant]
                /\ permits' = permits \cup {r}
                /\ UNCHANGED <<guard, woken>>
           ELSE /\ global' = promoted
                /\ guard' = [guard EXCEPT ![r] = k]
                /\ woken' = woken \cup PromotedWakes(g)
                /\ UNCHANGED permits

\* Wrong variant: the stored waker stays the one of the first poll.
RepollKeepingWaker(r, w) ==
  /\ guard[r] # NoKey
  /\ global.waiters[guard[r]] # Vacant
  /\ ~global.waiters[guard[r]].admitted
  /\ polledBy' = [polledBy EXCEPT ![r] = w]
  /\ woken' = woken \ {<<r, w>>}
  /\ UNCHANGED <<global, guard, permits, rejected>>

\* A later poll, by task w, finds the waiter still queued: the waker of the
\* polling task replaces the stored one.
Repoll(r, w) ==
  /\ guard[r] # NoKey
  /\ global.waiters[guard[r]] # Vacant
  /\ ~global.waiters[guard[r]].admitted
  /\ global' = [global EXCEPT !.waiters[guard[r]].waker = <<r, w>>]
  /\ polledBy' = [polledBy EXCEPT ![r] = w]
  /\ woken' = woken \ {<<r, w>>}
  /\ UNCHANGED <<guard, permits, rejected>>

\* Wrong variant: the guard keeps the key of a slot that is vacant now.
CollectKeepingKey(r) ==
  /\ guard[r] # NoKey
  /\ global.waiters[guard[r]] # Vacant
  /\ global.waiters[guard[r]].admitted
  /\ global' = [global EXCEPT !.waiters[guard[r]] = Vacant]
  /\ permits' = permits \cup {r}
  /\ woken' = woken \ ({r} \X Waker)
  /\ UNCHANGED <<guard, polledBy, rejected>>

\* A later poll finds the waiter admitted and takes the permit.
Collect(r) ==
  /\ guard[r] # NoKey
  /\ global.waiters[guard[r]] # Vacant
  /\ global.waiters[guard[r]].admitted
  /\ global' = [global EXCEPT !.waiters[guard[r]] = Vacant]
  /\ guard' = [guard EXCEPT ![r] = NoKey]
  /\ permits' = permits \cup {r}
  /\ woken' = woken \ ({r} \X Waker)
  /\ UNCHANGED <<polledBy, rejected>>

\* Drop of a RequestAdmissionPermit.
Release(r) ==
  /\ r \in permits
  /\ permits' = permits \ {r}
  /\ global' = GiveBack(global, AddressOf[r])
  /\ woken' = woken \cup GiveBackWakes(global, AddressOf[r])
  /\ UNCHANGED <<guard, polledBy, rejected>>

\* Wrong variant: the slot of a promoted waiter is not given back.
CancelAdmittedLeaking(r) ==
  /\ guard[r] # NoKey
  /\ global.waiters[guard[r]] # Vacant
  /\ global.waiters[guard[r]].admitted
  /\ global' = [global EXCEPT !.waiters[guard[r]] = Vacant]
  /\ woken' = woken \ ({r} \X Waker)
  /\ guard' = [guard EXCEPT ![r] = NoKey]
  /\ UNCHANGED <<permits, polledBy, rejected>>

\* Drop of an acquire future whose waiter was already promoted.
CancelAdmitted(r) ==
  LET k == guard[r]
      a == global.waiters[k].address
      removed == [global EXCEPT !.waiters[k] = Vacant]
  IN  /\ k # NoKey
      /\ global.waiters[k] # Vacant
      /\ global.waiters[k].admitted
      /\ global' = GiveBack(removed, a)
      /\ woken' = (woken \ ({r} \X Waker)) \cup GiveBackWakes(removed, a)
      /\ guard' = [guard EXCEPT ![r] = NoKey]
      /\ UNCHANGED <<permits, polledBy, rejected>>

\* Drop of an acquire future that is still queued.
CancelQueued(r) ==
  LET k == guard[r]
      w == global.waiters[k]
  IN  /\ k # NoKey
      /\ w # Vacant
      /\ ~w.admitted
      /\ global' = DequeueWaiter([global EXCEPT !.waiters[k] = Vacant],
                                 w.urgency, w.seq, k)
      /\ guard' = [guard EXCEPT ![r] = NoKey]
      /\ woken' = woken \ ({r} \X Waker)
      /\ UNCHANGED <<permits, polledBy, rejected>>

\* poll_ready without capacity registers the task unless it already waits;
\* with capacity it returns and changes nothing but the consumed wake.
PollReady(p) ==
  /\ woken' = woken \ {p}
  /\ IF HasGlobalCapacity(global) \/ \E i \in 1..Len(global.ready_waiters) :
                                        global.ready_waiters[i] = p
       THEN UNCHANGED global
       ELSE global' = [global EXCEPT !.ready_waiters = Append(@, p)]
  /\ UNCHANGED <<guard, permits, polledBy, rejected>>

\* Time passes: waiters reach AGING_WAIT in the order they were queued.
Age(i) ==
  /\ i \in 1..Len(global.fifo)
  /\ ~global.waiters[global.fifo[i]].aged
  /\ \A j \in 1..(i - 1) : global.waiters[global.fifo[j]].aged
  /\ global' = [global EXCEPT !.waiters[global.fifo[i]].aged = TRUE]
  /\ UNCHANGED <<guard, permits, polledBy, woken, rejected>>

Next ==
  \/ \E r \in Request :
       \/ AcquireNow(r)
       \/ RejectCapacity(r)
       \/ \E w \in Waker, k \in Key : Enqueue(r, w, k)
       \/ \E w \in Waker : Repoll(r, w)
       \/ Collect(r)
       \/ Release(r)
       \/ CancelAdmitted(r)
       \/ CancelQueued(r)
  \/ \E p \in Poller : PollReady(p)
  \/ \E i \in 1..Len(global.fifo) : Age(i)

Spec == Init /\ [][Next]_vars

-----------------------------------------------------------------------------
(* Properties *)

AdmittedKeys(g) ==
  {k \in Key : g.waiters[k] # Vacant /\ g.waiters[k].admitted}

QueuedKeys(g) ==
  {k \in Key : g.waiters[k] # Vacant /\ ~g.waiters[k].admitted}

TypeOK ==
  /\ global \in GlobalState
  /\ guard \in [Request -> Key \cup {NoKey}]
  /\ permits \in SUBSET Request
  /\ polledBy \in [Request -> Waker]
  /\ woken \in SUBSET ((Request \X Waker) \cup Poller)
  /\ rejected \in SUBSET Request

PermitsAt(P, a) == {r \in P : AddressOf[r] = a}

AdmittedAt(g, a) == {k \in AdmittedKeys(g) : g.waiters[k].address = a}

Counted(g, P) ==
  /\ g.global_running = Cardinality(P) + Cardinality(AdmittedKeys(g))
  /\ \A a \in Address :
       g.address_running[a] =
         Cardinality(PermitsAt(P, a)) + Cardinality(AdmittedAt(g, a))
  /\ g.queued = Cardinality(QueuedKeys(g))

\* The counters the scheduler decides on count exactly the permits that are
\* held and the promoted waiters that have not been polled yet, in total and
\* per address, whatever was cancelled or dropped in between.
Accounting == Counted(global, permits)

\* The limits given to RequestScheduler::new are never exceeded.
WithinLimits ==
  /\ Cardinality(permits) + Cardinality(AdmittedKeys(global)) <= MaxTotal
  /\ \A a \in Address :
       Cardinality(PermitsAt(permits, a)) + Cardinality(AdmittedAt(global, a))
         <= MaxPerAddress
  /\ Cardinality(QueuedKeys(global)) <= MaxQueued

Indexed(g) ==
  /\ g.ordered = {<<g.waiters[k].urgency, g.waiters[k].seq, k>> :
                    k \in QueuedKeys(g)}
  /\ {g.fifo[i] : i \in 1..Len(g.fifo)} = QueuedKeys(g)
  /\ \A i, j \in 1..Len(g.fifo) : i < j =>
       g.waiters[g.fifo[i]].seq < g.waiters[g.fifo[j]].seq
  /\ \A k \in QueuedKeys(g) : g.waiters[k].seq < g.next_seq

\* `ordered` and `fifo` index the same waiters, the ones that are queued,
\* each once, and `fifo` lists them in the order of their seq.
QueueIndexesAgree == Indexed(global)

Owned(g, held, P) ==
  /\ \A r \in Request : held[r] # NoKey =>
       /\ g.waiters[held[r]] # Vacant
       /\ g.waiters[held[r]].address = AddressOf[r]
       /\ r \notin P
       /\ \A q \in Request : held[q] = held[r] => q = r
  /\ \A k \in Key : g.waiters[k] # Vacant => \E r \in Request : held[r] = k

\* The guard of a pending acquire future holds the key of its own waiter and
\* of no other, every waiter has a guard that will remove it, and a future
\* that returned its permit holds no key: slab keys are reused, so a stale
\* key would cancel a stranger.
GuardsOwnWaiters == Owned(global, guard, permits)

\* The slab, its two indexes and the guards describe one and the same queue,
\* through any sequence of enqueues, promotions, collections and drops.
Consistent == TypeOK /\ QueueIndexesAgree /\ GuardsOwnWaiters

Conserving(g) ==
  HasGlobalCapacity(g) => \A k \in QueuedKeys(g) : ~WaiterIsEligible(g, k)

\* No slot stays free while a waiter could take it: release and cancellation
\* hand the slot on before they unlock.
WorkConserving == Conserving(global)

\* The task that polled a waiting acquire future last is the one that is
\* woken when its waiter is promoted.
NoLostWakeup ==
  \A r \in Request : guard[r] # NoKey =>
    IF global.waiters[guard[r]].admitted
      THEN <<r, polledBy[r]>> \in woken
      ELSE global.waiters[guard[r]].waker = <<r, polledBy[r]>>

\* "A waiter stuck on its per-address cap must not cause a different host with
\* spare capacity to take the queue-full Capacity path": a request is refused
\* only when it has no slot of its own to run in.
NoSpuriousCapacity ==
  [][\A r \in rejected' \ rejected : ~CanRun(r)]_vars

\* The request whose guard holds the key.
Owner(held, k) == CHOOSE r \in Request : held[r] = k

\* What a state of the scheduler says to its callers: the requests in line, the
\* ones among them that have aged, and the ones that were promoted.
Line(g, held) == [i \in 1..Len(g.fifo) |-> Owner(held, g.fifo[i])]

AgedIn(g, held) ==
  {Owner(held, k) : k \in {j \in QueuedKeys(g) : g.waiters[j].aged}}

PromotedIn(g, held) == {Owner(held, k) : k \in AdmittedKeys(g)}
=============================================================================
