----------------------- MODULE RequestSchedulerProofs -----------------------
(***************************************************************************)
(* RequestScheduler for every number of requests, addresses and slab keys  *)
(* and every value of the limits: the inductive invariant and what follows *)
(* from it.                                                                *)
(***************************************************************************)
EXTENDS SchedulerSlotProofs

\* A leaf that names no prover is tried with these, in this order.
USE SMTT(30), ZenonT(30), Z3T(30)

-----------------------------------------------------------------------------
(* The guards of the acquire futures *)

\* try_promote wakes the task stored for the waiter it promotes.
LEMMA PromotedWakesType ==
  ASSUME NEW g \in GlobalState, Indexed(g)
  PROVE  PromotedWakes(g) \subseteq Request \X Waker
<1>1. CASE Promoted(g) = NoKey
  BY <1>1 DEF PromotedWakes
<1>2. CASE Promoted(g) # NoKey
  <2>1. Promoted(g) \in QueuedKeys(g)
    BY <1>2, SelectSound
  <2>2. g.waiters[Promoted(g)].waker \in (Request \X Waker) \cup {NoWaker}
    BY <2>1 DEF QueuedKeys, GlobalState, Waiter, WakerOf
  <2>3. QED
    BY <1>2, <2>2 DEF PromotedWakes
<1>3. QED
  BY <1>1, <1>2

\* A waiter in a vacant slot and the key its guard takes come together.
LEMMA OwnedAdd ==
  ASSUME NEW g, NEW h, NEW P,
         NEW held \in [Request -> Key \cup {NoKey}], Owned(g, held, P),
         NEW r \in Request, held[r] = NoKey, r \notin P,
         NEW k \in Key, g.waiters[k] = Vacant,
         h.waiters[k] # Vacant, h.waiters[k].address = AddressOf[r],
         \A j \in Key : j # k => h.waiters[j] = g.waiters[j],
         NEW taken, taken = [held EXCEPT ![r] = k]
  PROVE  Owned(h, taken, P)
<1>1. taken[r] = k /\ \A q \in Request : q # r => taken[q] = held[q]
  OBVIOUS
<1>2. k # NoKey /\ \A q \in Request : held[q] # k
  BY SchedulerAssumption DEF Owned
<1>3. ASSUME NEW q \in Request, q # r, taken[q] # NoKey
      PROVE  /\ h.waiters[taken[q]] # Vacant
             /\ h.waiters[taken[q]].address = AddressOf[q]
             /\ q \notin P
             /\ \A p \in Request : taken[p] = taken[q] => p = q
  <2>1. taken[q] = held[q] /\ held[q] # k /\ held[q] \in Key
    BY <1>1, <1>2, <1>3
  <2>2. /\ g.waiters[held[q]] # Vacant /\ g.waiters[held[q]].address = AddressOf[q]
        /\ q \notin P /\ \A p \in Request : held[p] = held[q] => p = q
    BY <1>3, <2>1, Zenon DEF Owned
  <2>3. QED
    BY <1>1, <2>1, <2>2
<1>4. \A q \in Request : taken[q] = k => q = r
  BY <1>1, <1>2
<1>5. ASSUME NEW j \in Key, h.waiters[j] # Vacant
      PROVE  \E q \in Request : taken[q] = j
  <2>1. CASE j = k
    BY <1>1, <2>1
  <2>2. CASE j # k
    <3>1. PICK q \in Request : held[q] = j
      BY <1>5, <2>2 DEF Owned
    <3>2. q # r
      BY <3>1, SchedulerAssumption
    <3>3. QED
      BY <1>1, <3>1, <3>2
  <2>3. QED
    BY <2>1, <2>2
<1>6. QED
  BY <1>1, <1>3, <1>4, <1>5 DEF Owned

-----------------------------------------------------------------------------
(* The inductive invariant *)

\* The state behind the mutex is sound, every waiter has its own guard, and
\* no slot is free for a waiter.
IInv ==
  /\ TypeOK
  /\ Sound(global, permits)
  /\ GuardsOwnWaiters
  /\ WorkConserving

\* RequestScheduler::new establishes the invariant.
LEMMA InitIInv == Init => IInv
<1> SUFFICES ASSUME Init PROVE IInv
  OBVIOUS
<1>1. /\ global.global_running = 0 /\ global.queued = 0 /\ global.next_seq = 0
      /\ global.high_urgency_promotions = 0
      /\ global.waiters = [k \in Key |-> Vacant]
      /\ global.ordered = {} /\ global.fifo = <<>>
      /\ global.address_running = [a \in Address |-> 0]
      /\ global.ready_waiters = <<>>
  BY DEF Init
<1>2. global \in GlobalState
  BY DEF Init, GlobalState
<1>3. TypeOK
  BY <1>2 DEF Init, TypeOK
<1>4. AdmittedKeys(global) = {} /\ QueuedKeys(global) = {}
  BY <1>1 DEF AdmittedKeys, QueuedKeys
<1>5. /\ permits = {}
      /\ \A a \in Address : PermitsAt(permits, a) = {} /\ AdmittedAt(global, a) = {}
  BY <1>4, Zenon DEF Init, PermitsAt, AdmittedAt
<1>6. Counted(global, permits)
  <2>1. Cardinality({}) = 0
    BY FS_EmptySet
  <2>2. \A a \in Address : global.address_running[a] = 0
    BY <1>1
  <2>3. /\ Cardinality(permits) = 0 /\ Cardinality(AdmittedKeys(global)) = 0
        /\ Cardinality(QueuedKeys(global)) = 0
    BY <1>4, <1>5, <2>1
  <2>4. \A a \in Address : /\ Cardinality(PermitsAt(permits, a)) = 0
                            /\ Cardinality(AdmittedAt(global, a)) = 0
    BY <1>5, <2>1
  <2>5. QED
    BY <1>1, <2>2, <2>3, <2>4 DEF Counted
<1>7. Indexed(global)
  BY <1>1, <1>4 DEF Indexed
<1>8. Capped(global)
  BY <1>1, SchedulerAssumption DEF Capped
<1>9. GuardsOwnWaiters
  BY <1>1, Zenon DEF Init, GuardsOwnWaiters, Owned
<1>10. WorkConserving
  BY <1>4 DEF WorkConserving, Conserving
<1>11. QED
  BY <1>2, <1>3, <1>6, <1>7, <1>8, <1>9, <1>10 DEF IInv, Sound

\* The parts of the invariant the critical sections work on.
LEMMA IInvParts ==
  ASSUME IInv
  PROVE  /\ global \in GlobalState /\ Sound(global, permits)
         /\ Conserving(global) /\ Indexed(global)
         /\ guard \in [Request -> Key \cup {NoKey}]
         /\ permits \in SUBSET Request
         /\ Owned(global, guard, permits)
  BY DEF IInv, TypeOK, WorkConserving, Sound, GuardsOwnWaiters

\* First poll of acquire with a free slot.
LEMMA AcquireNowIInv ==
  ASSUME IInv, NEW r \in Request, AcquireNow(r)
  PROVE  IInv'
<1>1. r \in Request \ permits /\ guard[r] = NoKey
  BY DEF AcquireNow, Idle
<1>2. /\ HasGlobalCapacity(global) /\ AddressHasCapacity(global, AddressOf[r])
      /\ global' = BumpAddressRunning(global, AddressOf[r])
      /\ permits' = permits \cup {r} /\ guard' = guard
  BY DEF AcquireNow, AdmitsNow, CanRun
<1>3. /\ Sound(global', permits \cup {r}) /\ Conserving(global')
      /\ global'.waiters = global.waiters
  BY <1>1, <1>2, IInvParts, AcquireSound
<1>4. TypeOK'
  BY <1>2, <1>3 DEF AcquireNow, TypeOK, Sound, IInv
<1>5. Owned(global', guard, permits \cup {r})
  <2>1. SameTenants(global, global')
    BY <1>3 DEF SameTenants
  <2>2. QED
    BY <1>1, <2>1, IInvParts, OwnedSame
<1>6. QED
  BY <1>2, <1>3, <1>4, <1>5 DEF IInv, WorkConserving, GuardsOwnWaiters

\* First poll of acquire with the queue full.
LEMMA RejectCapacityIInv ==
  ASSUME IInv, NEW r \in Request, RejectCapacity(r)
  PROVE  IInv'
<1>1. UNCHANGED <<global, guard, permits, polledBy, woken>> /\ rejected' = rejected \cup {r}
  BY DEF RejectCapacity
<1>2. TypeOK'
  BY <1>1 DEF TypeOK, IInv
<1>3. QED
  BY <1>1, <1>2 DEF IInv, WorkConserving, GuardsOwnWaiters

\* Where no queued waiter could run, none keeps a request from a free slot.
LEMMA NobodyBlocks ==
  ASSUME NEW g, Indexed(g), Conserving(g), HasGlobalCapacity(g), NEW urgency,
         QueueBlocksPriority(g, urgency)
  PROVE  FALSE
<1>1. PICK e \in g.ordered : WaiterIsEligible(g, e[3])
  BY ZenonT(30) DEF QueueBlocksPriority
<1>2. PICK k \in QueuedKeys(g) : e = <<g.waiters[k].urgency, g.waiters[k].seq, k>>
  BY <1>1, ZenonT(30) DEF Indexed
<1>3. e[3] = k
  BY <1>2
<1>4. QED
  BY <1>1, <1>3, ZenonT(30) DEF Conserving

\* The waiter that acquire makes of request r polled by w.
NewWaiter(r, w) ==
  [waker |-> <<r, w>>, address |-> AddressOf[r], urgency |-> Priority(r),
   seq |-> global.next_seq, aged |-> FALSE, admitted |-> FALSE]

\* What a first poll that queues does: it adds a waiter and nothing else.
Enqueues(r, w, k) ==
  /\ global.waiters[k] = Vacant /\ guard[r] = NoKey /\ r \notin permits
  /\ global' = Enqueued(r, w, k) /\ guard' = [guard EXCEPT ![r] = k]
  /\ woken' = woken /\ permits' = permits
  /\ Sound(global', permits) /\ Conserving(global')
  /\ global'.waiters[k] = NewWaiter(r, w)
  /\ \A j \in Key : j # k => global'.waiters[j] = global.waiters[j]

\* First poll of acquire that queues: as no waiter could run before, none can
\* now, so try_promote at the end of this poll never finds one.
LEMMA EnqueueEffect ==
  ASSUME IInv, NEW r \in Request, NEW w \in Waker, NEW k \in Key, Enqueue(r, w, k)
  PROVE  Enqueues(r, w, k)
<1> DEFINE v == [waker |-> <<r, w>>, address |-> AddressOf[r],
                 urgency |-> Priority(r), seq |-> global.next_seq,
                 aged |-> FALSE, admitted |-> FALSE]
           h == Enqueued(r, w, k)
<1>1. v \in Waiter
  <2>1. Priority(r) \in 0..7
    BY SchedulerAssumption DEF Priority, FromUrgency
  <2>2. QED
    BY <2>1, IInvParts, SchedulerAssumption DEF Waiter, WakerOf, GlobalState
<1>2. EnqueuesTo(global, k, v, h)
  BY DEF Enqueued, EnqueuesTo
<1>3. ~(HasGlobalCapacity(global) /\ AddressHasCapacity(global, v.address))
  <2>1. ~CanRun(r) \/ QueueBlocksPriority(global, Priority(r))
    BY DEF Enqueue, AdmitsNow
  <2>2. ASSUME HasGlobalCapacity(global), QueueBlocksPriority(global, Priority(r))
        PROVE  FALSE
    BY <2>2, IInvParts, NobodyBlocks
  <2>3. QED
    BY <2>1, <2>2 DEF CanRun
<1>4. /\ global.waiters[k] = Vacant /\ global.queued < MaxQueued
      /\ guard[r] = NoKey /\ r \notin permits
  BY DEF Enqueue, Idle
<1>5. v.seq = global.next_seq /\ ~v.admitted
  OBVIOUS
<1>6. ~TryPromote(h).waiters[k].admitted =>
        /\ global' = TryPromote(h) /\ guard' = [guard EXCEPT ![r] = k]
        /\ woken' = woken \cup PromotedWakes(h) /\ permits' = permits
  BY DEF Enqueue
<1> HIDE DEF h, v
<1>7. /\ Sound(h, permits) /\ Conserving(h)
      /\ h.waiters[k] = v /\ \A j \in Key : j # k => h.waiters[j] = global.waiters[j]
  <2>1. permits \in SUBSET Request /\ Sound(global, permits) /\ Conserving(global)
    BY IInvParts
  <2>2. MayQueue(permits, global, k, v)
    BY <1>1, <1>3, <1>4, <1>5, <2>1 DEF MayQueue
  <2>3. QED
    BY <1>2, <2>2, EnqueueSound
<1>8. Promoted(h) = NoKey
  BY <1>7, SelectComplete DEF Sound
<1>9. TryPromote(h) = h /\ PromotedWakes(h) = {}
  BY <1>8 DEF TryPromote, PromotedWakes
<1>10. /\ global' = h /\ guard' = [guard EXCEPT ![r] = k]
       /\ woken' = woken /\ permits' = permits
  BY <1>5, <1>6, <1>7, <1>9
<1>11. QED
  BY <1>4, <1>7, <1>10, ZenonT(30) DEF h, v, Enqueues, NewWaiter

LEMMA EnqueueIInv ==
  ASSUME IInv, NEW r \in Request, NEW w \in Waker, NEW k \in Key, Enqueue(r, w, k)
  PROVE  IInv'
<1>1. /\ global.waiters[k] = Vacant /\ guard[r] = NoKey /\ r \notin permits
      /\ guard' = [guard EXCEPT ![r] = k] /\ woken' = woken /\ permits' = permits
      /\ Sound(global', permits) /\ Conserving(global')
      /\ \A j \in Key : j # k => global'.waiters[j] = global.waiters[j]
  <2>1. Enqueues(r, w, k)
    BY EnqueueEffect
  <2>2. QED
    BY <2>1, ZenonT(30) DEF Enqueues
<1>2. polledBy' = [polledBy EXCEPT ![r] = w] /\ rejected' = rejected \ {r}
  BY DEF Enqueue
<1> DEFINE v == [waker |-> <<r, w>>, address |-> AddressOf[r],
                 urgency |-> Priority(r), seq |-> global.next_seq,
                 aged |-> FALSE, admitted |-> FALSE]
<1>3. global'.waiters[k] = v
  <2>1. Enqueues(r, w, k)
    BY EnqueueEffect
  <2>2. QED
    BY <2>1, ZenonT(30) DEF Enqueues, NewWaiter
<1>4. TypeOK'
  <2>1. global' \in GlobalState
    BY <1>1 DEF Sound
  <2>2. guard' \in [Request -> Key \cup {NoKey}] /\ polledBy' \in [Request -> Waker]
    BY <1>1, <1>2 DEF IInv, TypeOK
  <2>3. QED
    BY <1>1, <1>2, <2>1, <2>2 DEF IInv, TypeOK
<1>5. Owned(global', guard', permits)
  <2>1. v # Vacant /\ v.address = AddressOf[r]
    <3>1. Priority(r) \in 0..7
      BY SchedulerAssumption DEF Priority, FromUrgency
    <3>2. v \in Waiter
      BY <3>1, IInvParts, SchedulerAssumption DEF Waiter, WakerOf, GlobalState
    <3>3. QED
      BY <3>2, VacantAssumption, ZenonT(30)
  <2> HIDE DEF v
  <2>2. QED
    BY <1>1, <1>3, <2>1, IInvParts, OwnedAdd, ZenonT(30)
<1>6. QED
  BY <1>1, <1>4, <1>5 DEF IInv, WorkConserving, GuardsOwnWaiters

\* One waiter's waker or age changes.
LEMMA RelabelIInv ==
  ASSUME IInv, NEW k \in Key, global.waiters[k] # Vacant,
         NEW new \in Waiter, new.address = global.waiters[k].address,
         new.urgency = global.waiters[k].urgency, new.seq = global.waiters[k].seq,
         new.admitted = global.waiters[k].admitted,
         global' = [global EXCEPT !.waiters[k] = new], guard' = guard, permits' = permits
  PROVE  /\ global' \in GlobalState
         /\ Sound(global', permits') /\ WorkConserving' /\ GuardsOwnWaiters'
<1>1. global \in GlobalState
  BY IInvParts
<1>2. global'.waiters = [global.waiters EXCEPT ![k] = new]
  BY <1>1 DEF GlobalState
<1>3. global' \in GlobalState
  BY <1>1, Zenon DEF GlobalState
<1>4. global'.waiters[k] = new /\ \A j \in Key : j # k => global'.waiters[j] = global.waiters[j]
  BY <1>1, <1>2 DEF GlobalState
<1>5. new # Vacant
  BY VacantAssumption
<1>6. /\ global'.global_running = global.global_running
      /\ global'.queued = global.queued /\ global'.next_seq = global.next_seq
      /\ global'.ordered = global.ordered /\ global'.fifo = global.fifo
      /\ global'.address_running = global.address_running
  BY <1>1 DEF GlobalState
<1>7. Relabels(global, global')
  <2>1. \A j \in Key : j = k \/ global'.waiters[j] = global.waiters[j]
    BY <1>4
  <2>2. \A j \in Key : global'.waiters[j] = Vacant <=> global.waiters[j] = Vacant
    BY <1>4, <1>5, <2>1, Zenon
  <2>3. \A j \in Key : global.waiters[j] # Vacant =>
          /\ global'.waiters[j].address = global.waiters[j].address
          /\ global'.waiters[j].urgency = global.waiters[j].urgency
          /\ global'.waiters[j].seq = global.waiters[j].seq
    BY <1>4, <2>1, Zenon
  <2>4. \A j \in Key : global.waiters[j] # Vacant =>
          (global'.waiters[j].admitted = global.waiters[j].admitted)
    BY <1>4, <2>1, Zenon
  <2>5. QED
    BY <1>3, <1>6, <2>2, <2>3, <2>4, ZenonT(30) DEF Relabels
<1>8. Sound(global', permits) /\ Conserving(global')
  BY <1>7, IInvParts, RelabelSound
<1>9. Owned(global', guard, permits)
  <2>1. SameTenants(global, global')
    BY <1>7 DEF Relabels, SameTenants
  <2>2. QED
    BY <2>1, IInvParts, OwnedSame
<1>10. QED
  BY <1>3, <1>8, <1>9 DEF WorkConserving, GuardsOwnWaiters

\* A poll that finds its waiter still queued.
LEMMA RepollIInv ==
  ASSUME IInv, NEW r \in Request, NEW w \in Waker, Repoll(r, w)
  PROVE  IInv'
<1> DEFINE k == guard[r]
           old == global.waiters[k]
           new == [old EXCEPT !.waker = <<r, w>>]
<1>1. k \in Key /\ old \in Waiter /\ old # Vacant
  BY IInvParts DEF Repoll, GlobalState
<1>2. /\ new \in Waiter /\ new.address = old.address /\ new.urgency = old.urgency
      /\ new.seq = old.seq /\ new.admitted = old.admitted
  BY <1>1, Zenon DEF Waiter, WakerOf
<1>3. /\ global' = [global EXCEPT !.waiters[k] = new]
      /\ guard' = guard /\ permits' = permits /\ rejected' = rejected
      /\ polledBy' = [polledBy EXCEPT ![r] = w] /\ woken' = woken \ {<<r, w>>}
  BY DEF Repoll
<1> HIDE DEF k, new
<1>4. /\ global' \in GlobalState
      /\ Sound(global', permits') /\ WorkConserving' /\ GuardsOwnWaiters'
  BY <1>1, <1>2, <1>3, RelabelIInv
<1>5. TypeOK'
  BY <1>3, <1>4 DEF IInv, TypeOK
<1>6. QED
  BY <1>4, <1>5 DEF IInv

\* Time passes for one waiter.
LEMMA AgeIInv ==
  ASSUME IInv, NEW i \in 1..Len(global.fifo), Age(i)
  PROVE  IInv'
<1> DEFINE k == global.fifo[i]
           old == global.waiters[k]
           new == [old EXCEPT !.aged = TRUE]
<1>1. k \in QueuedKeys(global)
  BY IInvParts, IndexedDistinct DEF Entries
<1>2. k \in Key /\ old \in Waiter /\ old # Vacant
  BY <1>1, IInvParts, ZenonT(30) DEF QueuedKeys, GlobalState
<1>3. /\ new \in Waiter /\ new.address = old.address /\ new.urgency = old.urgency
      /\ new.seq = old.seq /\ new.admitted = old.admitted
  BY <1>2, Zenon DEF Waiter
<1>4. /\ global' = [global EXCEPT !.waiters[k] = new]
      /\ guard' = guard /\ permits' = permits /\ rejected' = rejected
      /\ polledBy' = polledBy /\ woken' = woken
  BY DEF Age
<1> HIDE DEF k, new
<1>5. /\ global' \in GlobalState
      /\ Sound(global', permits') /\ WorkConserving' /\ GuardsOwnWaiters'
  BY <1>2, <1>3, <1>4, RelabelIInv
<1>6. TypeOK'
  BY <1>4, <1>5 DEF IInv, TypeOK
<1>7. QED
  BY <1>5, <1>6 DEF IInv

\* A poll that finds its waiter promoted.
LEMMA CollectIInv ==
  ASSUME IInv, NEW r \in Request, Collect(r)
  PROVE  IInv'
<1> DEFINE k == guard[r]
<1>1. k \in AdmittedKeys(global) /\ k \in Key /\ k # NoKey
  BY IInvParts DEF Collect, AdmittedKeys
<1>2. /\ global' = [global EXCEPT !.waiters[k] = Vacant]
      /\ permits' = permits \cup {r} /\ guard' = [guard EXCEPT ![r] = NoKey]
      /\ woken' = woken \ ({r} \X Waker) /\ polledBy' = polledBy /\ rejected' = rejected
  BY DEF Collect
<1>3. Vacates(global, k, global')
  BY <1>1, <1>2, IInvParts, VacateFields
<1>4. global.waiters[k].address = AddressOf[r] /\ r \in Request \ permits
  BY <1>1, IInvParts DEF Owned
<1> HIDE DEF k
<1>5. Sound(global', permits \cup {r}) /\ Conserving(global')
  BY <1>1, <1>3, <1>4, IInvParts, CollectSound, ZenonT(30)
<1>6. TypeOK'
  BY <1>2, <1>5 DEF IInv, TypeOK, Sound
<1>7. Owned(global', guard', permits \cup {r})
  <2>1. Removes(global, k, global')
    BY <1>3, Zenon DEF Vacates, Removes
  <2>2. QED
    BY <1>1, <1>2, <2>1, IInvParts, OwnedDrop, ZenonT(30) DEF k
<1>8. QED
  BY <1>2, <1>5, <1>6, <1>7 DEF IInv, WorkConserving, GuardsOwnWaiters

\* Drop of a permit.
LEMMA ReleaseIInv ==
  ASSUME IInv, NEW r \in Request, Release(r)
  PROVE  IInv'
<1> DEFINE a == AddressOf[r]
           dropped == DropAddressRunning(global, a)
           d == WakeReadyWaiters(dropped)
<1>1. r \in permits /\ a \in Address
  BY SchedulerAssumption DEF Release
<1>2. GivesBack(global, d, a)
  BY <1>1, IInvParts, GiveBackFields
<1>3. /\ global' = TryPromote(d) /\ permits' = permits \ {r}
      /\ guard' = guard /\ polledBy' = polledBy /\ rejected' = rejected
  BY DEF Release, GiveBack
<1>4. ReadyWoken(dropped) \subseteq Poller
  BY IInvParts DEF ReadyWoken, DropAddressRunning, GlobalState
<1>5. woken' = woken \cup (ReadyWoken(dropped) \cup PromotedWakes(d))
  BY DEF Release, GiveBackWakes
<1> HIDE DEF d, dropped, a
<1>6. Sound(d, permits \ {r}) /\ Freed(global, d, a)
  BY <1>1, <1>2, IInvParts, ReleaseFrees DEF a
<1>7. d \in GlobalState /\ Indexed(d) /\ permits \ {r} \in SUBSET Request
  BY <1>6, IInvParts DEF Sound
<1>8. Sound(global', permits')
  BY <1>3, <1>6, <1>7, TryPromoteSound
<1>9. Conserving(global')
  BY <1>1, <1>3, <1>6, <1>7, IInvParts, HandsOver
<1>10. SameTenants(d, global') /\ PromotedWakes(d) \subseteq Request \X Waker
  BY <1>3, <1>7, TryPromoteTenants, PromotedWakesType
<1>11. TypeOK'
  <2>1. woken' \in SUBSET ((Request \X Waker) \cup Poller)
    BY <1>4, <1>5, <1>10 DEF IInv, TypeOK
  <2>2. QED
    BY <1>3, <1>8, <2>1 DEF IInv, TypeOK, Sound
<1>12. Owned(global', guard, permits \ {r})
  <2>1. SameTenants(global, global')
    <3>1. d.waiters = global.waiters
      BY <1>2, Zenon DEF GivesBack
    <3>2. QED
      BY <1>10, <3>1 DEF SameTenants
  <2>2. QED
    BY <2>1, IInvParts, OwnedSame
<1>13. QED
  BY <1>3, <1>8, <1>9, <1>11, <1>12 DEF IInv, WorkConserving, GuardsOwnWaiters

\* Drop of an acquire future whose waiter was promoted.
LEMMA CancelAdmittedIInv ==
  ASSUME IInv, NEW r \in Request, CancelAdmitted(r)
  PROVE  IInv'
<1> DEFINE k == guard[r]
           a == global.waiters[k].address
           e == [global EXCEPT !.waiters[k] = Vacant]
           dropped == DropAddressRunning(e, a)
           d == WakeReadyWaiters(dropped)
<1>1. k \in AdmittedKeys(global) /\ k \in Key /\ k # NoKey
  BY IInvParts DEF CancelAdmitted, AdmittedKeys
<1>2. a \in Address
  BY <1>1, IInvParts DEF AdmittedKeys, GlobalState, Waiter
<1>3. Vacates(global, k, e)
  BY <1>1, IInvParts, VacateFields
<1>4. e \in GlobalState
  BY <1>3 DEF Vacates
<1>5. GivesBack(e, d, a)
  BY <1>2, <1>4, GiveBackFields
<1>6. /\ global' = TryPromote(d) /\ permits' = permits
      /\ guard' = [guard EXCEPT ![r] = NoKey]
      /\ woken' = (woken \ ({r} \X Waker)) \cup (ReadyWoken(dropped) \cup PromotedWakes(d))
      /\ polledBy' = polledBy /\ rejected' = rejected
  BY DEF CancelAdmitted, GiveBack, GiveBackWakes
<1>7. Sound(d, permits) /\ Freed(global, d, a)
  BY <1>1, <1>5, IInvParts, CancelFrees, Zenon
<1>8. ReadyWoken(dropped) \subseteq Poller
  <2> HIDE DEF e
  <2>1. QED
    BY <1>4 DEF ReadyWoken, DropAddressRunning, GlobalState
<1> HIDE DEF d, e, dropped, a, k
<1>9. d \in GlobalState /\ Indexed(d)
  BY <1>7 DEF Sound
<1>10. Sound(global', permits')
  BY <1>6, <1>7, IInvParts, TryPromoteSound
<1>11. Conserving(global')
  BY <1>2, <1>6, <1>7, IInvParts, HandsOver
<1>12. SameTenants(d, global') /\ PromotedWakes(d) \subseteq Request \X Waker
  BY <1>6, <1>9, TryPromoteTenants, PromotedWakesType
<1>13. TypeOK'
  <2>1. woken' \in SUBSET ((Request \X Waker) \cup Poller)
    BY <1>6, <1>8, <1>12 DEF IInv, TypeOK
  <2>2. guard' \in [Request -> Key \cup {NoKey}]
    BY <1>6, IInvParts
  <2>3. QED
    BY <1>6, <1>10, <2>1, <2>2 DEF IInv, TypeOK, Sound
<1>14. Owned(global', guard', permits)
  <2>1. /\ d.waiters[k] = Vacant
        /\ \A j \in Key : j # k => d.waiters[j] = global.waiters[j]
    BY <1>3, <1>5, Zenon DEF GivesBack, Vacates
  <2>2. Removes(global, k, global')
    BY <1>1, <1>12, <2>1 DEF SameTenants, Removes
  <2>3. QED
    BY <1>1, <1>6, <2>2, IInvParts, OwnedDrop, ZenonT(30) DEF k
<1>15. QED
  BY <1>6, <1>10, <1>11, <1>13, <1>14 DEF IInv, WorkConserving, GuardsOwnWaiters

\* Drop of an acquire future that is still queued.
LEMMA CancelQueuedIInv ==
  ASSUME IInv, NEW r \in Request, CancelQueued(r)
  PROVE  IInv'
<1> DEFINE k == guard[r]
           e == [global EXCEPT !.waiters[k] = Vacant]
<1>1. k \in QueuedKeys(global) /\ k \in Key /\ k # NoKey
  BY IInvParts DEF CancelQueued, QueuedKeys
<1>2. Vacates(global, k, e)
  BY <1>1, IInvParts, VacateFields
<1>3. /\ DequeuesTo(e, global.waiters[k], k, global')
      /\ guard' = [guard EXCEPT ![r] = NoKey] /\ permits' = permits
      /\ woken' = woken \ ({r} \X Waker) /\ polledBy' = polledBy /\ rejected' = rejected
  BY DEF CancelQueued, DequeuesTo
<1> HIDE DEF e, k
<1>4. Sound(global', permits) /\ Conserving(global') /\ global'.waiters = e.waiters
  <2>1. permits \in SUBSET Request /\ Sound(global, permits) /\ Conserving(global)
    BY IInvParts
  <2>2. QED
    BY <1>1, <1>2, <1>3, <2>1, CancelQueuedSound
<1>5. TypeOK'
  BY <1>3, <1>4 DEF IInv, TypeOK, Sound
<1>6. Owned(global', guard', permits)
  <2>1. Removes(global, k, global')
    BY <1>2, <1>4, Zenon DEF Vacates, Removes
  <2>2. QED
    BY <1>1, <1>3, <2>1, IInvParts, OwnedDrop, ZenonT(30) DEF k
<1>7. QED
  BY <1>3, <1>4, <1>5, <1>6 DEF IInv, WorkConserving, GuardsOwnWaiters

\* A poll of poll_ready.
LEMMA PollReadyIInv ==
  ASSUME IInv, NEW p \in Poller, PollReady(p)
  PROVE  IInv'
<1>0. /\ guard' = guard /\ permits' = permits /\ polledBy' = polledBy
      /\ rejected' = rejected /\ woken' = woken \ {p}
  BY DEF PollReady
<1>1. CASE global' = global
  <2>1. TypeOK'
    BY <1>0, <1>1 DEF TypeOK, IInv
  <2>2. QED
    BY <1>0, <1>1, <2>1 DEF IInv, WorkConserving, GuardsOwnWaiters
<1>2. CASE global' = [global EXCEPT !.ready_waiters = Append(@, p)]
  <2>1. Append(global.ready_waiters, p) \in Seq(Poller)
    BY IInvParts, AppendType DEF GlobalState
  <2>2. global' \in GlobalState
    BY <1>2, <2>1, IInvParts, Zenon DEF GlobalState
  <2>3. Relabels(global, global')
    BY <1>2, <2>2, IInvParts, Zenon DEF Relabels, GlobalState
  <2>4. Sound(global', permits) /\ Conserving(global')
    BY <2>3, IInvParts, RelabelSound
  <2>5. TypeOK'
    BY <1>0, <2>2 DEF TypeOK, IInv
  <2>6. Owned(global', guard, permits)
    <3>1. SameTenants(global, global')
      BY <2>3 DEF Relabels, SameTenants
    <3>2. QED
      BY <3>1, IInvParts, OwnedSame
  <2>7. QED
    BY <1>0, <2>4, <2>5, <2>6 DEF IInv, WorkConserving, GuardsOwnWaiters
<1>3. QED
  BY <1>1, <1>2 DEF PollReady

\* Each critical section preserves the invariant.
LEMMA NextIInv == IInv /\ [Next]_vars => IInv'
<1> SUFFICES ASSUME IInv, [Next]_vars PROVE IInv'
  OBVIOUS
<1>1. CASE Next
  BY <1>1, AcquireNowIInv, RejectCapacityIInv, EnqueueIInv, RepollIInv, CollectIInv,
     ReleaseIInv, CancelAdmittedIInv, CancelQueuedIInv, PollReadyIInv, AgeIInv DEF Next
<1>2. CASE UNCHANGED vars
  <2>1. TypeOK'
    BY <1>2 DEF vars, TypeOK, IInv
  <2>2. QED
    BY <1>2, <2>1 DEF vars, IInv, WorkConserving, GuardsOwnWaiters
<1>3. QED
  BY <1>1, <1>2

-----------------------------------------------------------------------------
(* The wakes of the acquire futures *)

\* The task that polled r last is woken already, or will be when r's waiter is
\* promoted.
Heard(r, w, by, wakes) ==
  IF w.admitted THEN <<r, by>> \in wakes ELSE w.waker = <<r, by>>

\* try_promote admits one waiter and wakes the task stored for it.
LEMMA TryPromoteWakes ==
  ASSUME NEW g \in GlobalState, Indexed(g), NEW j \in Key, g.waiters[j] # Vacant
  PROVE  \/ TryPromote(g).waiters[j] = g.waiters[j]
         \/ /\ ~g.waiters[j].admitted
            /\ TryPromote(g).waiters[j].admitted
            /\ g.waiters[j].waker # NoWaker => g.waiters[j].waker \in PromotedWakes(g)
<1>1. CASE Promoted(g) = NoKey \/ (Promoted(g) # NoKey /\ j # Promoted(g))
  <2>1. CASE Promoted(g) = NoKey
    BY <2>1 DEF TryPromote
  <2>2. CASE Promoted(g) # NoKey /\ j # Promoted(g)
    <3>1. Promoted(g) \in QueuedKeys(g)
      BY <2>2, SelectSound
    <3>2. TryPromote(g).waiters[j] = g.waiters[j]
      BY <2>2, <3>1, PromoteFields, PromoteMoves DEF TryPromote
    <3> QED
      BY <3>2
  <2> QED
    BY <1>1, <2>1, <2>2
<1>2. CASE Promoted(g) # NoKey /\ j = Promoted(g)
  <2> DEFINE h == Promote(g, j)
  <2>1. j \in QueuedKeys(g)
    BY <1>2, SelectSound
  <2>2. PromotesTo(g, j, h)
    BY <2>1, PromoteFields
  <2>3. TryPromote(g) = h
    BY <1>2 DEF TryPromote
  <2> HIDE DEF h
  <2>4. j \in AdmittedKeys(h)
    BY <2>1, <2>2, PromoteMoves
  <2>5. h.waiters[j].admitted /\ ~g.waiters[j].admitted
    BY <2>1, <2>4, Zenon DEF AdmittedKeys, QueuedKeys
  <2>6. PromotedWakes(g) = {g.waiters[j].waker} \ {NoWaker}
    BY <1>2 DEF PromotedWakes
  <2> QED
    BY <2>3, <2>5, <2>6
<1> QED
  BY <1>1, <1>2

\* A waiter that was heard of before try_promote is heard of after it.
LEMMA HeardPromote ==
  ASSUME NEW g \in GlobalState, Indexed(g), NEW j \in Key, g.waiters[j] # Vacant,
         NEW r \in Request, NEW by \in Waker, NEW wakes, Heard(r, g.waiters[j], by, wakes),
         NEW all, wakes \cup PromotedWakes(g) \subseteq all
  PROVE  Heard(r, TryPromote(g).waiters[j], by, all)
<1> DEFINE v == g.waiters[j]
           u == TryPromote(g).waiters[j]
<1>1. CASE u = v
  BY <1>1 DEF Heard
<1>2. CASE /\ ~v.admitted /\ u.admitted
           /\ v.waker # NoWaker => v.waker \in PromotedWakes(g)
  <2>1. v.waker = <<r, by>>
    BY <1>2 DEF Heard
  <2>2. <<r, by>> # NoWaker
    BY WakerAssumption
  <2> QED
    BY <1>2, <2>1, <2>2 DEF Heard
<1> QED
  BY <1>1, <1>2, TryPromoteWakes

\* A guard's key is that of its waiter, and of no other guard.
LEMMA GuardKeys ==
  ASSUME IInv, NEW r \in Request, guard[r] # NoKey
  PROVE  /\ guard[r] \in Key /\ global.waiters[guard[r]] # Vacant
         /\ global.waiters[guard[r]] \in Waiter /\ polledBy[r] \in Waker
         /\ \A q \in Request : guard[q] = guard[r] => q = r
<1>1. guard[r] \in Key /\ polledBy[r] \in Waker
  BY IInvParts DEF IInv, TypeOK
<1>2. global.waiters[guard[r]] # Vacant /\ \A q \in Request : guard[q] = guard[r] => q = r
  BY IInvParts, Zenon DEF Owned
<1>3. global.waiters[guard[r]] \in Waiter
  BY <1>1, <1>2, IInvParts DEF GlobalState
<1> QED
  BY <1>1, <1>2, <1>3

\* What NoLostWakeup says of one future, before and after a critical section.
LEMMA HeardEach ==
  /\ NoLostWakeup <=> \A r \in Request : guard[r] # NoKey =>
       Heard(r, global.waiters[guard[r]], polledBy[r], woken)
  /\ NoLostWakeup' <=> \A r \in Request : guard'[r] # NoKey =>
       Heard(r, global'.waiters[guard'[r]], polledBy'[r], woken')
BY DEF NoLostWakeup, Heard

\* A future whose waiter, task and wakes stay is heard of as before.
LEMMA HeardStays ==
  ASSUME IInv, NoLostWakeup, NEW q \in Request, guard[q] # NoKey, guard'[q] = guard[q],
         global'.waiters[guard[q]] = global.waiters[guard[q]], polledBy'[q] = polledBy[q],
         \A w \in Waker : <<q, w>> \in woken => <<q, w>> \in woken'
  PROVE  Heard(q, global'.waiters[guard'[q]], polledBy'[q], woken')
BY HeardEach, GuardKeys, ZenonT(30) DEF Heard

\* First polls: no guard's waiter changes, and a queued one starts with its task.
LEMMA AcquireNowWakes ==
  ASSUME IInv, NoLostWakeup, NEW r \in Request, AcquireNow(r) \/ RejectCapacity(r)
  PROVE  NoLostWakeup'
<1>1. guard' = guard /\ polledBy' = polledBy /\ woken' = woken
  BY DEF AcquireNow, RejectCapacity
<1>2. global'.waiters = global.waiters
  BY IInvParts, ZenonT(30) DEF AcquireNow, RejectCapacity, BumpAddressRunning, GlobalState
<1> QED
  BY <1>1, <1>2 DEF NoLostWakeup

LEMMA EnqueueWakes ==
  ASSUME IInv, NoLostWakeup, NEW r \in Request, NEW w \in Waker, NEW k \in Key, Enqueue(r, w, k)
  PROVE  NoLostWakeup'
<1> DEFINE v == [waker |-> <<r, w>>, address |-> AddressOf[r],
                 urgency |-> Priority(r), seq |-> global.next_seq,
                 aged |-> FALSE, admitted |-> FALSE]
<1>1. /\ global.waiters[k] = Vacant /\ guard[r] = NoKey
      /\ global' = Enqueued(r, w, k) /\ guard' = [guard EXCEPT ![r] = k] /\ woken' = woken
      /\ global'.waiters[k] = v
      /\ \A j \in Key : j # k => global'.waiters[j] = global.waiters[j]
  <2>1. Enqueues(r, w, k)
    BY EnqueueEffect
  <2>2. QED
    BY <2>1, ZenonT(30) DEF Enqueues, NewWaiter
<1>2. polledBy' = [polledBy EXCEPT ![r] = w]
  BY DEF Enqueue
<1>3. ASSUME NEW q \in Request, guard'[q] # NoKey
      PROVE  Heard(q, global'.waiters[guard'[q]], polledBy'[q], woken')
  <2>1. CASE q = r
    <3>1. guard'[q] = k /\ polledBy'[q] = w
      BY <1>1, <1>2, <2>1, IInvParts DEF IInv, TypeOK
    <3>2. ~v.admitted /\ v.waker = <<r, w>>
      OBVIOUS
    <3> QED
      BY <1>1, <2>1, <3>1, <3>2 DEF Heard
  <2>2. CASE q # r
    <3>1. guard'[q] = guard[q] /\ polledBy'[q] = polledBy[q] /\ guard[q] # NoKey
      BY <1>1, <1>2, <1>3, <2>2, IInvParts DEF IInv, TypeOK
    <3>2. guard[q] # k /\ guard[q] \in Key
      BY <1>1, <3>1, GuardKeys
    <3> QED
      BY <1>1, <3>1, <3>2, HeardStays
  <2> QED
    BY <2>1, <2>2
<1> QED
  BY <1>3, HeardEach

\* A later poll stores the task that polls.
LEMMA RepollWakes ==
  ASSUME IInv, NoLostWakeup, NEW r \in Request, NEW w \in Waker, Repoll(r, w)
  PROVE  NoLostWakeup'
<1> DEFINE k == guard[r]
           new == [global.waiters[k] EXCEPT !.waker = <<r, w>>]
<1>1. /\ k # NoKey /\ ~global.waiters[k].admitted
      /\ global' = [global EXCEPT !.waiters[k] = new] /\ guard' = guard
      /\ polledBy' = [polledBy EXCEPT ![r] = w] /\ woken' = woken \ {<<r, w>>}
  BY DEF Repoll
<1>2. k \in Key /\ global.waiters[k] \in Waiter
  BY <1>1, GuardKeys
<1>3. /\ global'.waiters[k] = new
      /\ \A j \in Key : j # k => global'.waiters[j] = global.waiters[j]
  <2> HIDE DEF new
  <2> QED BY <1>1, <1>2, IInvParts DEF GlobalState
<1>4. new.waker = <<r, w>> /\ ~new.admitted
  BY <1>1, <1>2, Zenon DEF Waiter
<1>5. ASSUME NEW q \in Request, guard'[q] # NoKey
      PROVE  Heard(q, global'.waiters[guard'[q]], polledBy'[q], woken')
  <2>1. CASE q = r
    <3>1. polledBy'[q] = w
      BY <1>1, <2>1 DEF IInv, TypeOK
    <3> QED
      BY <1>1, <1>3, <1>4, <2>1, <3>1, ZenonT(30) DEF Heard
  <2>2. CASE q # r
    <3>1. polledBy'[q] = polledBy[q] /\ guard[q] # NoKey
      BY <1>1, <1>5, <2>2 DEF IInv, TypeOK
    <3>2. guard[q] # k /\ guard[q] \in Key
      BY <1>1, <2>2, <3>1, GuardKeys
    <3> HIDE DEF k
    <3>3. \A x \in Waker : <<q, x>> \in woken => <<q, x>> \in woken'
      BY <1>1, <2>2
    <3> QED
      BY <1>1, <1>3, <3>1, <3>2, <3>3, HeardStays, ZenonT(30)
  <2> QED
    BY <2>1, <2>2
<1> QED
  BY <1>5, HeardEach

LEMMA AgeWakes ==
  ASSUME IInv, NoLostWakeup, NEW i \in 1..Len(global.fifo), Age(i)
  PROVE  NoLostWakeup'
<1> DEFINE k == global.fifo[i]
           new == [global.waiters[k] EXCEPT !.aged = TRUE]
<1>1. /\ global' = [global EXCEPT !.waiters[k] = new] /\ guard' = guard
      /\ polledBy' = polledBy /\ woken' = woken
  BY DEF Age
<1>2. k \in QueuedKeys(global)
  BY IInvParts, IndexedDistinct DEF Entries
<1>3. k \in Key /\ global.waiters[k] \in Waiter
  BY <1>2, IInvParts DEF QueuedKeys, GlobalState
<1>4. /\ global'.waiters[k] = new
      /\ \A j \in Key : j # k => global'.waiters[j] = global.waiters[j]
  <2> HIDE DEF new
  <2> QED BY <1>1, <1>3, IInvParts DEF GlobalState
<1>5. /\ new.waker = global.waiters[k].waker
      /\ new.admitted = global.waiters[k].admitted
  BY <1>3, Zenon DEF Waiter
<1>6. ASSUME NEW q \in Request, guard'[q] # NoKey
      PROVE  Heard(q, global'.waiters[guard'[q]], polledBy'[q], woken')
  <2>1. guard[q] \in Key /\ Heard(q, global.waiters[guard[q]], polledBy[q], woken)
    BY <1>1, <1>6, GuardKeys, HeardEach
  <2>2. CASE guard[q] = k
    BY <1>1, <1>4, <1>5, <2>1, <2>2, ZenonT(30) DEF Heard
  <2>3. CASE guard[q] # k
    BY <1>1, <1>4, <1>6, <2>1, <2>3, HeardStays
  <2> QED
    BY <2>2, <2>3
<1> QED
  BY <1>6, HeardEach

\* The waiter of r leaves with its guard; the others' wakes are not touched.
LEMMA LeaveWakes ==
  ASSUME IInv, NoLostWakeup, NEW r \in Request, Collect(r) \/ CancelQueued(r)
  PROVE  NoLostWakeup'
<1> DEFINE k == guard[r]
<1>1. /\ k # NoKey /\ guard' = [guard EXCEPT ![r] = NoKey]
      /\ polledBy' = polledBy /\ woken' = woken \ ({r} \X Waker)
  BY DEF Collect, CancelQueued
<1>2. k \in Key
  BY <1>1, GuardKeys
<1>3. \A j \in Key : j # k => global'.waiters[j] = global.waiters[j]
  <2>1. CASE Collect(r)
    BY <1>2, <2>1, IInvParts DEF Collect, GlobalState
  <2>2. CASE CancelQueued(r)
    BY <1>2, <2>2, IInvParts DEF CancelQueued, DequeueWaiter, GlobalState
  <2> QED
    BY <2>1, <2>2
<1>4. ASSUME NEW q \in Request, guard'[q] # NoKey
      PROVE  Heard(q, global'.waiters[guard'[q]], polledBy'[q], woken')
  <2>1. q # r /\ guard'[q] = guard[q] /\ guard[q] # NoKey
    BY <1>1, <1>4, IInvParts
  <2>2. guard[q] # k /\ guard[q] \in Key
    BY <1>1, <2>1, GuardKeys
  <2>3. \A x \in Waker : <<q, x>> \in woken => <<q, x>> \in woken'
    BY <1>1, <2>1
  <2> HIDE DEF k
  <2> QED
    BY <1>1, <1>3, <2>1, <2>2, <2>3, HeardStays, ZenonT(30)
<1> QED
  BY <1>4, HeardEach

\* A slot is given back and handed on, with the wake of the waiter that gets it.
LEMMA ReleaseWakes ==
  ASSUME IInv, NoLostWakeup, NEW r \in Request, Release(r)
  PROVE  NoLostWakeup'
<1> DEFINE dropped == DropAddressRunning(global, AddressOf[r])
           d == WakeReadyWaiters(dropped)
<1>1. r \in permits /\ AddressOf[r] \in Address
  BY SchedulerAssumption DEF Release
<1>2. GivesBack(global, d, AddressOf[r])
  BY <1>1, IInvParts, GiveBackFields
<1>3. /\ global' = TryPromote(d) /\ guard' = guard /\ polledBy' = polledBy
      /\ woken' = woken \cup (ReadyWoken(dropped) \cup PromotedWakes(d))
  BY DEF Release, GiveBack, GiveBackWakes
<1> HIDE DEF d, dropped
<1>4. Sound(d, permits \ {r})
  BY <1>1, <1>2, IInvParts, ReleaseFrees
<1>5. d \in GlobalState /\ Indexed(d) /\ d.waiters = global.waiters
  BY <1>2, <1>4 DEF Sound, GivesBack
<1>6. ASSUME NEW q \in Request, guard'[q] # NoKey
      PROVE  Heard(q, global'.waiters[guard'[q]], polledBy'[q], woken')
  <2>1. /\ guard[q] \in Key /\ d.waiters[guard[q]] # Vacant /\ polledBy[q] \in Waker
        /\ Heard(q, d.waiters[guard[q]], polledBy[q], woken)
    BY <1>3, <1>5, <1>6, GuardKeys, HeardEach
  <2> QED
    BY <1>3, <1>5, <2>1, HeardPromote, ZenonT(30)
<1> QED
  BY <1>6, HeardEach

LEMMA CancelAdmittedWakes ==
  ASSUME IInv, NoLostWakeup, NEW r \in Request, CancelAdmitted(r)
  PROVE  NoLostWakeup'
<1> DEFINE k == guard[r]
           a == global.waiters[k].address
           e == [global EXCEPT !.waiters[k] = Vacant]
           dropped == DropAddressRunning(e, a)
           d == WakeReadyWaiters(dropped)
           kept == woken \ ({r} \X Waker)
<1>1. k \in AdmittedKeys(global) /\ k \in Key /\ k # NoKey
  BY IInvParts DEF CancelAdmitted, AdmittedKeys
<1>2. a \in Address
  BY <1>1, IInvParts DEF AdmittedKeys, GlobalState, Waiter
<1>3. Vacates(global, k, e)
  BY <1>1, IInvParts, VacateFields
<1>4. e \in GlobalState
  BY <1>3 DEF Vacates
<1>5. GivesBack(e, d, a)
  BY <1>2, <1>4, GiveBackFields
<1>6. /\ global' = TryPromote(d) /\ guard' = [guard EXCEPT ![r] = NoKey]
      /\ woken' = kept \cup (ReadyWoken(dropped) \cup PromotedWakes(d))
      /\ polledBy' = polledBy
  BY DEF CancelAdmitted, GiveBack, GiveBackWakes
<1>7. Sound(d, permits)
  BY <1>1, <1>5, IInvParts, CancelFrees, Zenon
<1>8. \A j \in Key : j # k => d.waiters[j] = global.waiters[j]
  BY <1>3, <1>5, Zenon DEF GivesBack, Vacates
<1> HIDE DEF d, e, dropped, a
<1>9. d \in GlobalState /\ Indexed(d)
  BY <1>7 DEF Sound
<1>10. ASSUME NEW q \in Request, guard'[q] # NoKey
       PROVE  Heard(q, global'.waiters[guard'[q]], polledBy'[q], woken')
  <2>1. q # r /\ guard'[q] = guard[q] /\ guard[q] # NoKey
    BY <1>6, <1>10, IInvParts
  <2>2. guard[q] # k /\ guard[q] \in Key /\ polledBy[q] \in Waker
        /\ global.waiters[guard[q]] # Vacant
    BY <1>1, <2>1, GuardKeys
  <2>3. Heard(q, global.waiters[guard[q]], polledBy[q], kept)
    BY <2>1, <2>2, HeardEach, ZenonT(30) DEF Heard
  <2> HIDE DEF k, kept
  <2>4. Heard(q, d.waiters[guard[q]], polledBy[q], kept) /\ d.waiters[guard[q]] # Vacant
    BY <1>8, <2>2, <2>3
  <2>5. kept \cup PromotedWakes(d) \subseteq woken'
    BY <1>6
  <2> QED
    BY <1>6, <1>9, <2>1, <2>2, <2>4, <2>5, HeardPromote, ZenonT(30)
<1> QED
  BY <1>10, HeardEach

\* A task in poll_ready takes its own wake only.
LEMMA PollReadyWakes ==
  ASSUME IInv, NoLostWakeup, NEW p \in Poller, PollReady(p)
  PROVE  NoLostWakeup'
<1>1. guard' = guard /\ polledBy' = polledBy /\ woken' = woken \ {p}
  BY DEF PollReady
<1>2. global'.waiters = global.waiters
  BY IInvParts, ZenonT(30) DEF PollReady, GlobalState
<1>3. \A q \in Request, x \in Waker : <<q, x>> \in woken => <<q, x>> \in woken'
  BY <1>1, WakerAssumption
<1> QED
  BY <1>1, <1>2, <1>3, HeardEach, HeardStays, ZenonT(30)

\* Each critical section leaves every future that waits heard of.
LEMMA NextWakes == IInv /\ NoLostWakeup /\ [Next]_vars => NoLostWakeup'
<1> SUFFICES ASSUME IInv, NoLostWakeup, [Next]_vars PROVE NoLostWakeup'
  OBVIOUS
<1>1. CASE Next
  BY <1>1, AcquireNowWakes, EnqueueWakes, RepollWakes, LeaveWakes, ReleaseWakes,
     CancelAdmittedWakes, PollReadyWakes, AgeWakes DEF Next
<1>2. CASE UNCHANGED vars
  BY <1>2 DEF vars, NoLostWakeup
<1> QED
  BY <1>1, <1>2

-----------------------------------------------------------------------------
(* The theorems *)

\* The inductive invariant holds in every reachable state.
THEOREM Invariance == Spec => []IInv
  BY InitIInv, NextIInv, PTL DEF Spec

\* GlobalState, the guards, permits and wakes keep their types.
THEOREM TypeCorrect == Spec => []TypeOK
<1>1. IInv => TypeOK
  BY DEF IInv
<1>2. QED
  BY <1>1, Invariance, PTL

\* global_running, address_running and queued count exactly the permits held
\* and the waiters promoted or queued: no drop or cancellation leaks a slot.
THEOREM CountsAreExact == Spec => []Accounting
<1>1. IInv => Accounting
  BY DEF IInv, Sound, Accounting
<1>2. QED
  BY <1>1, Invariance, PTL

\* No interleaving of acquires, promotions, drops and cancellations exceeds
\* the limits given to RequestScheduler::new.
THEOREM LimitsHold == Spec => []WithinLimits
<1>1. IInv => WithinLimits
  BY DEF IInv, Sound, Counted, Capped, WithinLimits
<1>2. QED
  BY <1>1, Invariance, PTL

\* The BTreeSet and the VecDeque index the same waiters in the same seq order.
THEOREM IndexesAgree == Spec => []QueueIndexesAgree
<1>1. IInv => QueueIndexesAgree
  BY DEF IInv, Sound, QueueIndexesAgree
<1>2. QED
  BY <1>1, Invariance, PTL

\* A WaiterGuard never holds the key of another future's waiter.
THEOREM GuardsAreOwners == Spec => []GuardsOwnWaiters
<1>1. IInv => GuardsOwnWaiters
  BY DEF IInv
<1>2. QED
  BY <1>1, Invariance, PTL

\* The slab, its indexes and the guards describe one queue.
THEOREM StaysConsistent == Spec => []Consistent
  BY TypeCorrect, IndexesAgree, GuardsAreOwners, PTL DEF Consistent

\* No slot is free while a queued waiter could take it, although a release
\* promotes one waiter only.
THEOREM SlotsAreHandedOver == Spec => []WorkConserving
<1>1. IInv => WorkConserving
  BY DEF IInv
<1>2. QED
  BY <1>1, Invariance, PTL

\* A capacity error is returned only to a request that has no free slot: a
\* waiter that is stuck on its own address never takes a slot from another.
THEOREM RefusalsAreDue == Spec => NoSpuriousCapacity
<1>1. IInv /\ [Next]_vars => [\A r \in rejected' \ rejected : ~CanRun(r)]_vars
  <2> SUFFICES ASSUME IInv, [Next]_vars, NEW r \in rejected' \ rejected, CanRun(r)
               PROVE  FALSE
    OBVIOUS
  <2>1. \E q \in Request : RejectCapacity(q) /\ q = r
    <3>1. rejected' # rejected /\ r \in rejected' /\ r \notin rejected
      OBVIOUS
    <3>2. \A q \in Request : ~AcquireNow(q) /\ ~Collect(q) /\ ~Release(q)
      BY <3>1 DEF AcquireNow, Collect, Release
    <3>3. \A q \in Request : ~CancelAdmitted(q) /\ ~CancelQueued(q)
      BY <3>1 DEF CancelAdmitted, CancelQueued
    <3>4. \A q \in Request, w \in Waker, k \in Key : ~Enqueue(q, w, k) /\ ~Repoll(q, w)
      BY <3>1 DEF Enqueue, Repoll
    <3>5. /\ \A p \in Poller : ~PollReady(p)
          /\ \A i \in 1..Len(global.fifo) : ~Age(i)
          /\ vars' # vars
      BY <3>1 DEF PollReady, Age, vars
    <3>6. \A q \in Request, w \in Waker : ~Repoll(q, w)
      BY <3>1 DEF Repoll
    <3>7. PICK q \in Request : RejectCapacity(q)
      BY <3>2, <3>3, <3>4, <3>5, <3>6 DEF Next
    <3>8. QED
      BY <3>1, <3>7 DEF RejectCapacity
  <2>2. QueueBlocksPriority(global, Priority(r)) /\ HasGlobalCapacity(global)
    BY <2>1 DEF RejectCapacity, AdmitsNow, CanRun
  <2>3. QED
    BY <2>2, IInvParts, NobodyBlocks
<1>2. QED
  BY <1>1, Invariance, PTL DEF Spec, NoSpuriousCapacity

\* The task that polled an acquire future last is the one that is woken when its
\* waiter is promoted, whoever gives the slot back and whatever is cancelled
\* meanwhile (the waker stored by acquire, taken by try_promote).
THEOREM WakeupsArrive == Spec => []NoLostWakeup
<1>1. Init => NoLostWakeup
  BY DEF Init, NoLostWakeup
<1> QED
  BY <1>1, NextWakes, Invariance, PTL DEF Spec
=============================================================================
