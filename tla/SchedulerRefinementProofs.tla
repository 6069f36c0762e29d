---------------------- MODULE SchedulerRefinementProofs ---------------------
(***************************************************************************)
(* RequestScheduler implements RequestAdmission, for every number of       *)
(* requests, addresses and slab keys and every value of the limits.        *)
(***************************************************************************)
EXTENDS SchedulerRefinement, RequestSchedulerProofs

\* A leaf that names no prover is tried with these, in this order.
USE SMTT(30), ZenonT(30), Z3T(30)

-----------------------------------------------------------------------------
(* The state of RequestAdmission that a state of the scheduler stands for *)

\* The inductive invariant, with what decides whose turn it is.
RInv == IInv /\ Matching(global, guard) /\ AgedInOrder(global)

\* A free slot is one the running requests leave.
LEMMA AbstractSlot ==
  ASSUME NEW a, NEW running
  PROVE  Admission!FreeSlot(a, running) <=> SlotFree(a, running)
BY Zenon DEF Admission!FreeSlot, Admission!Cardinality, Cardinality, SlotFree

\* The waiters that may run and the ones whose turn it is.
LEMMA AbstractTurn ==
  ASSUME IInv, NEW running
  PROVE  /\ Admission!Eligible(running) = EligibleIn(Line(global, guard), running)
         /\ Admission!Turn(running)
              = TurnIn(Line(global, guard), AgedIn(global, guard), running)
<1> DEFINE q == Line(global, guard)
           E == EligibleIn(q, running)
           U == [r \in Request |-> Priority(r)]
<1>1. Admission!Eligible(running) = E
  BY AbstractSlot DEF Admission!Eligible, EligibleIn
<1>2. ASSUME NEW i \in E PROVE U[q[i]] = Priority(q[i])
  <2>1. i \in 1..Len(global.fifo)
    BY IInvParts, LineFields DEF EligibleIn
  <2>2. q[i] \in Request
    BY <2>1, IInvParts, LineOwners
  <2> QED
    BY <2>2
<1>3. Admission!Turn(running) =
        {i \in E :
           \/ \A j \in E : i <= j
           \/ /\ \A j \in E : \/ U[q[i]] < U[q[j]]
                              \/ U[q[i]] = U[q[j]] /\ i <= j
              /\ \A j \in E : q[j] \in AgedIn(global, guard) => i <= j}
  BY <1>1 DEF Admission!Turn
<1> HIDE DEF q, E, U
<1>4. Admission!Turn(running) =
        {i \in E :
           \/ \A j \in E : i <= j
           \/ /\ \A j \in E : \/ Priority(q[i]) < Priority(q[j])
                              \/ Priority(q[i]) = Priority(q[j]) /\ i <= j
              /\ \A j \in E : q[j] \in AgedIn(global, guard) => i <= j}
  BY <1>2, <1>3
<1>5. QED
  BY <1>1, <1>4 DEF TurnIn, q, E

\* The abstract queue without its i-th request.
LEMMA AbstractWithout ==
  ASSUME NEW i PROVE Admission!Without(i) = WithoutIn(Line(global, guard), i)
BY DEF Admission!Without, WithoutIn

\* A step that hands a slot over does what RequestAdmission says.
LEMMA AbstractHandOver ==
  ASSUME IInv, NEW d, NEW held, NEW P, Handed(d, global', held, P), guard' = held,
         Line(d, held) = Line(global, guard), AgedIn(d, held) = AgedIn(global, guard)
  PROVE  Admission!HandOver(PromotedIn(d, held) \cup P, PromotedIn(d, held))
<1> DEFINE q == Line(global, guard)
           R == PromotedIn(d, held) \cup P
           G == PromotedIn(d, held)
<1>1. \/ /\ Admission!Eligible(R) = {}
         /\ Line(global', guard') = q
         /\ AgedIn(global', guard') = AgedIn(global, guard)
         /\ PromotedIn(global', guard') = G
      \/ \E i \in Admission!Turn(R) :
           /\ Line(global', guard') = Admission!Without(i)
           /\ AgedIn(global', guard') = AgedIn(global, guard) \ {q[i]}
           /\ PromotedIn(global', guard') = G \cup {q[i]}
  BY AbstractTurn, AbstractWithout DEF Handed
<1>2. QED
  BY <1>1, ZenonT(30) DEF Admission!HandOver

\* A request that starts an acquire is idle for RequestAdmission too.
LEMMA AbstractIdle ==
  ASSUME IInv, NEW r \in Request, Idle(r)
  PROVE  Admission!Idle(r)
<1>1. guard[r] = NoKey /\ r \notin permits
  BY DEF Idle
<1>2. ASSUME NEW k \in Key, global.waiters[k] # Vacant PROVE r # Owner(guard, k)
  BY <1>1, <1>2, IInvParts, OwnerFacts, SchedulerAssumption
<1>3. r \notin PromotedIn(global, guard)
  BY <1>2 DEF PromotedIn, AdmittedKeys
<1>4. ASSUME NEW i \in 1..Len(Line(global, guard)) PROVE r # Line(global, guard)[i]
  <2>1. i \in 1..Len(global.fifo)
    BY IInvParts, LineFields
  <2>2. global.fifo[i] \in QueuedKeys(global) /\ Line(global, guard)[i] = Owner(guard, global.fifo[i])
    BY <2>1, IInvParts, LineFields
  <2> QED
    BY <1>2, <2>2 DEF QueuedKeys
<1>5. QED
  BY <1>1, <1>3, <1>4 DEF Admission!Idle, Admission!Waiting

\* A waiter that may run is never kept waiting, so nobody who may run is: to be
\* admitted at once is to have a free slot.
LEMMA AdmitsFree ==
  ASSUME IInv, NEW r \in Request
  PROVE  AdmitsNow(r) <=>
           Admission!FreeSlot(AddressOf[r], PromotedIn(global, guard) \cup permits)
<1>1. AddressOf[r] \in Address
  BY SchedulerAssumption
<1>2. SlotsCounted(global, guard, permits)
  BY IInvParts, SlotsAgree DEF Sound
<1>3. CanRun(r) <=> SlotFree(AddressOf[r], PromotedIn(global, guard) \cup permits)
  BY <1>1, <1>2, ZenonT(30) DEF CanRun, SlotsCounted
<1>4. ASSUME CanRun(r) PROVE ~QueueBlocksPriority(global, Priority(r))
  <2>1. \A k \in QueuedKeys(global) : ~WaiterIsEligible(global, k)
    BY <1>4, IInvParts DEF CanRun, Conserving
  <2>2. \A e \in global.ordered : e[3] \in QueuedKeys(global)
    BY IInvParts DEF Indexed
  <2> QED
    BY <2>1, <2>2 DEF QueueBlocksPriority
<1>5. QED
  BY <1>3, <1>4, AbstractSlot DEF AdmitsNow

\* `queued`, which acquire compares with the limit, is the length of the line.
LEMMA LineQueued ==
  ASSUME IInv PROVE Len(Line(global, guard)) = global.queued
BY IInvParts, LineLength DEF Sound

-----------------------------------------------------------------------------
(* The actions, one by one *)

\* acquire that takes a slot at once is Admit.
LEMMA AcquireNowAdmits ==
  ASSUME RInv, NEW r \in Request, AcquireNow(r)
  PROVE  Matching(global', guard') /\ AgedInOrder(global') /\ Admission!Admit(r)
<1>1. /\ global'.fifo = global.fifo /\ global'.waiters = global.waiters /\ guard' = guard
      /\ permits' = permits \cup {r} /\ rejected' = rejected \ {r}
      /\ Idle(r) /\ AdmitsNow(r)
  BY IInvParts DEF RInv, AcquireNow, BumpAddressRunning, GlobalState
<1>2. SameLine(global, global') /\ AdmittedKeys(global') = AdmittedKeys(global)
  BY <1>1, SameSlab
<1>3. /\ Line(global', guard') = Line(global, guard)
      /\ AgedIn(global', guard') = AgedIn(global, guard)
      /\ PromotedIn(global', guard') = PromotedIn(global, guard)
  BY <1>1, <1>2, SameView
<1>4. /\ Admission!Idle(r)
      /\ Admission!FreeSlot(AddressOf[r], PromotedIn(global, guard) \cup permits)
  BY <1>1, AbstractIdle, AdmitsFree, ZenonT(30) DEF RInv
<1>5. Matching(global', guard') /\ AgedInOrder(global')
  BY <1>1, <1>2, SameLineOrder, IInvParts DEF RInv, Matching
<1>6. QED
  BY <1>1, <1>3, <1>4, <1>5 DEF Admission!Admit

\* acquire with the queue at its limit is Refuse.
LEMMA RejectCapacityRefuses ==
  ASSUME RInv, NEW r \in Request, RejectCapacity(r)
  PROVE  Matching(global', guard') /\ AgedInOrder(global') /\ Admission!Refuse(r)
<1>1. /\ global' = global /\ guard' = guard /\ permits' = permits
      /\ rejected' = rejected \cup {r}
      /\ Idle(r) /\ ~AdmitsNow(r) /\ global.queued >= MaxQueued
  BY DEF RejectCapacity
<1>2. /\ Admission!Idle(r)
      /\ ~Admission!FreeSlot(AddressOf[r], PromotedIn(global, guard) \cup permits)
  BY <1>1, AbstractIdle, AdmitsFree, ZenonT(30) DEF RInv
<1>3. Len(Line(global, guard)) >= MaxQueued
  BY <1>1, LineQueued DEF RInv
<1>4. Matching(global', guard') /\ AgedInOrder(global')
  BY <1>1 DEF RInv
<1>5. QED
  BY <1>1, <1>2, <1>3, <1>4 DEF Admission!Refuse

\* The two polls that only register a task change nothing a caller sees.
LEMMA PollsStutter ==
  ASSUME RInv, \/ \E r \in Request, w \in Waker : Repoll(r, w)
               \/ \E p \in Poller : PollReady(p)
  PROVE  Matching(global', guard') /\ AgedInOrder(global') /\ UNCHANGED Admission!vars
<1>1. /\ SameLine(global, global') /\ AdmittedKeys(global') = AdmittedKeys(global)
      /\ guard' = guard /\ permits' = permits /\ rejected' = rejected
      /\ \A k \in Key : global'.waiters[k] = global.waiters[k]
           \/ (global.waiters[k] # Vacant /\ global'.waiters[k].urgency = global.waiters[k].urgency)
  <2>1. CASE \E r \in Request, w \in Waker : Repoll(r, w)
    <3>1. PICK r \in Request, w \in Waker : Repoll(r, w)
      BY <2>1
    <3> DEFINE k == guard[r]
    <3>2. k \in Key /\ global.waiters[k] \in Waiter /\ global \in GlobalState
      BY <3>1, IInvParts, GuardKeys DEF RInv, Repoll
    <3>3. /\ global' = [global EXCEPT !.waiters[k].waker = <<r, w>>]
          /\ guard' = guard /\ permits' = permits /\ rejected' = rejected
      BY <3>1 DEF Repoll
    <3> HIDE DEF k
    <3>4. /\ global'.fifo = global.fifo
          /\ global'.waiters = [global.waiters EXCEPT ![k] = [@ EXCEPT !.waker = <<r, w>>]]
      BY <3>2, <3>3 DEF GlobalState
    <3>5. \A j \in Key : j # k => global'.waiters[j] = global.waiters[j]
      BY <3>2, <3>4 DEF GlobalState
    <3>6. global'.waiters[k] = [global.waiters[k] EXCEPT !.waker = <<r, w>>]
      BY <3>2, <3>4, ZenonT(30) DEF GlobalState
    <3>7. /\ global'.waiters[k].aged = global.waiters[k].aged
          /\ global'.waiters[k].urgency = global.waiters[k].urgency
          /\ global'.waiters[k].admitted = global.waiters[k].admitted
          /\ global'.waiters[k] \in Waiter
      <4>1. <<r, w>> \in WakerOf
        BY <3>1 DEF WakerOf
      <4> QED
        BY <3>2, <3>6, <4>1 DEF Waiter
    <3>8. global'.waiters[k] # Vacant /\ global.waiters[k] # Vacant
      BY <3>2, <3>7, VacantAssumption
    <3>9. /\ QueuedKeys(global') = QueuedKeys(global)
          /\ AdmittedKeys(global') = AdmittedKeys(global)
      BY <3>5, <3>7, <3>8 DEF QueuedKeys, AdmittedKeys
    <3> QED
      BY <3>3, <3>4, <3>5, <3>7, <3>8, <3>9 DEF SameLine, QueuedKeys
  <2>2. CASE \E p \in Poller : PollReady(p)
    <3>1. PICK p \in Poller : PollReady(p)
      BY <2>2
    <3>2. /\ guard' = guard /\ permits' = permits /\ rejected' = rejected
          /\ global' = global \/ global' = [global EXCEPT !.ready_waiters = Append(@, p)]
      BY <3>1 DEF PollReady
    <3>3. global'.fifo = global.fifo /\ global'.waiters = global.waiters
      BY <3>2, IInvParts DEF RInv, GlobalState
    <3> QED
      BY <3>2, <3>3, SameSlab
  <2> QED
    BY <2>1, <2>2
<1>2. /\ Line(global', guard') = Line(global, guard)
      /\ AgedIn(global', guard') = AgedIn(global, guard)
      /\ PromotedIn(global', guard') = PromotedIn(global, guard)
  BY <1>1, SameView
<1>3. AgedInOrder(global')
  BY <1>1, SameLineOrder, IInvParts DEF RInv
<1>4. Matching(global', guard')
  <2>1. ASSUME NEW q \in Request, guard[q] # NoKey
        PROVE  global'.waiters[guard[q]].urgency = Priority(q)
    <3>1. guard[q] \in Key
      BY <2>1, GuardKeys DEF RInv
    <3> QED
      BY <1>1, <2>1, <3>1 DEF RInv, Matching
  <2> QED
    BY <1>1, <2>1 DEF Matching
<1>5. QED
  BY <1>1, <1>2, <1>3, <1>4 DEF Admission!vars

\* acquire that queues is Wait: nobody who is in line may take a slot, so
\* try_promote does nothing.
LEMMA EnqueueWaits ==
  ASSUME RInv, NEW r \in Request, NEW w \in Waker, NEW k \in Key, Enqueue(r, w, k)
  PROVE  Matching(global', guard') /\ AgedInOrder(global') /\ Admission!Wait(r)
<1>0. Enqueues(r, w, k)
  BY EnqueueEffect DEF RInv
<1>1. /\ global.waiters[k] = Vacant /\ guard[r] = NoKey
      /\ global' = Enqueued(r, w, k) /\ guard' = [guard EXCEPT ![r] = k]
      /\ permits' = permits /\ global' \in GlobalState /\ Indexed(global')
      /\ \A j \in Key : j # k => global'.waiters[j] = global.waiters[j]
  BY <1>0, ZenonT(30) DEF Enqueues, Sound
<1>2. global'.waiters[k] = [waker |-> <<r, w>>, address |-> AddressOf[r],
                            urgency |-> Priority(r), seq |-> global.next_seq,
                            aged |-> FALSE, admitted |-> FALSE]
  BY <1>0, ZenonT(30) DEF Enqueues, NewWaiter
<1>3. /\ Idle(r) /\ ~AdmitsNow(r) /\ global.queued < MaxQueued
      /\ rejected' = rejected \ {r}
  BY DEF Enqueue
<1>4. /\ global \in GlobalState /\ Indexed(global) /\ Owned(global, guard, permits)
      /\ guard \in [Request -> Key \cup {NoKey}]
      /\ Matching(global, guard) /\ AgedInOrder(global)
  BY IInvParts DEF RInv
<1>5. global'.fifo = Append(global.fifo, k)
  BY <1>1, <1>4 DEF Enqueued, EnqueueWaiter, GlobalState
<1>6. /\ global'.waiters[k].urgency = Priority(r)
      /\ ~global'.waiters[k].aged /\ ~global'.waiters[k].admitted
  BY <1>2
<1>7. k \in QueuedKeys(global')
  <2>1. global.fifo \in Seq(Key)
    BY <1>4 DEF GlobalState
  <2>2. \E i \in 1..Len(global'.fifo) : global'.fifo[i] = k
    BY <1>5, <2>1
  <2> QED
    BY <1>1, <2>2, LineFields
<1>8. Joins(global, global', k)
  <2>1. /\ QueuedKeys(global') = QueuedKeys(global) \cup {k}
        /\ AdmittedKeys(global') = AdmittedKeys(global)
    BY <1>1, <1>6, <1>7 DEF QueuedKeys, AdmittedKeys
  <2> QED
    BY <1>1, <1>5, <1>6, <2>1 DEF Joins
<1>9. /\ Line(global', guard') = Append(Line(global, guard), r)
      /\ AgedIn(global', guard') = AgedIn(global, guard)
      /\ PromotedIn(global', guard') = PromotedIn(global, guard)
  <2>1. guard' = Guarded(guard, r, k)
    BY <1>1 DEF Guarded
  <2>2. /\ Line(global', Guarded(guard, r, k)) = Append(Line(global, guard), r)
        /\ AgedIn(global', Guarded(guard, r, k)) = AgedIn(global, guard)
        /\ PromotedIn(global', Guarded(guard, r, k)) = PromotedIn(global, guard)
    BY <1>1, <1>4, <1>8, JoinsLine
  <2> QED
    BY <2>1, <2>2
<1>10. /\ Admission!Idle(r)
       /\ ~Admission!FreeSlot(AddressOf[r], PromotedIn(global, guard) \cup permits)
  BY <1>3, AbstractIdle, AdmitsFree, ZenonT(30) DEF RInv
<1>11. Len(Line(global, guard)) < MaxQueued
  BY <1>3, LineQueued DEF RInv
<1>12. Matching(global', guard')
  <2>1. ASSUME NEW q \in Request, guard'[q] # NoKey
        PROVE  global'.waiters[guard'[q]].urgency = Priority(q)
    <3>1. CASE q = r
      BY <1>1, <1>4, <1>6, <3>1
    <3>2. CASE q # r
      <4>1. guard'[q] = guard[q] /\ guard[q] # NoKey
        BY <1>1, <1>4, <2>1, <3>2
      <4>2. guard[q] \in Key /\ guard[q] # k
        BY <1>1, <4>1, GuardKeys DEF RInv
      <4> QED
        BY <1>1, <1>4, <4>1, <4>2 DEF Matching
    <3> QED
      BY <3>1, <3>2
  <2> QED
    BY <2>1 DEF Matching
<1>13. AgedInOrder(global')
  BY <1>4, <1>8, JoinsOrder
<1>14. QED
  BY <1>1, <1>3, <1>9, <1>10, <1>11, <1>12, <1>13, ZenonT(30) DEF Admission!Wait

\* A waiter with a key is the one its future's guard says.
LEMMA AdmittedGuard ==
  ASSUME IInv, NEW r \in Request, guard[r] # NoKey, global.waiters[guard[r]].admitted
  PROVE  guard[r] \in AdmittedKeys(global) /\ guard[r] \in Key
BY GuardKeys DEF AdmittedKeys

\* The poll that finds its waiter promoted is Collect.
LEMMA CollectCollects ==
  ASSUME RInv, NEW r \in Request, Collect(r)
  PROVE  Matching(global', guard') /\ AgedInOrder(global') /\ Admission!Collect(r)
<1> DEFINE k == guard[r]
<1>1. /\ guard[r] # NoKey /\ global.waiters[k].admitted
      /\ global' = [global EXCEPT !.waiters[k] = Vacant]
      /\ guard' = Unguarded(guard, r)
      /\ permits' = permits \cup {r} /\ rejected' = rejected
  BY DEF Collect, Unguarded
<1>2. k \in AdmittedKeys(global) /\ k \in Key
  BY <1>1, AdmittedGuard DEF RInv
<1>3. /\ global \in GlobalState /\ Indexed(global) /\ Owned(global, guard, permits)
      /\ guard \in [Request -> Key \cup {NoKey}]
      /\ Matching(global, guard) /\ AgedInOrder(global)
  BY IInvParts DEF RInv
<1>4. Vacates(global, k, global')
  BY <1>1, <1>2, <1>3, VacateFields
<1>5. global' \in GlobalState /\ Indexed(global')
  BY CollectIInv DEF RInv, IInv, Sound
<1>6. Cleared(global, global', guard[r])
  BY <1>4 DEF Vacates, Cleared
<1>7. /\ Line(global', guard') = Line(global, guard)
      /\ AgedIn(global', guard') = AgedIn(global, guard)
      /\ PromotedIn(global', guard') = PromotedIn(global, guard) \ {r}
      /\ r \in PromotedIn(global, guard) /\ SameLine(global, global')
  BY <1>1, <1>2, <1>3, <1>5, <1>6, ClearedView
<1>8. Matching(global', guard')
  BY <1>1, <1>3, <1>6, UnguardedMatching, ZenonT(30) DEF Cleared
<1>9. AgedInOrder(global')
  BY <1>3, <1>7, SameLineOrder
<1>10. QED
  BY <1>1, <1>7, <1>8, <1>9 DEF Admission!Collect

\* The drop of a permit is Release: the slot goes to whose turn it is.
LEMMA ReleaseReleases ==
  ASSUME RInv, NEW r \in Request, Release(r)
  PROVE  Matching(global', guard') /\ AgedInOrder(global') /\ Admission!Release(r)
<1> DEFINE a == AddressOf[r]
           d == WakeReadyWaiters(DropAddressRunning(global, a))
           Q == permits \ {r}
           G == PromotedIn(global, guard)
<1>1. /\ r \in permits /\ permits' = Q /\ global' = TryPromote(d)
      /\ guard' = guard /\ rejected' = rejected
  BY DEF Release, GiveBack
<1>2. /\ global \in GlobalState /\ Sound(global, permits) /\ Indexed(global)
      /\ permits \in SUBSET Request /\ Owned(global, guard, permits)
      /\ guard \in [Request -> Key \cup {NoKey}]
      /\ Matching(global, guard) /\ AgedInOrder(global)
  BY IInvParts DEF RInv
<1>3. GivesBack(global, d, a)
  BY <1>2, GiveBackFields, SchedulerAssumption
<1> HIDE DEF d
<1>4. Sound(d, Q)
  BY <1>1, <1>2, <1>3, ReleaseFrees
<1>5. d.waiters = global.waiters /\ d.fifo = global.fifo
  BY <1>3 DEF GivesBack
<1>6. Owned(d, guard, Q)
  <2>1. SameTenants(global, d)
    BY <1>5 DEF SameTenants
  <2> QED
    BY <1>2, <2>1, OwnedSame
<1>7. SameLine(global, d) /\ AdmittedKeys(d) = AdmittedKeys(global)
  BY <1>5, SameSlab
<1>8. /\ Line(d, guard) = Line(global, guard) /\ AgedIn(d, guard) = AgedIn(global, guard)
      /\ PromotedIn(d, guard) = G
  BY <1>7, SameView
<1>9. Matching(d, guard) /\ AgedInOrder(d)
  BY <1>2, <1>5, <1>7, SameLineOrder DEF Matching
<1>10. Handed(d, global', guard, Q)
  <2>1. SlotsCounted(d, guard, Q)
    BY <1>2, <1>4, <1>6, SlotsAgree DEF Sound
  <2>2. d \in GlobalState /\ Indexed(d)
    BY <1>4 DEF Sound
  <2>3. Handed(d, TryPromote(d), guard, Q)
    BY <1>2, <1>6, <1>9, <2>1, <2>2, TryPromoteHands
  <2> QED
    BY <1>1, <2>3
<1>11. r \notin G
  <2>1. \A k \in AdmittedKeys(global) : Owner(guard, k) \notin permits
    BY <1>2, OwnerFacts DEF AdmittedKeys
  <2> QED
    BY <1>1, <2>1 DEF PromotedIn
<1>12. Admission!HandOver((G \cup permits) \ {r}, G)
  <2>1. Admission!HandOver(PromotedIn(d, guard) \cup Q, PromotedIn(d, guard))
    BY <1>1, <1>8, <1>10, AbstractHandOver DEF RInv
  <2>2. PromotedIn(d, guard) \cup Q = (G \cup permits) \ {r}
    BY <1>8, <1>11
  <2> QED
    BY <1>8, <2>1, <2>2
<1>13. /\ AgedInOrder(global')
       /\ \A j \in Key : d.waiters[j] # Vacant =>
            global'.waiters[j].urgency = d.waiters[j].urgency
  BY <1>1, <1>4, <1>9, TryPromoteOrder DEF Sound
<1>14. Matching(global', guard')
  <2>1. ASSUME NEW q \in Request, guard[q] # NoKey
        PROVE  global'.waiters[guard[q]].urgency = Priority(q)
    <3>1. guard[q] \in Key /\ global.waiters[guard[q]] # Vacant
      BY <2>1, GuardKeys DEF RInv
    <3> QED
      BY <1>2, <1>5, <1>13, <2>1, <3>1 DEF Matching
  <2> QED
    BY <1>1, <2>1 DEF Matching
<1>15. QED
  BY <1>1, <1>12, <1>13, <1>14 DEF Admission!Release

\* The drop of a future whose waiter was promoted is CancelGranted.
LEMMA CancelAdmittedCancels ==
  ASSUME RInv, NEW r \in Request, CancelAdmitted(r)
  PROVE  Matching(global', guard') /\ AgedInOrder(global') /\ Admission!CancelGranted(r)
<1> DEFINE k == guard[r]
           a == global.waiters[k].address
           e == [global EXCEPT !.waiters[k] = Vacant]
           d == WakeReadyWaiters(DropAddressRunning(e, a))
           G == PromotedIn(global, guard)
<1>1. /\ guard[r] # NoKey /\ global.waiters[k].admitted
      /\ global' = TryPromote(d) /\ guard' = Unguarded(guard, r)
      /\ permits' = permits /\ rejected' = rejected
  BY DEF CancelAdmitted, GiveBack, Unguarded
<1>2. k \in AdmittedKeys(global) /\ k \in Key
  BY <1>1, AdmittedGuard DEF RInv
<1>3. /\ global \in GlobalState /\ Sound(global, permits) /\ Indexed(global)
      /\ permits \in SUBSET Request /\ Owned(global, guard, permits)
      /\ guard \in [Request -> Key \cup {NoKey}]
      /\ Matching(global, guard) /\ AgedInOrder(global) /\ IInv
  BY IInvParts DEF RInv
<1>4. Vacates(global, k, e)
  BY <1>2, <1>3, VacateFields
<1>5. a \in Address
  <2>1. global.waiters[k] \in Waiter
    BY <1>1, <1>3, GuardKeys
  <2> QED
    BY <2>1 DEF Waiter
<1>6. GivesBack(e, d, a)
  BY <1>4, <1>5, GiveBackFields DEF Vacates
<1>7. Sound(d, permits)
  <2> HIDE DEF d, k
  <2> QED
    BY <1>2, <1>3, <1>6, CancelFrees, ZenonT(30)
<1> HIDE DEF d, e
<1>8. Cleared(global, d, guard[r])
  BY <1>4, <1>6 DEF GivesBack, Vacates, Cleared
<1>9. d \in GlobalState /\ Indexed(d)
  BY <1>7 DEF Sound
<1>10. /\ Line(d, guard') = Line(global, guard)
       /\ AgedIn(d, guard') = AgedIn(global, guard)
       /\ PromotedIn(d, guard') = G \ {r}
       /\ r \in G /\ r \notin permits /\ SameLine(global, d)
  BY <1>1, <1>2, <1>3, <1>8, <1>9, ClearedView
<1>11. Matching(d, guard') /\ AgedInOrder(d)
  <2>1. Matching(d, guard')
    BY <1>1, <1>3, <1>8, UnguardedMatching DEF Cleared
  <2> QED
    BY <1>3, <1>10, <2>1, SameLineOrder
<1>12. Owned(d, guard', permits) /\ guard' \in [Request -> Key \cup {NoKey}]
  <2>1. Removes(global, guard[r], d)
    BY <1>8 DEF Removes, Cleared
  <2>2. guard' = [guard EXCEPT ![r] = NoKey]
    BY <1>1 DEF Unguarded
  <2>3. Owned(d, guard', permits)
    BY <1>1, <1>3, <2>1, <2>2, OwnedDrop, ZenonT(30)
  <2> QED
    BY <1>3, <2>2, <2>3
<1>13. Handed(d, global', guard', permits)
  <2>1. SlotsCounted(d, guard', permits)
    BY <1>3, <1>7, <1>12, SlotsAgree DEF Sound
  <2>2. Handed(d, TryPromote(d), guard', permits)
    BY <1>9, <1>11, <1>12, <2>1, TryPromoteHands
  <2> QED
    BY <1>1, <2>2
<1>14. Admission!HandOver((G \cup permits) \ {r}, G \ {r})
  <2>1. Admission!HandOver(PromotedIn(d, guard') \cup permits, PromotedIn(d, guard'))
    BY <1>3, <1>10, <1>13, AbstractHandOver, ZenonT(30)
  <2>2. PromotedIn(d, guard') \cup permits = (G \cup permits) \ {r}
    BY <1>10
  <2> QED
    BY <1>10, <2>1, <2>2
<1>15. /\ AgedInOrder(global')
       /\ \A j \in Key : d.waiters[j] # Vacant =>
            global'.waiters[j].urgency = d.waiters[j].urgency
  BY <1>1, <1>9, <1>11, TryPromoteOrder
<1>16. Matching(global', guard')
  <2>1. ASSUME NEW q \in Request, guard'[q] # NoKey
        PROVE  global'.waiters[guard'[q]].urgency = Priority(q)
    <3>1. guard'[q] \in Key /\ d.waiters[guard'[q]] # Vacant
      BY <1>12, <2>1 DEF Owned
    <3> QED
      BY <1>11, <1>15, <2>1, <3>1 DEF Matching
  <2> QED
    BY <2>1 DEF Matching
<1>17. QED
  BY <1>1, <1>10, <1>14, <1>15, <1>16 DEF Admission!CancelGranted

\* The drop of a future that still waits is CancelQueued at its place.
LEMMA CancelQueuedCancels ==
  ASSUME RInv, NEW r \in Request, CancelQueued(r)
  PROVE  /\ Matching(global', guard') /\ AgedInOrder(global')
         /\ \E i \in 1..Len(Line(global, guard)) : Admission!CancelQueued(i)
<1> DEFINE k == guard[r]
           w == global.waiters[k]
           e == [global EXCEPT !.waiters[k] = Vacant]
<1>1. /\ guard[r] # NoKey /\ ~w.admitted /\ DequeuesTo(e, w, k, global')
      /\ guard' = Unguarded(guard, r)
      /\ permits' = permits /\ rejected' = rejected
  BY DEF CancelQueued, DequeuesTo, Unguarded
<1>2. /\ global \in GlobalState /\ Sound(global, permits) /\ Indexed(global)
      /\ Conserving(global)
      /\ permits \in SUBSET Request /\ Owned(global, guard, permits)
      /\ guard \in [Request -> Key \cup {NoKey}] /\ IInv
      /\ Matching(global, guard) /\ AgedInOrder(global)
  BY IInvParts DEF RInv
<1>3. k \in Key /\ k \in QueuedKeys(global)
  BY <1>1, <1>2, GuardKeys DEF QueuedKeys
<1>4. Vacates(global, k, e)
  BY <1>2, <1>3, VacateFields
<1>5. global'.fifo = RemoveFromFifo(global.fifo, k)
  <2>1. e \in GlobalState /\ e.fifo = global.fifo
    BY <1>4 DEF Vacates
  <2> HIDE DEF e
  <2> QED
    BY <1>1, <2>1 DEF DequeuesTo, DequeueWaiter, GlobalState
<1> HIDE DEF e
<1>6. Sound(global', permits) /\ global'.waiters = e.waiters
  <2>1. DequeuesTo(e, global.waiters[k], k, global')
    BY <1>1
  <2>2. Sound(global, permits) /\ Conserving(global) /\ permits \in SUBSET Request
    BY <1>2
  <2> HIDE DEF k
  <2> QED
    BY <1>3, <1>4, <2>1, <2>2, CancelQueuedSound
<1>7. /\ global'.waiters[k] = Vacant
      /\ \A j \in Key : j # k => global'.waiters[j] = global.waiters[j]
  BY <1>4, <1>6 DEF Vacates
<1>8. /\ QueuedKeys(global') = QueuedKeys(global) \ {k}
      /\ AdmittedKeys(global') = AdmittedKeys(global)
  BY <1>3, <1>7 DEF QueuedKeys, AdmittedKeys
<1>9. PICK i \in 1..Len(global.fifo) : global.fifo[i] = k
  BY <1>2, <1>3 DEF Indexed
<1>10. Departs(global, global', i)
  <2>1. \A j \in QueuedKeys(global') : global'.waiters[j] = global.waiters[j]
    BY <1>7, <1>8 DEF QueuedKeys
  <2> QED
    BY <1>5, <1>8, <1>9, <2>1 DEF Departs
<1>11. /\ Line(global', guard) = WithoutIn(Line(global, guard), i)
       /\ AgedIn(global', guard) = AgedIn(global, guard) \ {Line(global, guard)[i]}
  BY <1>2, <1>10, DepartsLine
<1>12. PromotedIn(global', guard) = PromotedIn(global, guard)
  BY <1>8 DEF PromotedIn
<1>13. /\ Line(global', guard') = Line(global', guard)
       /\ AgedIn(global', guard') = AgedIn(global', guard)
       /\ PromotedIn(global', guard') = PromotedIn(global', guard)
  <2>1. Emptied(global, global', guard[r])
    BY <1>7 DEF Emptied
  <2>2. global' \in GlobalState /\ Indexed(global')
    BY <1>6 DEF Sound
  <2>3. /\ Line(global', Unguarded(guard, r)) = Line(global', guard)
        /\ AgedIn(global', Unguarded(guard, r)) = AgedIn(global', guard)
        /\ PromotedIn(global', Unguarded(guard, r)) = PromotedIn(global', guard)
    BY <1>1, <1>2, <2>1, <2>2, GuardLeaves
  <2> QED
    BY <1>1, <2>3
<1>14. Matching(global', guard')
  BY <1>1, <1>2, <1>7, UnguardedMatching
<1>15. AgedInOrder(global')
  BY <1>2, <1>10, DepartsOrder
<1>16. Admission!CancelQueued(i)
  BY <1>1, <1>11, <1>12, <1>13, AbstractWithout DEF Admission!CancelQueued
<1>17. i \in 1..Len(Line(global, guard))
  BY <1>2, LineFields
<1>18. QED
  BY <1>14, <1>15, <1>16, <1>17

\* A waiter that has waited long enough is Age at its place.
LEMMA AgeAges ==
  ASSUME RInv, NEW i \in 1..Len(global.fifo), Age(i)
  PROVE  /\ Matching(global', guard') /\ AgedInOrder(global')
         /\ i \in 1..Len(Line(global, guard)) /\ Admission!Age(i)
<1> DEFINE f == global.fifo
           k == f[i]
           q == Line(global, guard)
<1>1. /\ ~global.waiters[k].aged /\ \A j \in 1..(i - 1) : global.waiters[f[j]].aged
      /\ global' = [global EXCEPT !.waiters[k].aged = TRUE]
      /\ guard' = guard /\ permits' = permits /\ rejected' = rejected
  BY DEF Age
<1>2. /\ global \in GlobalState /\ Indexed(global) /\ Owned(global, guard, permits)
      /\ guard \in [Request -> Key \cup {NoKey}] /\ f \in Seq(Key) /\ Len(f) \in Nat
  <2>1. /\ global \in GlobalState /\ Indexed(global) /\ Owned(global, guard, permits)
        /\ guard \in [Request -> Key \cup {NoKey}]
    BY IInvParts, ZenonT(30) DEF RInv
  <2>2. f \in Seq(Key)
    BY <2>1, ZenonT(30) DEF GlobalState
  <2>3. QED
    BY <2>1, <2>2
<1>3. k \in QueuedKeys(global) /\ Len(q) = Len(f) /\ q[i] = Owner(guard, k)
  BY <1>2, LineFields
<1>4. k \in Key /\ global.waiters[k] \in Waiter /\ global.waiters[k] # Vacant
  BY <1>2, <1>3 DEF QueuedKeys, GlobalState
<1> HIDE DEF k
<1>5. /\ global'.fifo = f
      /\ global'.waiters = [global.waiters EXCEPT ![k] = [@ EXCEPT !.aged = TRUE]]
  BY <1>1, <1>2 DEF GlobalState
<1>6. /\ \A j \in Key : j # k => global'.waiters[j] = global.waiters[j]
      /\ global'.waiters[k] = [global.waiters[k] EXCEPT !.aged = TRUE]
  BY <1>2, <1>4, <1>5, ZenonT(30) DEF GlobalState
<1>7. /\ global'.waiters[k].aged
      /\ global'.waiters[k].urgency = global.waiters[k].urgency
      /\ global'.waiters[k].admitted = global.waiters[k].admitted
      /\ global'.waiters[k] \in Waiter
  BY <1>4, <1>6, ZenonT(30) DEF Waiter
<1>8. /\ QueuedKeys(global') = QueuedKeys(global)
      /\ AdmittedKeys(global') = AdmittedKeys(global)
  BY <1>4, <1>6, <1>7, VacantAssumption, ZenonT(30) DEF QueuedKeys, AdmittedKeys
<1>9. Ages(global, global', i)
  BY <1>5, <1>6, <1>7, <1>8 DEF Ages, k
<1>10. /\ Line(global', guard') = q /\ PromotedIn(global', guard') = PromotedIn(global, guard)
       /\ AgedIn(global', guard') = AgedIn(global, guard) \cup {q[i]}
  <2>1. global \in GlobalState /\ Indexed(global)
    BY <1>2
  <2>2. /\ Line(global', guard) = Line(global, guard)
        /\ AgedIn(global', guard) = AgedIn(global, guard) \cup {Line(global, guard)[i]}
        /\ PromotedIn(global', guard) = PromotedIn(global, guard)
    BY <1>9, <2>1, AgesLine, Zenon
  <2>3. guard' = guard
    BY <1>1
  <2> QED
    BY <2>2, <2>3
<1>11. q[i] \notin AgedIn(global, guard)
  BY <1>1, <1>2, LineOwners DEF k
<1>12. \A j \in 1..(i - 1) : q[j] \in AgedIn(global, guard)
  <2>1. \A j \in 1..(i - 1) : j \in 1..Len(f)
    BY <1>2
  <2> QED
    BY <1>1, <1>2, <2>1, LineOwners
<1>13. Matching(global', guard')
  <2>1. ASSUME NEW p \in Request, guard[p] # NoKey
        PROVE  global'.waiters[guard[p]].urgency = Priority(p)
    <3>1. guard[p] \in Key
      BY <2>1, GuardKeys DEF RInv
    <3> QED
      BY <1>6, <1>7, <2>1, <3>1, ZenonT(30) DEF RInv, Matching
  <2> QED
    BY <1>1, <2>1 DEF Matching
<1>14. AgedInOrder(global')
  BY <1>1, <1>2, <1>9, AgesOrder DEF RInv
<1>15. Admission!Age(i)
  BY <1>1, <1>10, <1>11, <1>12, ZenonT(30) DEF Admission!Age
<1>16. QED
  BY <1>3, <1>13, <1>14, <1>15

-----------------------------------------------------------------------------
(* The refinement *)

\* Every step of the scheduler is a step of RequestAdmission or changes nothing
\* a caller sees.
LEMMA NextRefines ==
  ASSUME RInv, [Next]_vars
  PROVE  RInv' /\ [Admission!Next]_(Admission!vars)
<1>1. IInv'
  BY NextIInv DEF RInv
<1>2. ASSUME NEW r \in Request, AcquireNow(r)
      PROVE  Matching(global', guard') /\ AgedInOrder(global') /\ Admission!Next
  BY <1>2, AcquireNowAdmits DEF Admission!Next
<1>3. ASSUME NEW r \in Request, RejectCapacity(r)
      PROVE  Matching(global', guard') /\ AgedInOrder(global') /\ Admission!Next
  BY <1>3, RejectCapacityRefuses DEF Admission!Next
<1>4. ASSUME NEW r \in Request, NEW w \in Waker, NEW k \in Key, Enqueue(r, w, k)
      PROVE  Matching(global', guard') /\ AgedInOrder(global') /\ Admission!Next
  BY <1>4, EnqueueWaits DEF Admission!Next
<1>5. CASE \/ \E r \in Request, w \in Waker : Repoll(r, w)
           \/ \E p \in Poller : PollReady(p)
  BY <1>1, <1>5, PollsStutter DEF RInv
<1>6. ASSUME NEW r \in Request, Collect(r)
      PROVE  Matching(global', guard') /\ AgedInOrder(global') /\ Admission!Next
  BY <1>6, CollectCollects DEF Admission!Next
<1>7. ASSUME NEW r \in Request, Release(r)
      PROVE  Matching(global', guard') /\ AgedInOrder(global') /\ Admission!Next
  BY <1>7, ReleaseReleases DEF Admission!Next
<1>8. ASSUME NEW r \in Request, CancelAdmitted(r)
      PROVE  Matching(global', guard') /\ AgedInOrder(global') /\ Admission!Next
  BY <1>8, CancelAdmittedCancels DEF Admission!Next
<1>9. ASSUME NEW r \in Request, CancelQueued(r)
      PROVE  Matching(global', guard') /\ AgedInOrder(global') /\ Admission!Next
  BY <1>9, CancelQueuedCancels DEF Admission!Next
<1>10. ASSUME NEW i \in 1..Len(global.fifo), Age(i)
       PROVE  Matching(global', guard') /\ AgedInOrder(global') /\ Admission!Next
  BY <1>10, AgeAges DEF Admission!Next
<1>11. CASE UNCHANGED vars
  BY <1>1, <1>11 DEF RInv, vars, Matching, AgedInOrder, Admission!vars
<1>12. QED
  BY <1>1, <1>2, <1>3, <1>4, <1>5, <1>6, <1>7, <1>8, <1>9, <1>10, <1>11 DEF Next, RInv

\* An empty scheduler is an empty admission.
LEMMA InitRefines == Init => RInv /\ Admission!Init
<1> SUFFICES ASSUME Init PROVE RInv /\ Admission!Init
  OBVIOUS
<1>1. IInv
  BY InitIInv
<1>2. /\ global.fifo = <<>> /\ \A k \in Key : global.waiters[k] = Vacant
      /\ \A r \in Request : guard[r] = NoKey
      /\ permits = {} /\ rejected = {}
  BY DEF Init
<1>3. Matching(global, guard) /\ AgedInOrder(global)
  BY <1>2 DEF Matching, AgedInOrder
<1>4. Line(global, guard) = <<>>
  BY <1>2 DEF Line
<1>5. QueuedKeys(global) = {} /\ AdmittedKeys(global) = {}
  BY <1>2 DEF QueuedKeys, AdmittedKeys
<1>6. AgedIn(global, guard) = {} /\ PromotedIn(global, guard) = {}
  BY <1>5 DEF AgedIn, PromotedIn
<1>7. QED
  BY <1>1, <1>2, <1>3, <1>4, <1>6 DEF RInv, Admission!Init

\* The scheduler of connection/scheduler.rs, with its slab, its two indexes, its
\* counters and its guards, admits, queues, refuses and promotes requests exactly
\* as RequestAdmission says, whatever the limits and however many requests there are.
THEOREM Refinement == Spec => ImplementsAdmission
<1>1. Init => RInv /\ Admission!Init
  BY InitRefines
<1>2. RInv /\ [Next]_vars => RInv' /\ [Admission!Next]_(Admission!vars)
  BY NextRefines
<1>3. QED
  BY <1>1, <1>2, PTL DEF Spec, ImplementsAdmission, Admission!Spec
=============================================================================
