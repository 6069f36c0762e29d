------------------------ MODULE SchedulerSlotProofs -------------------------
(***************************************************************************)
(* The running counts of RequestScheduler: slots that are taken, collected *)
(* and given back, and why a freed slot never idles beside a waiter.       *)
(***************************************************************************)
EXTENDS SchedulerQueueProofs, FiniteSetTheorems

\* A leaf that names no prover is tried with these, in this order.
USE SMTT(30), ZenonT(30), Z3T(30)

-----------------------------------------------------------------------------
(* What every critical section preserves *)

\* The counters stay below the limits they are compared with.
Capped(g) ==
  /\ g.global_running <= MaxTotal
  /\ \A a \in Address : g.address_running[a] <= MaxPerAddress
  /\ g.queued <= MaxQueued

\* What every critical section preserves of the state behind the mutex, for
\* the set P of permits that are out.
Sound(g, P) ==
  /\ g \in GlobalState
  /\ Counted(g, P)
  /\ Indexed(g)
  /\ Capped(g)

\* A slot is taken: one count of the sum grows.
LEMMA OneMore ==
  ASSUME NEW p \in Nat, NEW x \in Nat
  PROVE  (p + x) + 1 = (p + 1) + x
  OBVIOUS

\* A promoted waiter becomes a permit: the sum stays.
LEMMA OneMoved ==
  ASSUME NEW p \in Nat, NEW x \in Nat
  PROVE  p + x = (p + 1) + (x - 1)
  OBVIOUS

\* A slot is given back: one count of the sum shrinks.
LEMMA OneLess ==
  ASSUME NEW p \in Nat, NEW x \in Nat, p - 1 \in Nat
  PROVE  /\ SaturatingSub1(p + x) = (p - 1) + x /\ SaturatingSub1(p + x) = (p + x) - 1
         /\ SaturatingSub1(x + p) = x + (p - 1) /\ SaturatingSub1(x + p) = (x + p) - 1
  BY DEF SaturatingSub1

\* The sets that are counted are finite.
LEMMA FiniteCounts ==
  ASSUME NEW g \in GlobalState, NEW P \in SUBSET Request
  PROVE  /\ IsFiniteSet(P) /\ IsFiniteSet(AdmittedKeys(g)) /\ IsFiniteSet(QueuedKeys(g))
         /\ \A a \in Address : IsFiniteSet(PermitsAt(P, a)) /\ IsFiniteSet(AdmittedAt(g, a))
<1>1. /\ P \subseteq Request /\ AdmittedKeys(g) \subseteq Key /\ QueuedKeys(g) \subseteq Key
      /\ \A a \in Address : PermitsAt(P, a) \subseteq Request /\ AdmittedAt(g, a) \subseteq Key
  BY DEF AdmittedKeys, QueuedKeys, PermitsAt, AdmittedAt
<1>2. QED
  BY <1>1, SchedulerAssumption, FS_Subset

\* A promotion that the limits allow keeps the state sound.
LEMMA PromoteSound ==
  ASSUME NEW g, NEW P \in SUBSET Request, Sound(g, P), NEW k \in QueuedKeys(g),
         WaiterIsEligible(g, k), HasGlobalCapacity(g)
  PROVE  Sound(Promote(g, k), P)
<1> DEFINE h == Promote(g, k)
           b == g.waiters[k].address
<1>0. g \in GlobalState /\ Counted(g, P) /\ Indexed(g) /\ Capped(g)
  BY DEF Sound
<1>1. /\ h \in GlobalState
      /\ h.global_running = g.global_running + 1
      /\ h.queued = SaturatingSub1(g.queued)
      /\ h.next_seq = g.next_seq
      /\ h.ordered = g.ordered \ {<<g.waiters[k].urgency, g.waiters[k].seq, k>>}
      /\ h.fifo = RemoveFromFifo(g.fifo, k)
      /\ h.address_running = [g.address_running EXCEPT ![b] = @ + 1]
  <2>1. PromotesTo(g, k, h)
    BY <1>0, PromoteFields
  <2>2. QED
    BY <2>1 DEF PromotesTo
<1>2. /\ QueuedKeys(h) = QueuedKeys(g) \ {k}
      /\ AdmittedKeys(h) = AdmittedKeys(g) \cup {k}
      /\ k \notin AdmittedKeys(g)
      /\ \A j \in Key : j # k => h.waiters[j] = g.waiters[j]
      /\ h.waiters[k].address = b
      /\ b \in Address
  BY <1>0, PromoteFields, PromoteMoves
<1> HIDE DEF h
<1>3. Indexed(h)
  <2>1. \A j \in QueuedKeys(h) : h.waiters[j] = g.waiters[j]
    BY <1>2 DEF QueuedKeys
  <2>2. QED
    <3>1. LeavesQueue(g, k, h)
      BY <1>1, <1>2, <2>1 DEF LeavesQueue
    <3>2. QED
      BY <1>0, <1>1, <3>1, IndexedDequeue
<1>4. Counted(h, P)
  <2>1. h.global_running = Cardinality(P) + Cardinality(AdmittedKeys(h))
    <3>1. Cardinality(AdmittedKeys(h)) = Cardinality(AdmittedKeys(g)) + 1
      BY <1>0, <1>2, FiniteCounts, FS_AddElement, ZenonT(30)
    <3>2. Cardinality(P) \in Nat /\ Cardinality(AdmittedKeys(g)) \in Nat
      BY <1>0, FiniteCounts, FS_CardinalityType
    <3>3. QED
      BY <1>0, <1>1, <3>1, <3>2 DEF Counted
  <2>2. ASSUME NEW a \in Address
        PROVE  h.address_running[a] =
                 Cardinality(PermitsAt(P, a)) + Cardinality(AdmittedAt(h, a))
    <3>1. /\ Cardinality(PermitsAt(P, a)) \in Nat /\ Cardinality(AdmittedAt(g, a)) \in Nat
          /\ IsFiniteSet(AdmittedAt(g, a))
      BY <1>0, FiniteCounts, FS_CardinalityType, Zenon
    <3>2. CASE a = b
      <4>1. AdmittedAt(h, a) = AdmittedAt(g, a) \cup {k} /\ k \notin AdmittedAt(g, a)
        BY <1>2, <3>2 DEF AdmittedAt, AdmittedKeys
      <4>2. Cardinality(AdmittedAt(h, a)) = Cardinality(AdmittedAt(g, a)) + 1
        BY <4>1, <3>1, FS_AddElement, Zenon
      <4>3. h.address_running[a] = g.address_running[a] + 1
        BY <1>0, <1>1, <3>2 DEF GlobalState
      <4>4. QED
        BY <1>0, <4>2, <4>3, <3>1 DEF Counted
    <3>3. CASE a # b
      <4>1. AdmittedAt(h, a) = AdmittedAt(g, a)
        BY <1>2, <3>3 DEF AdmittedAt, AdmittedKeys
      <4>2. h.address_running[a] = g.address_running[a]
        BY <1>0, <1>1, <3>3 DEF GlobalState
      <4>3. QED
        BY <1>0, <4>1, <4>2 DEF Counted
    <3>4. QED
      BY <3>2, <3>3
  <2>3. h.queued = Cardinality(QueuedKeys(h))
    <3>1. Cardinality(QueuedKeys(h)) = Cardinality(QueuedKeys(g)) - 1
      BY <1>0, <1>2, FiniteCounts, FS_RemoveElement, Zenon
    <3>2. Cardinality(QueuedKeys(g)) \in Nat /\ Cardinality(QueuedKeys(h)) \in Nat
      BY <1>0, <1>1, FiniteCounts, FS_CardinalityType, Zenon
    <3>3. QED
      BY <1>0, <1>1, <3>1, <3>2 DEF Counted, SaturatingSub1
  <2>4. QED
    BY <2>1, <2>2, <2>3 DEF Counted
<1>5. Capped(h)
  <2>1. h.global_running <= MaxTotal
    BY <1>0, <1>1, SchedulerAssumption DEF HasGlobalCapacity, GlobalState
  <2>2. h.queued <= MaxQueued
    BY <1>0, <1>1, SchedulerAssumption DEF Capped, SaturatingSub1, GlobalState
  <2>3. ASSUME NEW a \in Address
        PROVE  h.address_running[a] <= MaxPerAddress
    <3>1. g.address_running[b] < MaxPerAddress
      BY DEF WaiterIsEligible, AddressHasCapacity
    <3>2. g.address_running[a] <= MaxPerAddress /\ g.address_running[a] \in Nat
      BY <1>0 DEF Capped, GlobalState
    <3>3. h.address_running[a] = IF a = b THEN g.address_running[a] + 1
                                          ELSE g.address_running[a]
      BY <1>0, <1>1, ZenonT(30) DEF GlobalState
    <3>4. QED
      BY <3>1, <3>2, <3>3, SchedulerAssumption
  <2>4. QED
    BY <2>1, <2>2, <2>3 DEF Capped
<1>6. QED
  BY <1>1, <1>3, <1>4, <1>5 DEF Sound, h

\* try_promote keeps the state sound, and leaves no slot free for a waiter.
LEMMA TryPromoteSound ==
  ASSUME NEW g, NEW P \in SUBSET Request, Sound(g, P)
  PROVE  Sound(TryPromote(g), P)
<1>1. CASE Promoted(g) = NoKey
  BY <1>1 DEF TryPromote
<1>2. CASE Promoted(g) # NoKey
  <2>1. /\ Promoted(g) \in QueuedKeys(g) /\ WaiterIsEligible(g, Promoted(g))
        /\ HasGlobalCapacity(g)
    BY <1>2, SelectSound DEF Sound
  <2>2. QED
    BY <1>2, <2>1, PromoteSound DEF TryPromote
<1>3. QED
  BY <1>1, <1>2

-----------------------------------------------------------------------------
(* The queue gains or loses a waiter *)

DequeuesTo(e, w, k, h) == h = DequeueWaiter(e, w.urgency, w.seq, k)

\* A queued waiter leaves the slab and both indexes; no slot changes hands.
LEMMA CancelQueuedSound ==
  ASSUME NEW P \in SUBSET Request, NEW g, Sound(g, P), Conserving(g),
         NEW k \in QueuedKeys(g), NEW e, Vacates(g, k, e),
         NEW h, DequeuesTo(e, g.waiters[k], k, h)
  PROVE  Sound(h, P) /\ Conserving(h) /\ h.waiters = e.waiters
<1>0. g \in GlobalState /\ Counted(g, P) /\ Indexed(g) /\ Capped(g) /\ e \in GlobalState
  BY DEF Sound, Vacates
<1>1. /\ h.ordered = g.ordered \ {<<g.waiters[k].urgency, g.waiters[k].seq, k>>}
      /\ h.fifo = RemoveFromFifo(g.fifo, k)
      /\ h.next_seq = g.next_seq
  BY <1>0 DEF DequeuesTo, DequeueWaiter, GlobalState, Vacates
<1>q. h.queued = SaturatingSub1(g.queued) /\ g.queued \in Nat
  BY <1>0 DEF DequeuesTo, DequeueWaiter, GlobalState, Vacates
<1>w. h.waiters = e.waiters
  BY <1>0 DEF DequeuesTo, DequeueWaiter, GlobalState
<1>r. h.global_running = g.global_running /\ h.address_running = g.address_running
  BY <1>0 DEF DequeuesTo, DequeueWaiter, GlobalState, Vacates
<1>2. h.fifo \in Seq(Key)
  <2>1. g.fifo \in Seq(Key) /\ Distinct(g.fifo) /\ k \in Entries(g.fifo)
    BY <1>0, IndexedDistinct, Zenon DEF GlobalState
  <2>2. Shortened(g.fifo, k, h.fifo)
    BY <1>1, <2>1, FifoRemoval, Zenon
  <2>3. QED
    BY <2>2 DEF Shortened
<1>3. h \in GlobalState
  <2>1. h = [e EXCEPT !.ordered = h.ordered, !.fifo = h.fifo, !.queued = h.queued]
    BY <1>0 DEF DequeuesTo, DequeueWaiter, GlobalState
  <2>2. h.queued \in Nat
    BY <1>q DEF SaturatingSub1
  <2>3. h.ordered \in SUBSET ((0..7) \X Nat \X Key)
    BY <1>0, <1>1, Zenon DEF GlobalState
  <2>4. QED
    BY <1>0, <1>2, <2>1, <2>2, <2>3, Zenon DEF GlobalState
<1>4. /\ AdmittedKeys(h) = AdmittedKeys(e) /\ QueuedKeys(h) = QueuedKeys(g) \ {k}
      /\ AdmittedKeys(e) = AdmittedKeys(g)
  BY <1>w, ZenonT(30) DEF AdmittedKeys, QueuedKeys, Vacates
<1>5. \A j \in Key : j # k => h.waiters[j] = g.waiters[j]
  BY <1>w DEF Vacates
<1>6. \A a \in Address : AdmittedAt(h, a) = AdmittedAt(g, a)
  <2>1. \A j \in AdmittedKeys(g) : h.waiters[j] = g.waiters[j]
    BY <1>5 DEF AdmittedKeys, QueuedKeys
  <2>2. QED
    BY <1>4, <2>1 DEF AdmittedAt
<1>7. Indexed(h)
  <2>1. \A j \in QueuedKeys(h) : h.waiters[j] = g.waiters[j]
    BY <1>4, <1>5 DEF QueuedKeys
  <2>2. QED
    <3>1. LeavesQueue(g, k, h)
      BY <1>1, <1>4, <2>1 DEF LeavesQueue
    <3>2. QED
      BY <1>0, <1>3, <3>1, IndexedDequeue
<1>8. Counted(h, P)
  <2>1. IsFiniteSet(QueuedKeys(g)) /\ Cardinality(QueuedKeys(g)) \in Nat
    BY <1>0, FiniteCounts, FS_CardinalityType
  <2>2. /\ Cardinality(QueuedKeys(g) \ {k}) = Cardinality(QueuedKeys(g)) - 1
        /\ IsFiniteSet(QueuedKeys(g) \ {k})
    BY <2>1, FS_RemoveElement
  <2>3. Cardinality(QueuedKeys(g) \ {k}) \in Nat
    BY <2>2, FS_CardinalityType
  <2>4. g.queued = Cardinality(QueuedKeys(g))
    BY <1>0 DEF Counted
  <2>5. h.queued = Cardinality(QueuedKeys(h))
    BY <1>q, <1>4, <2>1, <2>2, <2>3, <2>4 DEF SaturatingSub1
  <2>6. QED
    BY <1>0, <1>r, <1>4, <1>6, <2>5, Zenon DEF Counted
<1>9. Capped(h)
  <2>1. h.queued <= MaxQueued
    BY <1>0, <1>q, SchedulerAssumption DEF Capped, SaturatingSub1
  <2>2. QED
    BY <1>0, <1>r, <2>1 DEF Capped
<1>10. Conserving(h)
  <2>1. \A j \in QueuedKeys(h) : j \in QueuedKeys(g) /\ h.waiters[j] = g.waiters[j]
    BY <1>4, <1>5 DEF QueuedKeys
  <2>2. QED
    BY <1>r, <2>1 DEF Conserving, HasGlobalCapacity, WaiterIsEligible, AddressHasCapacity
<1>11. QED
  BY <1>w, <1>3, <1>7, <1>8, <1>9, <1>10, Zenon DEF Sound

EnqueuesTo(g, k, v, h) ==
  h = EnqueueWaiter([g EXCEPT !.next_seq = @ + 1, !.waiters[k] = v],
                    v.urgency, v.seq, k)

\* v is a new waiter that cannot run, k a free key, and the queue has room.
MayQueue(P, g, k, v) ==
  /\ P \in SUBSET Request /\ Sound(g, P) /\ Conserving(g)
  /\ k \in Key /\ g.waiters[k] = Vacant /\ g.queued < MaxQueued
  /\ v \in Waiter /\ v.seq = g.next_seq /\ ~v.admitted
  /\ ~(HasGlobalCapacity(g) /\ AddressHasCapacity(g, v.address))

\* A waiter that cannot run is queued: it is the last of both indexes' seq
\* order, and nothing became eligible.
LEMMA EnqueueSound ==
  ASSUME NEW P, NEW g, NEW k, NEW v, MayQueue(P, g, k, v), NEW h, EnqueuesTo(g, k, v, h)
  PROVE  /\ Sound(h, P) /\ Conserving(h)
         /\ h.waiters[k] = v /\ \A j \in Key : j # k => h.waiters[j] = g.waiters[j]
<1> SUFFICES ASSUME P \in SUBSET Request, Sound(g, P), Conserving(g),
                    k \in Key, g.waiters[k] = Vacant, g.queued < MaxQueued,
                    v \in Waiter, v.seq = g.next_seq, ~v.admitted,
                    ~(HasGlobalCapacity(g) /\ AddressHasCapacity(g, v.address))
             PROVE  /\ Sound(h, P) /\ Conserving(h)
                    /\ h.waiters[k] = v
                    /\ \A j \in Key : j # k => h.waiters[j] = g.waiters[j]
  BY DEF MayQueue
<1>0. g \in GlobalState /\ Counted(g, P) /\ Indexed(g) /\ Capped(g)
  BY DEF Sound
<1>o. h.ordered = g.ordered \cup {<<v.urgency, v.seq, k>>}
  BY <1>0 DEF EnqueuesTo, EnqueueWaiter, GlobalState
<1>f. h.fifo = Append(g.fifo, k)
  BY <1>0 DEF EnqueuesTo, EnqueueWaiter, GlobalState
<1>q. h.queued = g.queued + 1 /\ g.queued \in Nat
  BY <1>0 DEF EnqueuesTo, EnqueueWaiter, GlobalState
<1>s. h.next_seq = g.next_seq + 1 /\ g.next_seq \in Nat
  BY <1>0 DEF EnqueuesTo, EnqueueWaiter, GlobalState
<1>w. h.waiters = [g.waiters EXCEPT ![k] = v]
  BY <1>0 DEF EnqueuesTo, EnqueueWaiter, GlobalState
<1>r. h.global_running = g.global_running /\ h.address_running = g.address_running
  BY <1>0 DEF EnqueuesTo, EnqueueWaiter, GlobalState
<1>2. h \in GlobalState
  <2>1. h = [g EXCEPT !.ordered = h.ordered, !.fifo = h.fifo, !.queued = h.queued,
                      !.next_seq = h.next_seq, !.waiters = h.waiters]
    BY <1>0, <1>o, <1>f, <1>q, <1>s, <1>w, ZenonT(30) DEF EnqueuesTo, EnqueueWaiter, GlobalState
  <2>2. h.queued \in Nat /\ h.next_seq \in Nat
    BY <1>q, <1>s
  <2>3. h.ordered \in SUBSET ((0..7) \X Nat \X Key)
    BY <1>0, <1>o DEF GlobalState, Waiter
  <2>4. h.fifo \in Seq(Key)
    <3>1. g.fifo \in Seq(Key)
      BY <1>0 DEF GlobalState
    <3>2. Append(g.fifo, k) \in Seq(Key)
      BY <3>1, AppendType
    <3>3. QED
      BY <1>f, <3>2
  <2>5. h.waiters \in [Key -> Waiter \cup {Vacant}]
    BY <1>0, <1>w DEF GlobalState
  <2>6. QED
    BY <1>0, <2>1, <2>2, <2>3, <2>4, <2>5, Zenon DEF GlobalState
<1>3. h.waiters[k] = v /\ \A j \in Key : j # k => h.waiters[j] = g.waiters[j]
  BY <1>0, <1>w DEF GlobalState
<1>4. v # Vacant
  BY VacantAssumption
<1>5. /\ AdmittedKeys(h) = AdmittedKeys(g)
      /\ QueuedKeys(h) = QueuedKeys(g) \cup {k} /\ k \notin QueuedKeys(g)
  BY <1>3, <1>4 DEF AdmittedKeys, QueuedKeys
<1>6. \A a \in Address : AdmittedAt(h, a) = AdmittedAt(g, a)
  <2>1. \A j \in AdmittedKeys(g) : h.waiters[j] = g.waiters[j]
    BY <1>3 DEF AdmittedKeys
  <2>2. QED
    BY <1>5, <2>1 DEF AdmittedAt
<1>7. \A j \in QueuedKeys(g) : h.waiters[j] = g.waiters[j]
  BY <1>3, <1>5 DEF QueuedKeys
<1>8. Counted(h, P)
  <2>1. IsFiniteSet(QueuedKeys(g)) /\ Cardinality(QueuedKeys(g)) \in Nat
    BY <1>0, FiniteCounts, FS_CardinalityType, ZenonT(30)
  <2>2. Cardinality(QueuedKeys(g) \cup {k}) = Cardinality(QueuedKeys(g)) + 1
    BY <1>5, <2>1, FS_AddElement, ZenonT(30)
  <2>3. h.queued = Cardinality(QueuedKeys(h))
    BY <1>0, <1>q, <1>5, <2>1, <2>2 DEF Counted
  <2>4. QED
    BY <1>0, <1>r, <1>5, <1>6, <2>3, ZenonT(30) DEF Counted
<1>9. Indexed(h)
  <2> DEFINE n == Len(g.fifo)
  <2>1. /\ g.fifo \in Seq(Key) /\ n \in Nat /\ Len(h.fifo) = n + 1 /\ h.fifo[n + 1] = k
        /\ \A i \in 1..n : h.fifo[i] = g.fifo[i]
    BY <1>0, <1>f DEF GlobalState
  <2>f. \A i \in 1..n : g.fifo[i] \in QueuedKeys(g)
    BY <1>0 DEF Indexed
  <2>2. Entries(h.fifo) = Entries(g.fifo) \cup {k}
    <3>1. /\ n + 1 \in 1..(n + 1) /\ \A i \in 1..n : i \in 1..(n + 1)
          /\ \A i \in 1..(n + 1) : i \in 1..n \/ i = n + 1
      BY <2>1
    <3>2. ASSUME NEW x \in Entries(h.fifo) PROVE x \in Entries(g.fifo) \cup {k}
      <4>1. PICK i \in 1..(n + 1) : x = h.fifo[i]
        BY <2>1, ZenonT(30) DEF Entries
      <4>2. QED
        BY <2>1, <3>1, <4>1, ZenonT(30) DEF Entries
    <3>3. ASSUME NEW x \in Entries(g.fifo) PROVE x \in Entries(h.fifo)
      <4>1. PICK i \in 1..n : x = g.fifo[i]
        BY ZenonT(30) DEF Entries
      <4>2. i \in 1..(n + 1) /\ x = h.fifo[i]
        BY <2>1, <3>1, <4>1, ZenonT(30)
      <4>3. QED
        BY <2>1, <4>2, ZenonT(30) DEF Entries
    <3>4. k \in Entries(h.fifo)
      BY <2>1, <3>1, ZenonT(30) DEF Entries
    <3>5. QED
      BY <3>2, <3>3, <3>4, ZenonT(30)
  <2>3. Entries(h.fifo) = QueuedKeys(h)
    BY <1>0, <1>5, <2>2, IndexedDistinct
  <2>4. h.ordered = {<<h.waiters[j].urgency, h.waiters[j].seq, j>> : j \in QueuedKeys(h)}
    <3>1. g.ordered = {<<g.waiters[j].urgency, g.waiters[j].seq, j>> : j \in QueuedKeys(g)}
      BY <1>0 DEF Indexed
    <3>2. g.ordered = {<<h.waiters[j].urgency, h.waiters[j].seq, j>> : j \in QueuedKeys(g)}
      BY <1>7, <3>1
    <3>3. h.ordered = g.ordered \cup {<<h.waiters[k].urgency, h.waiters[k].seq, k>>}
      BY <1>o, <1>3
    <3>4. QED
      BY <1>5, <3>2, <3>3
  <2>5. \A j \in QueuedKeys(h) : h.waiters[j].seq < h.next_seq
    <3>1. \A j \in QueuedKeys(g) : g.waiters[j].seq \in Nat
      BY <1>0 DEF GlobalState, QueuedKeys, Waiter
    <3>2. \A j \in QueuedKeys(g) : g.waiters[j].seq < g.next_seq
      BY <1>0 DEF Indexed
    <3>3. \A j \in QueuedKeys(g) : h.waiters[j].seq < h.next_seq
      BY <1>s, <1>7, <3>1, <3>2
    <3>4. h.waiters[k].seq < h.next_seq
      BY <1>s, <1>3
    <3>5. QED
      BY <1>5, <3>3, <3>4
  <2>6. ASSUME NEW i \in 1..Len(h.fifo), NEW j \in 1..Len(h.fifo), i < j
        PROVE  h.waiters[h.fifo[i]].seq < h.waiters[h.fifo[j]].seq
    <3>1. i \in 1..n /\ g.fifo[i] \in QueuedKeys(g) /\ h.fifo[i] = g.fifo[i]
      <4>1. i \in 1..n
        BY <2>1, <2>6
      <4>2. QED
        BY <2>1, <2>f, <4>1
    <3>2. CASE j = n + 1
      <4>1. g.waiters[g.fifo[i]].seq < g.next_seq
        BY <1>0, <3>1 DEF Indexed
      <4>2. QED
        BY <1>3, <1>7, <2>1, <3>1, <3>2, <4>1, ZenonT(30)
    <3>3. CASE j # n + 1
      <4>1. j \in 1..n /\ h.fifo[j] = g.fifo[j]
        BY <2>1, <2>6, <3>3
      <4>2. g.fifo[j] \in QueuedKeys(g)
        BY <2>f, <4>1
      <4>3. g.waiters[g.fifo[i]].seq < g.waiters[g.fifo[j]].seq
        BY <1>0, <2>6, <3>1, <4>1 DEF Indexed
      <4>4. QED
        BY <1>7, <3>1, <4>1, <4>2, <4>3
    <3>4. QED
      BY <3>2, <3>3
  <2>7. QED
    BY <2>3, <2>4, <2>5, <2>6 DEF Indexed, Entries
<1>10. Capped(h)
  <2>1. h.queued <= MaxQueued
    BY <1>0, <1>q, SchedulerAssumption
  <2>2. QED
    BY <1>0, <1>r, <2>1 DEF Capped
<1>11. Conserving(h)
  BY <1>r, <1>3, <1>5, <1>7 DEF Conserving, HasGlobalCapacity, WaiterIsEligible,
                                 AddressHasCapacity
<1>12. QED
  BY <1>2, <1>3, <1>8, <1>9, <1>10, <1>11 DEF Sound

-----------------------------------------------------------------------------
(* Giving a slot back: release, and the cancellation of a promoted waiter *)

GivesBack(g, d, a) ==
  /\ d \in GlobalState
  /\ d.global_running = SaturatingSub1(g.global_running)
  /\ d.address_running = [g.address_running EXCEPT ![a] = SaturatingSub1(@)]
  /\ d.queued = g.queued /\ d.next_seq = g.next_seq
  /\ d.waiters = g.waiters /\ d.ordered = g.ordered /\ d.fifo = g.fifo

\* What the release does before it promotes, field by field.
LEMMA GiveBackFields ==
  ASSUME NEW g \in GlobalState, NEW a \in Address
  PROVE  GivesBack(g, WakeReadyWaiters(DropAddressRunning(g, a)), a)
<1>1. ASSUME NEW e, e = DropAddressRunning(g, a)
      PROVE  GivesBack(g, e, a)
  <2>1. /\ e.global_running = SaturatingSub1(g.global_running)
        /\ e.address_running = [g.address_running EXCEPT ![a] = SaturatingSub1(@)]
        /\ e.queued = g.queued /\ e.next_seq = g.next_seq
        /\ e.waiters = g.waiters /\ e.ordered = g.ordered /\ e.fifo = g.fifo
    BY <1>1 DEF DropAddressRunning, GlobalState
  <2>2. e.global_running \in Nat /\ e.address_running \in [Address -> Nat]
    <3>1. g.global_running \in Nat /\ g.address_running \in [Address -> Nat]
      BY DEF GlobalState
    <3>2. QED
      BY <2>1, <3>1 DEF SaturatingSub1
  <2>3. e = [g EXCEPT !.global_running = e.global_running,
                      !.address_running = e.address_running]
    BY <1>1, <2>1, Zenon DEF DropAddressRunning, GlobalState
  <2>4. e \in GlobalState
    BY <2>2, <2>3, Zenon DEF GlobalState
  <2>5. QED
    BY <2>1, <2>4 DEF GivesBack
<1>2. ASSUME NEW e, GivesBack(g, e, a), NEW d, d = WakeReadyWaiters(e)
      PROVE  GivesBack(g, d, a)
  <2>1. CASE ReadyWoken(e) = {}
    BY <1>2, <2>1 DEF WakeReadyWaiters
  <2>2. CASE ReadyWoken(e) # {}
    <3>1. d = [e EXCEPT !.ready_waiters = Tail(e.ready_waiters)]
      BY <1>2, <2>2 DEF WakeReadyWaiters
    <3>2. Tail(e.ready_waiters) \in Seq(Poller)
      BY <1>2, <2>2 DEF ReadyWoken, GivesBack, GlobalState
    <3>3. d \in GlobalState
      BY <1>2, <3>1, <3>2, Zenon DEF GivesBack, GlobalState
    <3>4. QED
      BY <1>2, <3>1, <3>3, Zenon DEF GivesBack, GlobalState
  <2>3. QED
    BY <2>1, <2>2
<1>3. QED
  BY <1>1, <1>2

\* One slot of address a came free between g and d.
Freed(g, d, a) ==
  /\ d.global_running = g.global_running - 1
  /\ d.address_running = [g.address_running EXCEPT ![a] = @ - 1]
  /\ QueuedKeys(d) = QueuedKeys(g)
  /\ \A j \in QueuedKeys(g) : d.waiters[j] = g.waiters[j]

\* The freed slot is handed on: after try_promote no waiter could still run,
\* because only the waiters of one address became eligible, or all of them
\* did for one slot of the total.
LEMMA HandsOver ==
  ASSUME NEW g \in GlobalState, Conserving(g), NEW a \in Address,
         NEW P \in SUBSET Request, NEW d, Sound(d, P), Freed(g, d, a)
  PROVE  Conserving(TryPromote(d))
<1>0. d \in GlobalState /\ Indexed(d)
  BY DEF Sound
<1>1. CASE Promoted(d) = NoKey
  BY <1>0, <1>1, SelectComplete DEF TryPromote
<1>2. CASE Promoted(d) # NoKey
  <2> DEFINE k == Promoted(d)
             h == Promote(d, k)
             b == d.waiters[k].address
  <2>1. k \in QueuedKeys(d) /\ WaiterIsEligible(d, k)
    BY <1>0, <1>2, SelectSound
  <2>2. PromotesTo(d, k, h)
    BY <1>0, <2>1, PromoteFields
  <2>3. /\ QueuedKeys(h) = QueuedKeys(d) \ {k} /\ b \in Address
        /\ \A j \in Key : j # k => h.waiters[j] = d.waiters[j]
    BY <1>0, <2>1, <2>2, PromoteMoves
  <2>4. TryPromote(d) = h
    BY <1>2 DEF TryPromote
  <2> HIDE DEF k, h
  <2>5. h.global_running = g.global_running
    <3>1. d.global_running = g.global_running - 1 /\ g.global_running \in Nat
      BY DEF Freed, GlobalState
    <3>2. h.global_running = d.global_running + 1
      BY <2>2, ZenonT(30) DEF PromotesTo
    <3>3. QED
      BY <3>1, <3>2
  <2>6. CASE ~HasGlobalCapacity(g)
    BY <2>4, <2>5, <2>6 DEF Conserving, HasGlobalCapacity
  <2>7. CASE HasGlobalCapacity(g)
    <3>1. \A j \in QueuedKeys(g) : ~WaiterIsEligible(g, j)
      BY <2>7 DEF Conserving
    <3>2. k \in QueuedKeys(g) /\ d.waiters[k] = g.waiters[k] /\ k \in Key
      BY <2>1 DEF Freed, QueuedKeys
    <3>3. b = a
      <4>1. ~(g.address_running[b] < MaxPerAddress)
        BY <2>1, <3>1, <3>2 DEF WaiterIsEligible, AddressHasCapacity
      <4>2. d.address_running[b] < MaxPerAddress
        BY <2>1 DEF WaiterIsEligible, AddressHasCapacity
      <4>3. b # a => d.address_running[b] = g.address_running[b]
        BY <2>3 DEF Freed, GlobalState
      <4>4. QED
        BY <4>1, <4>2, <4>3
    <3>4. \A c \in Address : h.address_running[c] = g.address_running[c]
      <4>1. h.address_running = [d.address_running EXCEPT ![a] = @ + 1]
        BY <2>2, <3>3 DEF PromotesTo
      <4>2. d.address_running = [g.address_running EXCEPT ![a] = @ - 1]
        BY DEF Freed
      <4>3. QED
        BY <4>1, <4>2 DEF GlobalState
    <3>5. ASSUME NEW j \in QueuedKeys(h)
          PROVE  ~WaiterIsEligible(h, j)
      <4>1. j \in QueuedKeys(g) /\ h.waiters[j] = g.waiters[j]
        BY <2>3 DEF Freed, QueuedKeys
      <4>2. h.waiters[j].address \in Address
        BY <4>1 DEF QueuedKeys, GlobalState, Waiter
      <4>3. QED
        BY <3>1, <3>4, <4>1, <4>2 DEF WaiterIsEligible, AddressHasCapacity
    <3>6. QED
      BY <2>4, <3>5 DEF Conserving
  <2>8. QED
    BY <2>6, <2>7
<1>3. QED
  BY <1>1, <1>2

\* Indexes and limits are not disturbed by a slot that is given back.
LEMMA GivesBackKeeps ==
  ASSUME NEW g \in GlobalState, Indexed(g), Capped(g), NEW a \in Address,
         NEW d, GivesBack(g, d, a)
  PROVE  Indexed(d) /\ Capped(d)
<1>1. d \in GlobalState
  BY DEF GivesBack
<1>2. Indexed(d)
  <2>1. QueuedKeys(d) = QueuedKeys(g)
    BY DEF QueuedKeys, GivesBack
  <2>2. QED
    <3>1. SameQueue(g, d)
      BY <2>1 DEF GivesBack, SameQueue
    <3>2. QED
      BY <1>1, <3>1, IndexedSame
<1>3. Capped(d)
  <2>1. d.global_running <= MaxTotal /\ d.queued <= MaxQueued
    BY SchedulerAssumption DEF Capped, GivesBack, SaturatingSub1, GlobalState
  <2>2. ASSUME NEW c \in Address
        PROVE  d.address_running[c] <= MaxPerAddress
    <3>1. g.address_running[c] \in Nat /\ g.address_running[c] <= MaxPerAddress
      BY DEF Capped, GlobalState
    <3>2. d.address_running[c] \in {g.address_running[c], SaturatingSub1(g.address_running[c])}
      BY DEF GivesBack, GlobalState
    <3>3. QED
      BY <3>1, <3>2, SchedulerAssumption DEF SaturatingSub1
  <2>3. QED
    BY <2>1, <2>2 DEF Capped
<1>4. QED
  BY <1>2, <1>3

\* Dropping a permit frees one slot of its address.
LEMMA ReleaseFrees ==
  ASSUME NEW P \in SUBSET Request, NEW g, Sound(g, P), NEW r \in P,
         NEW d, GivesBack(g, d, AddressOf[r])
  PROVE  Sound(d, P \ {r}) /\ Freed(g, d, AddressOf[r])
<1> DEFINE a == AddressOf[r]
           Q == P \ {r}
<1>0. g \in GlobalState /\ Counted(g, P) /\ Indexed(g) /\ Capped(g)
  BY DEF Sound
<1>1. a \in Address /\ Q \in SUBSET Request /\ d \in GlobalState
  BY SchedulerAssumption DEF GivesBack
<1>2. AdmittedKeys(d) = AdmittedKeys(g) /\ QueuedKeys(d) = QueuedKeys(g)
  BY DEF AdmittedKeys, QueuedKeys, GivesBack
<1>3. \A c \in Address : AdmittedAt(d, c) = AdmittedAt(g, c)
  BY <1>2 DEF AdmittedAt, GivesBack
<1>4. /\ d.global_running = g.global_running - 1
      /\ d.global_running = Cardinality(Q) + Cardinality(AdmittedKeys(d))
  <2>1. Cardinality(Q) = Cardinality(P) - 1
    BY <1>0, FiniteCounts, FS_RemoveElement, Zenon
  <2>2. /\ Cardinality(P) \in Nat /\ Cardinality(Q) \in Nat
        /\ Cardinality(AdmittedKeys(g)) \in Nat
    BY <1>0, <1>1, FiniteCounts, FS_CardinalityType
  <2>3. g.global_running = Cardinality(P) + Cardinality(AdmittedKeys(g))
    BY <1>0 DEF Counted
  <2>4. QED
    BY <1>2, <2>1, <2>2, <2>3 DEF GivesBack, SaturatingSub1
<1>5. ASSUME NEW c \in Address
      PROVE  /\ d.address_running[c] =
                  Cardinality(PermitsAt(Q, c)) + Cardinality(AdmittedAt(d, c))
             /\ c = a => d.address_running[c] = g.address_running[c] - 1
             /\ c # a => d.address_running[c] = g.address_running[c]
  <2>1. /\ Cardinality(PermitsAt(P, c)) \in Nat /\ Cardinality(PermitsAt(Q, c)) \in Nat
        /\ Cardinality(AdmittedAt(g, c)) \in Nat /\ IsFiniteSet(PermitsAt(P, c))
    BY <1>0, <1>1, FiniteCounts, FS_CardinalityType, Zenon
  <2>2. g.address_running[c] = Cardinality(PermitsAt(P, c)) + Cardinality(AdmittedAt(g, c))
    BY <1>0 DEF Counted
  <2>3. CASE c = a
    <3>1. PermitsAt(Q, c) = PermitsAt(P, c) \ {r} /\ r \in PermitsAt(P, c)
      BY <2>3 DEF PermitsAt
    <3>2. Cardinality(PermitsAt(Q, c)) = Cardinality(PermitsAt(P, c)) - 1
      <4>1. Cardinality(PermitsAt(P, c) \ {r}) = Cardinality(PermitsAt(P, c)) - 1
        BY <2>1, <3>1, FS_RemoveElement, Zenon
      <4>2. QED
        BY <3>1, <4>1
    <3>3. d.address_running[c] = SaturatingSub1(g.address_running[c])
      BY <1>0, <2>3 DEF GivesBack, GlobalState
    <3>4. /\ d.address_running[c] =
                (Cardinality(PermitsAt(P, c)) - 1) + Cardinality(AdmittedAt(g, c))
          /\ d.address_running[c] = g.address_running[c] - 1
      <4>1. Cardinality(PermitsAt(P, c)) - 1 \in Nat
        BY <2>1, <3>2, ZenonT(30)
      <4>2. LET n == Cardinality(PermitsAt(P, c)) + Cardinality(AdmittedAt(g, c))
            IN  /\ SaturatingSub1(n) =
                     (Cardinality(PermitsAt(P, c)) - 1) + Cardinality(AdmittedAt(g, c))
                /\ SaturatingSub1(n) = n - 1
        BY <2>1, <4>1, OneLess, ZenonT(30)
      <4>3. QED
        BY <2>2, <3>3, <4>2, ZenonT(30)
    <3>5. QED
      BY <1>3, <2>3, <3>2, <3>4, ZenonT(30)
  <2>4. CASE c # a
    <3>1. PermitsAt(Q, c) = PermitsAt(P, c)
      BY <2>4 DEF PermitsAt
    <3>2. d.address_running[c] = g.address_running[c]
      BY <1>0, <2>4 DEF GivesBack, GlobalState
    <3>3. QED
      BY <1>3, <2>2, <2>4, <3>1, <3>2
  <2>5. QED
    BY <2>3, <2>4
<1>6. Counted(d, Q)
  BY <1>0, <1>2, <1>4, <1>5 DEF Counted, GivesBack
<1>7. Freed(g, d, a)
  <2>1. d.address_running = [g.address_running EXCEPT ![a] = @ - 1]
    BY <1>0, <1>1, <1>5, ZenonT(30) DEF GlobalState
  <2>2. QED
    BY <1>2, <1>4, <2>1 DEF Freed, GivesBack
<1>8. QED
  BY <1>0, <1>1, <1>6, <1>7, GivesBackKeeps DEF Sound

\* Dropping an acquire future whose waiter was promoted frees its slot too.
LEMMA CancelFrees ==
  ASSUME NEW P \in SUBSET Request, NEW g, Sound(g, P), NEW k \in AdmittedKeys(g),
         NEW e, e = [g EXCEPT !.waiters[k] = Vacant],
         NEW d, GivesBack(e, d, g.waiters[k].address)
  PROVE  Sound(d, P) /\ Freed(g, d, g.waiters[k].address)
<1> DEFINE a == g.waiters[k].address
<1>0. g \in GlobalState /\ Counted(g, P) /\ Indexed(g) /\ Capped(g)
  BY DEF Sound
<1>1. k \in Key /\ g.waiters[k] # Vacant /\ g.waiters[k].admitted /\ k \notin QueuedKeys(g)
  BY DEF AdmittedKeys, QueuedKeys
<1>2. a \in Address /\ d \in GlobalState
  BY <1>0, <1>1 DEF GivesBack, GlobalState, Waiter
<1>3. /\ e \in GlobalState
      /\ e.global_running = g.global_running /\ e.queued = g.queued
      /\ e.next_seq = g.next_seq /\ e.ordered = g.ordered /\ e.fifo = g.fifo
      /\ e.address_running = g.address_running
      /\ \A j \in Key : j # k => e.waiters[j] = g.waiters[j]
      /\ AdmittedKeys(e) = AdmittedKeys(g) \ {k}
      /\ QueuedKeys(e) = QueuedKeys(g)
  <2>1. Vacates(g, k, e)
    BY <1>0, <1>1, VacateFields
  <2>2. QED
    BY <1>1, <2>1, ZenonT(30) DEF Vacates
<1>4. AdmittedKeys(d) = AdmittedKeys(g) \ {k} /\ QueuedKeys(d) = QueuedKeys(g)
  BY <1>3 DEF AdmittedKeys, QueuedKeys, GivesBack
<1>5. \A j \in Key : j # k => d.waiters[j] = g.waiters[j]
  BY <1>3 DEF GivesBack
<1>6. Indexed(e) /\ Capped(e)
  <2>1. \A j \in QueuedKeys(g) : /\ e.waiters[j].urgency = g.waiters[j].urgency
                                  /\ e.waiters[j].seq = g.waiters[j].seq
    BY <1>1, <1>3 DEF QueuedKeys
  <2>2. Indexed(e)
    <3>1. SameQueue(g, e)
      BY <1>3, <2>1 DEF SameQueue
    <3>2. QED
      BY <1>0, <1>3, <3>1, IndexedSame
  <2>3. QED
    BY <1>0, <1>3, <2>2 DEF Capped
<1>7. /\ d.global_running = g.global_running - 1
      /\ d.global_running = Cardinality(P) + Cardinality(AdmittedKeys(d))
  <2>1. Cardinality(AdmittedKeys(d)) = Cardinality(AdmittedKeys(g)) - 1
    <3>1. IsFiniteSet(AdmittedKeys(g))
      BY <1>0, FiniteCounts
    <3>2. Cardinality(AdmittedKeys(g) \ {k}) = Cardinality(AdmittedKeys(g)) - 1
      BY <3>1, FS_RemoveElement, Zenon
    <3>3. QED
      BY <1>4, <3>2
  <2>2. /\ Cardinality(P) \in Nat /\ Cardinality(AdmittedKeys(d)) \in Nat
        /\ Cardinality(AdmittedKeys(g)) \in Nat
    BY <1>0, <1>2, FiniteCounts, FS_CardinalityType
  <2>3. g.global_running = Cardinality(P) + Cardinality(AdmittedKeys(g))
    BY <1>0 DEF Counted
  <2>4. QED
    BY <1>3, <2>1, <2>2, <2>3 DEF GivesBack, SaturatingSub1
<1>8. ASSUME NEW c \in Address
      PROVE  /\ d.address_running[c] =
                  Cardinality(PermitsAt(P, c)) + Cardinality(AdmittedAt(d, c))
             /\ c = a => d.address_running[c] = g.address_running[c] - 1
             /\ c # a => d.address_running[c] = g.address_running[c]
  <2>1. /\ Cardinality(PermitsAt(P, c)) \in Nat /\ Cardinality(AdmittedAt(d, c)) \in Nat
        /\ Cardinality(AdmittedAt(g, c)) \in Nat /\ IsFiniteSet(AdmittedAt(g, c))
    BY <1>0, <1>2, FiniteCounts, FS_CardinalityType, ZenonT(30)
  <2>2. g.address_running[c] = Cardinality(PermitsAt(P, c)) + Cardinality(AdmittedAt(g, c))
    BY <1>0 DEF Counted
  <2>3. CASE c = a
    <3>1. AdmittedAt(d, c) = AdmittedAt(g, c) \ {k} /\ k \in AdmittedAt(g, c)
      BY <1>4, <1>5, <2>3 DEF AdmittedAt, AdmittedKeys
    <3>2. Cardinality(AdmittedAt(g, c) \ {k}) = Cardinality(AdmittedAt(g, c)) - 1
      BY <2>1, <3>1, FS_RemoveElement, Zenon
    <3>3. d.address_running[c] = SaturatingSub1(g.address_running[c])
      BY <1>0, <1>3, <2>3, ZenonT(30) DEF GivesBack, GlobalState
    <3>4. /\ d.address_running[c] =
                Cardinality(PermitsAt(P, c)) + (Cardinality(AdmittedAt(g, c)) - 1)
          /\ d.address_running[c] = g.address_running[c] - 1
      <4>1. Cardinality(AdmittedAt(g, c)) - 1 \in Nat
        BY <2>1, <3>1, <3>2, ZenonT(30)
      <4>2. LET n == Cardinality(PermitsAt(P, c)) + Cardinality(AdmittedAt(g, c))
            IN  /\ SaturatingSub1(n) =
                     Cardinality(PermitsAt(P, c)) + (Cardinality(AdmittedAt(g, c)) - 1)
                /\ SaturatingSub1(n) = n - 1
        BY <2>1, <4>1, OneLess, ZenonT(30)
      <4>3. QED
        BY <2>2, <3>3, <4>2, ZenonT(30)
    <3>5. QED
      BY <2>3, <3>1, <3>2, <3>4, ZenonT(30)
  <2>4. CASE c # a
    <3>1. AdmittedAt(d, c) = AdmittedAt(g, c)
      BY <1>4, <1>5, <2>4 DEF AdmittedAt, AdmittedKeys
    <3>2. d.address_running[c] = g.address_running[c]
      BY <1>0, <1>3, <2>4 DEF GivesBack, GlobalState
    <3>3. QED
      BY <2>2, <2>4, <3>1, <3>2
  <2>5. QED
    BY <2>3, <2>4
<1>9. Counted(d, P)
  BY <1>0, <1>3, <1>4, <1>7, <1>8 DEF Counted, GivesBack
<1>10. Freed(g, d, a)
  <2>1. d.address_running = [g.address_running EXCEPT ![a] = @ - 1]
    BY <1>0, <1>2, <1>8, ZenonT(30) DEF GlobalState
  <2>2. \A j \in QueuedKeys(g) : d.waiters[j] = g.waiters[j]
    BY <1>1, <1>5 DEF QueuedKeys
  <2>3. QED
    BY <1>4, <1>7, <2>1, <2>2 DEF Freed
<1>11. QED
  BY <1>2, <1>3, <1>6, <1>9, <1>10, GivesBackKeeps DEF Sound

-----------------------------------------------------------------------------
(* The other critical sections *)

\* A step that changes at most the waker or the age of waiters, or the ready
\* waiters.
Relabels(g, h) ==
  /\ h \in GlobalState
  /\ h.global_running = g.global_running /\ h.queued = g.queued
  /\ h.next_seq = g.next_seq /\ h.ordered = g.ordered /\ h.fifo = g.fifo
  /\ h.address_running = g.address_running
  /\ \A j \in Key : /\ h.waiters[j] = Vacant <=> g.waiters[j] = Vacant
                    /\ g.waiters[j] # Vacant =>
                         /\ h.waiters[j].address = g.waiters[j].address
                         /\ h.waiters[j].urgency = g.waiters[j].urgency
                         /\ h.waiters[j].seq = g.waiters[j].seq
                         /\ h.waiters[j].admitted = g.waiters[j].admitted

\* Re-registering a waker or growing older disturbs nothing that is counted.
LEMMA RelabelSound ==
  ASSUME NEW P \in SUBSET Request, NEW g, Sound(g, P), Conserving(g),
         NEW h, Relabels(g, h)
  PROVE  Sound(h, P) /\ Conserving(h)
<1>0. g \in GlobalState /\ Counted(g, P) /\ Indexed(g) /\ Capped(g) /\ h \in GlobalState
  BY DEF Sound, Relabels
<1>1. AdmittedKeys(h) = AdmittedKeys(g) /\ QueuedKeys(h) = QueuedKeys(g)
  BY DEF Relabels, AdmittedKeys, QueuedKeys
<1>2. \A a \in Address : AdmittedAt(h, a) = AdmittedAt(g, a)
  BY <1>1 DEF Relabels, AdmittedAt, AdmittedKeys
<1>3. Counted(h, P)
  BY <1>0, <1>1, <1>2 DEF Counted, Relabels
<1>4. Indexed(h)
  <2>1. \A j \in QueuedKeys(g) : /\ h.waiters[j].urgency = g.waiters[j].urgency
                                 /\ h.waiters[j].seq = g.waiters[j].seq
    BY DEF Relabels, QueuedKeys
  <2>2. QED
    <3>1. SameQueue(g, h)
      BY <1>1, <2>1 DEF Relabels, SameQueue
    <3>2. QED
      BY <1>0, <3>1, IndexedSame
<1>5. Capped(h)
  BY <1>0 DEF Capped, Relabels
<1>6. Conserving(h)
  BY <1>1 DEF Conserving, Relabels, HasGlobalCapacity, WaiterIsEligible,
              AddressHasCapacity, QueuedKeys
<1>7. QED
  BY <1>0, <1>3, <1>4, <1>5, <1>6 DEF Sound

\* One more permit at address a: AcquireNow.
LEMMA AcquireSound ==
  ASSUME NEW P \in SUBSET Request, NEW g, Sound(g, P), Conserving(g),
         NEW r \in Request \ P, HasGlobalCapacity(g),
         AddressHasCapacity(g, AddressOf[r]),
         NEW h, h = BumpAddressRunning(g, AddressOf[r])
  PROVE  Sound(h, P \cup {r}) /\ Conserving(h) /\ h.waiters = g.waiters
<1> DEFINE a == AddressOf[r]
           Q == P \cup {r}
<1>0. g \in GlobalState /\ Counted(g, P) /\ Indexed(g) /\ Capped(g) /\ a \in Address
  BY SchedulerAssumption DEF Sound
<1>1. /\ h.global_running = g.global_running + 1 /\ h.queued = g.queued
      /\ h.next_seq = g.next_seq /\ h.ordered = g.ordered /\ h.fifo = g.fifo
      /\ h.waiters = g.waiters
      /\ h.address_running = [g.address_running EXCEPT ![a] = @ + 1]
  BY <1>0 DEF BumpAddressRunning, GlobalState
<1>2. h \in GlobalState
  <2>1. h.global_running \in Nat /\ h.address_running \in [Address -> Nat]
    <3>1. g.global_running \in Nat /\ g.address_running \in [Address -> Nat]
      BY <1>0 DEF GlobalState
    <3>2. h.global_running = g.global_running + 1 /\ a \in Address
      BY <1>0, <1>1, ZenonT(30)
    <3>3. h.address_running = [g.address_running EXCEPT ![a] = @ + 1]
      BY <1>1, ZenonT(30)
    <3>4. QED
      BY <3>1, <3>2, <3>3
  <2>2. h = [g EXCEPT !.global_running = h.global_running,
                      !.address_running = h.address_running]
    BY <1>0, <1>1, Zenon DEF BumpAddressRunning, GlobalState
  <2>3. QED
    BY <1>0, <2>1, <2>2, Zenon DEF GlobalState
<1>3. \A c \in Address : /\ g.address_running[c] \in Nat
                         /\ h.address_running[c] = IF c = a THEN g.address_running[c] + 1
                                                            ELSE g.address_running[c]
  BY <1>0, <1>1 DEF GlobalState
<1>4. /\ AdmittedKeys(h) = AdmittedKeys(g) /\ QueuedKeys(h) = QueuedKeys(g)
      /\ \A c \in Address : AdmittedAt(h, c) = AdmittedAt(g, c)
  BY <1>1 DEF AdmittedKeys, QueuedKeys, AdmittedAt
<1>5. Counted(h, Q)
  <2>1. h.global_running = Cardinality(Q) + Cardinality(AdmittedKeys(h))
    <3>1. Cardinality(Q) = Cardinality(P) + 1
      BY <1>0, FiniteCounts, FS_AddElement, ZenonT(30)
    <3>2. Cardinality(P) \in Nat /\ Cardinality(AdmittedKeys(g)) \in Nat
      BY <1>0, FiniteCounts, FS_CardinalityType
    <3>3. g.global_running = Cardinality(P) + Cardinality(AdmittedKeys(g))
      BY <1>0, ZenonT(30) DEF Counted
    <3>4. QED
      BY <1>1, <1>4, <3>1, <3>2, <3>3, OneMore, ZenonT(30)
  <2>2. ASSUME NEW c \in Address
        PROVE  h.address_running[c] =
                 Cardinality(PermitsAt(Q, c)) + Cardinality(AdmittedAt(h, c))
    <3>1. /\ Cardinality(PermitsAt(P, c)) \in Nat /\ Cardinality(AdmittedAt(g, c)) \in Nat
          /\ IsFiniteSet(PermitsAt(P, c))
          /\ g.address_running[c] =
               Cardinality(PermitsAt(P, c)) + Cardinality(AdmittedAt(g, c))
      BY <1>0, FiniteCounts, FS_CardinalityType, ZenonT(30) DEF Counted
    <3>2. CASE c = a
      <4>1. PermitsAt(Q, c) = PermitsAt(P, c) \cup {r} /\ r \notin PermitsAt(P, c)
        BY <3>2 DEF PermitsAt
      <4>2. Cardinality(PermitsAt(P, c) \cup {r}) = Cardinality(PermitsAt(P, c)) + 1
        BY <3>1, <4>1, FS_AddElement, Zenon
      <4>3. h.address_running[c] = g.address_running[c] + 1
        BY <1>3, <3>2
      <4>4. /\ Cardinality(PermitsAt(Q, c)) = Cardinality(PermitsAt(P, c)) + 1
            /\ AdmittedAt(h, c) = AdmittedAt(g, c)
        BY <1>4, <4>1, <4>2, ZenonT(30)
      <4> HIDE DEF Q
      <4>5. QED
        BY <3>1, <4>3, <4>4, OneMore, ZenonT(30)
    <3>3. CASE c # a
      <4>1. PermitsAt(Q, c) = PermitsAt(P, c)
        BY <3>3 DEF PermitsAt
      <4>2. h.address_running[c] = g.address_running[c]
        BY <1>3, <3>3
      <4>3. QED
        BY <1>4, <3>1, <4>1, <4>2
    <3>4. QED
      BY <3>2, <3>3
  <2>3. QED
    BY <1>0, <1>1, <1>4, <2>1, <2>2, ZenonT(30) DEF Counted
<1>6. Indexed(h)
  <2>1. SameQueue(g, h)
    BY <1>1, <1>4 DEF SameQueue
  <2>2. QED
    BY <1>0, <1>2, <2>1, IndexedSame
<1>7. Capped(h)
  <2>1. h.global_running <= MaxTotal /\ h.queued <= MaxQueued
    <3>1. g.global_running \in Nat /\ g.global_running < MaxTotal /\ MaxTotal \in Nat
      BY <1>0, SchedulerAssumption, ZenonT(30) DEF HasGlobalCapacity, GlobalState
    <3>2. h.global_running = g.global_running + 1 /\ h.queued <= MaxQueued
      BY <1>0, <1>1, ZenonT(30) DEF Capped
    <3>3. QED
      BY <3>1, <3>2
  <2>2. ASSUME NEW c \in Address
        PROVE  h.address_running[c] <= MaxPerAddress
    <3>1. /\ g.address_running[c] \in Nat /\ MaxPerAddress \in Nat
          /\ g.address_running[c] <= MaxPerAddress
          /\ c = a => g.address_running[c] < MaxPerAddress
      BY <1>0, <1>3, SchedulerAssumption, ZenonT(30) DEF Capped, AddressHasCapacity
    <3>2. h.address_running[c] = IF c = a THEN g.address_running[c] + 1
                                          ELSE g.address_running[c]
      BY <1>3, ZenonT(30)
    <3>3. QED
      BY <3>1, <3>2
  <2>3. QED
    BY <2>1, <2>2 DEF Capped
<1>8. Conserving(h)
  <2>1. HasGlobalCapacity(g)
    OBVIOUS
  <2>2. ASSUME NEW k \in QueuedKeys(h)
        PROVE  ~WaiterIsEligible(h, k)
    <3>1. ~WaiterIsEligible(g, k) /\ g.waiters[k] # Vacant
      BY <1>4, <2>1 DEF Conserving, QueuedKeys
    <3>2. g.waiters[k].address \in Address
      BY <1>0, <1>4, <3>1, ZenonT(30) DEF QueuedKeys, GlobalState, Waiter
    <3>3. QED
      BY <1>1, <1>3, <3>1, <3>2, SchedulerAssumption
         DEF WaiterIsEligible, AddressHasCapacity
  <2>3. QED
    BY <2>2 DEF Conserving
<1>9. QED
  BY <1>1, <1>2, <1>5, <1>6, <1>7, <1>8 DEF Sound

\* A promoted waiter is exchanged for a permit: the slot stays taken.
LEMMA CollectSound ==
  ASSUME NEW P \in SUBSET Request, NEW g, Sound(g, P), Conserving(g),
         NEW k \in AdmittedKeys(g), NEW r \in Request \ P,
         g.waiters[k].address = AddressOf[r],
         NEW h, Vacates(g, k, h)
  PROVE  Sound(h, P \cup {r}) /\ Conserving(h)
<1> DEFINE a == AddressOf[r]
           Q == P \cup {r}
<1>0. g \in GlobalState /\ Counted(g, P) /\ Indexed(g) /\ Capped(g) /\ h \in GlobalState
  BY DEF Sound, Vacates
<1>1. k \in Key /\ k \notin QueuedKeys(g)
  BY DEF AdmittedKeys, QueuedKeys
<1>2. /\ AdmittedKeys(h) = AdmittedKeys(g) \ {k} /\ QueuedKeys(h) = QueuedKeys(g)
      /\ \A j \in QueuedKeys(g) : h.waiters[j] = g.waiters[j]
  BY <1>1 DEF Vacates, QueuedKeys
<1>3. Counted(h, Q)
  <2>1. h.global_running = Cardinality(Q) + Cardinality(AdmittedKeys(h))
    <3>1. Cardinality(Q) = Cardinality(P) + 1
      BY <1>0, FiniteCounts, FS_AddElement, ZenonT(30)
    <3>2. IsFiniteSet(AdmittedKeys(g))
      BY <1>0, FiniteCounts
    <3>3. Cardinality(AdmittedKeys(g) \ {k}) = Cardinality(AdmittedKeys(g)) - 1
      BY <3>2, FS_RemoveElement, ZenonT(30)
    <3>4. Cardinality(P) \in Nat /\ Cardinality(AdmittedKeys(g)) \in Nat
      BY <1>0, FiniteCounts, FS_CardinalityType
    <3>5. h.global_running = Cardinality(P) + Cardinality(AdmittedKeys(g))
      BY <1>0, ZenonT(30) DEF Counted, Vacates
    <3>6. QED
      <4>1. Cardinality(AdmittedKeys(h)) = Cardinality(AdmittedKeys(g)) - 1
        BY <1>2, <3>3, ZenonT(30)
      <4>2. Cardinality(P) + Cardinality(AdmittedKeys(g)) =
              (Cardinality(P) + 1) + (Cardinality(AdmittedKeys(g)) - 1)
        BY <3>4, OneMoved, ZenonT(30)
      <4>3. QED
        BY <3>1, <3>5, <4>1, <4>2, ZenonT(30)
  <2>2. ASSUME NEW c \in Address
        PROVE  h.address_running[c] =
                 Cardinality(PermitsAt(Q, c)) + Cardinality(AdmittedAt(h, c))
    <3>1. /\ Cardinality(PermitsAt(P, c)) \in Nat /\ Cardinality(AdmittedAt(g, c)) \in Nat
          /\ IsFiniteSet(PermitsAt(P, c)) /\ IsFiniteSet(AdmittedAt(g, c))
          /\ h.address_running[c] =
               Cardinality(PermitsAt(P, c)) + Cardinality(AdmittedAt(g, c))
      BY <1>0, FiniteCounts, FS_CardinalityType, ZenonT(30) DEF Counted, Vacates
    <3>2. CASE c = a
      <4>1. PermitsAt(Q, c) = PermitsAt(P, c) \cup {r} /\ r \notin PermitsAt(P, c)
        BY <3>2 DEF PermitsAt
      <4>2. Cardinality(PermitsAt(P, c) \cup {r}) = Cardinality(PermitsAt(P, c)) + 1
        BY <3>1, <4>1, FS_AddElement, ZenonT(30)
      <4>3. AdmittedAt(h, c) = AdmittedAt(g, c) \ {k} /\ k \in AdmittedAt(g, c)
        BY <1>2, <3>2 DEF AdmittedAt, AdmittedKeys, Vacates
      <4>4. Cardinality(AdmittedAt(g, c) \ {k}) = Cardinality(AdmittedAt(g, c)) - 1
        BY <3>1, <4>3, FS_RemoveElement, ZenonT(30)
      <4> HIDE DEF Q
      <4>5. QED
        <5>1. /\ Cardinality(PermitsAt(Q, c)) = Cardinality(PermitsAt(P, c)) + 1
              /\ Cardinality(AdmittedAt(h, c)) = Cardinality(AdmittedAt(g, c)) - 1
          BY <4>1, <4>2, <4>3, <4>4, ZenonT(30)
        <5>2. Cardinality(PermitsAt(P, c)) + Cardinality(AdmittedAt(g, c)) =
                (Cardinality(PermitsAt(P, c)) + 1) + (Cardinality(AdmittedAt(g, c)) - 1)
          BY <3>1, OneMoved, ZenonT(30)
        <5>3. QED
          BY <3>1, <5>1, <5>2, ZenonT(30)
    <3>3. CASE c # a
      <4>1. PermitsAt(Q, c) = PermitsAt(P, c)
        BY <3>3 DEF PermitsAt
      <4>2. AdmittedAt(h, c) = AdmittedAt(g, c)
        BY <1>2, <3>3 DEF AdmittedAt, AdmittedKeys, Vacates
      <4> HIDE DEF Q
      <4>3. QED
        BY <3>1, <4>1, <4>2
    <3>4. QED
      BY <3>2, <3>3
  <2>3. QED
    BY <1>0, <1>2, <2>1, <2>2, ZenonT(30) DEF Counted, Vacates
<1>4. Indexed(h)
  <2>1. \A j \in QueuedKeys(g) : /\ h.waiters[j].urgency = g.waiters[j].urgency
                                 /\ h.waiters[j].seq = g.waiters[j].seq
    BY <1>2
  <2>2. QED
    <3>1. SameQueue(g, h)
      BY <1>2, <2>1 DEF Vacates, SameQueue
    <3>2. QED
      BY <1>0, <3>1, IndexedSame
<1>5. Capped(h)
  BY <1>0 DEF Capped, Vacates
<1>6. Conserving(h)
  BY <1>2 DEF Conserving, Vacates, HasGlobalCapacity, WaiterIsEligible, AddressHasCapacity
<1>7. QED
  BY <1>0, <1>3, <1>4, <1>5, <1>6 DEF Sound

-----------------------------------------------------------------------------
(* The slots the callers see *)

\* The requests that wait under the keys of a set.
Owners(held, K) == {Owner(held, k) : k \in K}

\* As many requests as keys.
LEMMA OwnersCount ==
  ASSUME NEW g, NEW P, NEW held \in [Request -> Key \cup {NoKey}], Owned(g, held, P),
         NEW K \in SUBSET Key, \A k \in K : g.waiters[k] # Vacant
  PROVE  /\ IsFiniteSet(Owners(held, K)) /\ Cardinality(Owners(held, K)) = Cardinality(K)
         /\ Owners(held, K) \cap P = {}
<1> DEFINE R == Owners(held, K)
           f == [k \in K |-> Owner(held, k)]
<1>1. \A k \in K : Owner(held, k) \in Request \ P /\ held[Owner(held, k)] = k
  BY OwnerFacts
<1>2. f \in Injection(K, R)
  <2>1. f \in [K -> R]
    BY DEF Owners
  <2>2. \A k, j \in K : f[k] = f[j] => k = j
    BY <1>1
  <2> QED
    BY <2>1, <2>2 DEF Injection, IsInjective
<1>3. f \in Surjection(K, R)
  BY DEF Surjection, Owners
<1>4. IsFiniteSet(K)
  BY SchedulerAssumption, FS_Subset
<1>5. IsFiniteSet(R) /\ Cardinality(R) = Cardinality(K)
  <2> HIDE DEF f
  <2>1. ExistsBijection(K, R)
    BY <1>2, <1>3 DEF ExistsBijection, Bijection
  <2> QED
    BY <2>1, <1>4, FS_Bijection
<1>6. QED
  BY <1>1, <1>5 DEF Owners

\* Two finite sets without a common element.
LEMMA DisjointCount ==
  ASSUME NEW S, NEW T, IsFiniteSet(S), IsFiniteSet(T), S \cap T = {}
  PROVE  Cardinality(S \cup T) = Cardinality(S) + Cardinality(T)
<1>1. Cardinality(S \cap T) = 0
  BY FS_EmptySet
<1>2. Cardinality(S) \in Nat /\ Cardinality(T) \in Nat
  BY FS_CardinalityType
<1>3. Cardinality(S \cup T) = Cardinality(S) + Cardinality(T) - Cardinality(S \cap T)
  BY FS_Union
<1>4. QED
  BY <1>1, <1>2, <1>3

\* The counters say of every address whether it has a free slot.
LEMMA SlotsAgree ==
  ASSUME NEW g \in GlobalState, NEW P \in SUBSET Request, Counted(g, P),
         NEW held \in [Request -> Key \cup {NoKey}], Owned(g, held, P)
  PROVE  SlotsCounted(g, held, P)
<1> SUFFICES ASSUME NEW a \in Address
             PROVE  SlotFree(a, PromotedIn(g, held) \cup P)
                      <=> HasGlobalCapacity(g) /\ AddressHasCapacity(g, a)
  BY DEF SlotsCounted
<1> DEFINE A == AdmittedKeys(g)
           R == PromotedIn(g, held)
           B == AdmittedAt(g, a)
           S == Owners(held, B)
           Q == PermitsAt(P, a)
           T == {r \in R \cup P : AddressOf[r] = a}
<1>1. /\ A \in SUBSET Key /\ B \in SUBSET Key /\ B \subseteq A
      /\ \A k \in A : g.waiters[k] # Vacant
      /\ \A k \in A : k \in B <=> g.waiters[k].address = a
  BY DEF AdmittedKeys, AdmittedAt
<1>2. R = Owners(held, A)
  BY DEF PromotedIn, Owners
<1>3. \A k \in A : AddressOf[Owner(held, k)] = g.waiters[k].address
  <2> HIDE DEF A
  <2> QED
    BY <1>1, OwnerFacts
<1>4. /\ g.global_running = Cardinality(P) + Cardinality(A)
      /\ g.address_running[a] = Cardinality(Q) + Cardinality(B)
  BY DEF Counted
<1>5. IsFiniteSet(P) /\ IsFiniteSet(Q) /\ Q \subseteq P
  BY FiniteCounts DEF PermitsAt
<1>6. SlotFree(a, R \cup P)
        <=> Cardinality(R \cup P) < MaxTotal /\ Cardinality(T) < MaxPerAddress
  BY DEF SlotFree
<1> HIDE DEF A, R, B
<1>7. T = S \cup Q
  BY <1>1, <1>2, <1>3 DEF PermitsAt, Owners
<1> HIDE DEF T, Q
<1>8. IsFiniteSet(R) /\ Cardinality(R) = Cardinality(A) /\ R \cap P = {}
  BY <1>1, <1>2, OwnersCount
<1>9. IsFiniteSet(S) /\ Cardinality(S) = Cardinality(B) /\ S \cap P = {}
  <2>1. \A k \in B : g.waiters[k] # Vacant
    BY <1>1
  <2> QED
    BY <1>1, <2>1, OwnersCount
<1> HIDE DEF S
<1>10. Cardinality(R \cup P) = Cardinality(A) + Cardinality(P)
  BY <1>5, <1>8, DisjointCount
<1>11. Cardinality(T) = Cardinality(B) + Cardinality(Q)
  <2>1. S \cap Q = {}
    BY <1>5, <1>9
  <2> QED
    BY <2>1, <1>5, <1>7, <1>9, DisjointCount
<1>12. /\ Cardinality(A) \in Nat /\ Cardinality(B) \in Nat
       /\ Cardinality(P) \in Nat /\ Cardinality(Q) \in Nat
  BY <1>5, <1>8, <1>9, FS_CardinalityType
<1>13. \A p, x \in Nat : p + x = x + p
  OBVIOUS
<1>14. g.global_running = Cardinality(R \cup P) /\ g.address_running[a] = Cardinality(T)
  BY <1>4, <1>10, <1>11, <1>12, <1>13, ZenonT(30)
<1>15. QED
  BY <1>6, <1>14, ZenonT(30) DEF HasGlobalCapacity, AddressHasCapacity, R

\* `queued` is the length of the line.
LEMMA LineLength ==
  ASSUME NEW g \in GlobalState, Indexed(g), NEW P, Counted(g, P), NEW held
  PROVE  Len(Line(g, held)) = g.queued
<1> DEFINE f == g.fifo
           K == QueuedKeys(g)
<1>1. Len(f) \in Nat /\ Len(Line(g, held)) = Len(f)
  BY LineFields
<1>2. f \in Seq(Key) /\ Distinct(f) /\ Entries(f) = K
  BY IndexedDistinct DEF GlobalState
<1> HIDE DEF f, K
<1>3. f \in Injection(1..Len(f), K)
  <2>1. f \in [1..Len(f) -> K]
    BY <1>2 DEF Entries
  <2> QED
    BY <1>2, <2>1 DEF Injection, IsInjective, Distinct
<1>4. f \in Surjection(1..Len(f), K)
  <2>1. f \in [1..Len(f) -> K]
    BY <1>2 DEF Entries
  <2> QED
    BY <1>2, <2>1 DEF Surjection, Entries
<1>5. ExistsBijection(1..Len(f), K)
  BY <1>3, <1>4 DEF ExistsBijection, Bijection
<1>6. Cardinality(K) = Len(f)
  BY <1>1, <1>5, FS_CountingElements
<1>7. g.queued = Cardinality(K)
  BY DEF Counted, K
<1>8. QED
  BY <1>1, <1>6, <1>7
=============================================================================
