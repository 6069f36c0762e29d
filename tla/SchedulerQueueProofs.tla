------------------------ MODULE SchedulerQueueProofs ------------------------
(***************************************************************************)
(* The queue of RequestScheduler: the two indexes of the waiters, the      *)
(* waiter select_waiter picks, the guards of the acquire futures, and the  *)
(* line of requests the callers see.                                       *)
(***************************************************************************)
EXTENDS RequestScheduler, WellFoundedInduction, TLAPS

\* A leaf that names no prover is tried with these, in this order.
USE SMTT(30), ZenonT(30), Z3T(30)

-----------------------------------------------------------------------------
(* Minimal elements, for best and oldest in select_waiter *)

\* Every nonempty set of naturals has a least element.
LEMMA LeastNat ==
  ASSUME NEW T \in SUBSET Nat, T # {}
  PROVE  \E x \in T : \A y \in T : x <= y
<1>1. \E x \in T : \A y \in T : ~(<<y, x>> \in OpToRel(<, Nat))
  BY WFMin, NatLessThanWellFounded, Zenon
<1>2. PICK x \in T : \A y \in T : ~(<<y, x>> \in OpToRel(<, Nat))
  BY <1>1, Zenon
<1>3. \A y \in T : ~(y < x)
  BY <1>2, Zenon DEF OpToRel
<1>4. QED
  BY <1>3

\* The first eligible index of `fifo` exists as soon as one index is eligible.
LEMMA OldestIndexEligible ==
  ASSUME NEW g \in GlobalState, EligibleFifo(g) # {}
  PROVE  /\ OldestIndex(g) \in EligibleFifo(g)
         /\ \A j \in EligibleFifo(g) : OldestIndex(g) <= j
<1>1. EligibleFifo(g) \in SUBSET Nat
  BY DEF EligibleFifo, GlobalState
<1>2. \E i \in EligibleFifo(g) : \A j \in EligibleFifo(g) : i <= j
  BY <1>1, LeastNat
<1>3. QED
  BY <1>2 DEF OldestIndex

\* The minimum of `ordered` over its eligible entries exists as soon as one
\* entry is eligible: least urgency first, then least seq.
LEMMA BestEntryEligible ==
  ASSUME NEW g \in GlobalState, EligibleOrdered(g) # {}
  PROVE  /\ BestEntry(g) \in EligibleOrdered(g)
         /\ \A f \in EligibleOrdered(g) : ~Precedes(f, BestEntry(g))
<1> DEFINE E == EligibleOrdered(g)
           U == {e[1] : e \in E}
<1>1. E \subseteq (0..7) \X Nat \X Key
  BY DEF EligibleOrdered, GlobalState
<1>2. U \in SUBSET Nat /\ U # {}
  BY <1>1
<1>3. PICK u \in U : \A v \in U : u <= v
  BY <1>2, LeastNat, Zenon
<1> DEFINE S == {e[2] : e \in {f \in E : f[1] = u}}
<1>4. S \in SUBSET Nat /\ S # {}
  BY <1>1, <1>3
<1>5. PICK s \in S : \A t \in S : s <= t
  BY <1>4, LeastNat, Zenon
<1>6. PICK e \in E : e[1] = u /\ e[2] = s
  BY <1>5
<1>7. ASSUME NEW f \in E
      PROVE  ~Precedes(f, e)
  <2>1. f[1] \in U /\ u <= f[1] /\ f[1] \in Nat /\ f[2] \in Nat
    BY <1>1, <1>3
  <2>2. f[1] = u => s <= f[2]
    BY <1>5
  <2>3. u \in Nat /\ s \in Nat
    BY <1>2, <1>4
  <2>4. QED
    BY <1>6, <2>1, <2>2, <2>3 DEF Precedes
<1>8. QED
  BY <1>6, <1>7 DEF BestEntry

-----------------------------------------------------------------------------
(* The two indexes *)

Entries(fifo) == {fifo[i] : i \in 1..Len(fifo)}

Distinct(fifo) == \A i, j \in 1..Len(fifo) : fifo[i] = fifo[j] => i = j

\* Appending keeps the type.
LEMMA AppendType ==
  ASSUME NEW S, NEW s \in Seq(S), NEW x \in S
  PROVE  Append(s, x) \in Seq(S)
  OBVIOUS

Shortened(fifo, k, rest) ==
  /\ rest \in Seq(Key)
  /\ Entries(rest) = Entries(fifo) \ {k}
  /\ \A i, j \in 1..Len(rest) : i < j =>
       \E m, n \in 1..Len(fifo) :
         m < n /\ rest[i] = fifo[m] /\ rest[j] = fifo[n]

\* Removing an id from a queue without duplicates removes exactly that id and
\* leaves the others in their order.
LEMMA FifoRemoval ==
  ASSUME NEW fifo \in Seq(Key), Distinct(fifo), NEW k \in Entries(fifo),
         NEW rest, rest = RemoveFromFifo(fifo, k)
  PROVE  Shortened(fifo, k, rest)
<1>1. PICK p \in 1..Len(fifo) : fifo[p] = k
  BY DEF Entries
<1>2. \A j \in 1..(p - 1) : fifo[j] # k
  BY <1>1 DEF Distinct
<1>3. \A i \in 1..Len(fifo) : fifo[i] = k => i = p
  BY <1>1 DEF Distinct
<1>4. p = CHOOSE i \in 1..Len(fifo) :
            fifo[i] = k /\ \A j \in 1..(i - 1) : fifo[j] # k
  BY <1>1, <1>2, <1>3
<1>5. rest = [j \in 1..(Len(fifo) - 1) |-> IF j < p THEN fifo[j] ELSE fifo[j + 1]]
  BY <1>1, <1>4 DEF RemoveFromFifo
<1>6. rest \in Seq(Key) /\ Len(rest) = Len(fifo) - 1
  BY <1>1, <1>5
<1>7. \A j \in 1..Len(rest) : rest[j] = IF j < p THEN fifo[j] ELSE fifo[j + 1]
  BY <1>5, <1>6
<1>8. Entries(rest) = Entries(fifo) \ {k}
  <2>1. ASSUME NEW x \in Entries(rest)
        PROVE  x \in Entries(fifo) \ {k}
    <3>1. PICK j \in 1..Len(rest) : x = rest[j]
      BY <2>1 DEF Entries
    <3>2. CASE j < p
      <4>1. j \in 1..Len(fifo) /\ x = fifo[j] /\ j # p
        BY <3>1, <3>2, <1>1, <1>6, <1>7
      <4>2. QED
        BY <4>1, <1>3 DEF Entries
    <3>3. CASE ~(j < p)
      <4>1. j + 1 \in 1..Len(fifo) /\ x = fifo[j + 1] /\ j + 1 # p
        BY <3>1, <3>3, <1>1, <1>6, <1>7
      <4>2. QED
        BY <4>1, <1>3, ZenonT(30) DEF Entries
    <3>4. QED
      BY <3>2, <3>3
  <2>2. ASSUME NEW x \in Entries(fifo) \ {k}
        PROVE  x \in Entries(rest)
    <3>1. PICK i \in 1..Len(fifo) : x = fifo[i]
      BY <2>2 DEF Entries
    <3>2. i # p
      BY <3>1, <2>2, <1>1
    <3>3. CASE i < p
      <4>1. i \in 1..Len(rest) /\ rest[i] = x
        BY <3>1, <3>3, <1>1, <1>6, <1>7
      <4>2. QED
        BY <4>1 DEF Entries
    <3>4. CASE i > p
      <4>1. i - 1 \in 1..Len(rest) /\ ~(i - 1 < p) /\ (i - 1) + 1 = i
        BY <3>1, <3>4, <1>1, <1>6
      <4>2. rest[i - 1] = x
        BY <4>1, <3>1, <1>7
      <4>3. QED
        BY <4>1, <4>2 DEF Entries
    <3>5. QED
      BY <3>2, <3>3, <3>4, <3>1, <1>1
  <2>3. QED
    BY <2>1, <2>2
<1>9. ASSUME NEW i \in 1..Len(rest), NEW j \in 1..Len(rest), i < j
      PROVE  \E m, n \in 1..Len(fifo) :
               m < n /\ rest[i] = fifo[m] /\ rest[j] = fifo[n]
  <2> DEFINE m == IF i < p THEN i ELSE i + 1
             n == IF j < p THEN j ELSE j + 1
  <2>1. m \in 1..Len(fifo) /\ n \in 1..Len(fifo) /\ m < n
    BY <1>1, <1>6, <1>9
  <2>2. rest[i] = fifo[m] /\ rest[j] = fifo[n]
    BY <1>7
  <2>3. QED
    BY <2>1, <2>2
<1>10. QED
  BY <1>6, <1>8, <1>9 DEF Shortened

\* Distinct keys: `fifo` is strictly ordered by seq.
LEMMA IndexedDistinct ==
  ASSUME NEW g \in GlobalState, Indexed(g)
  PROVE  Distinct(g.fifo) /\ Entries(g.fifo) = QueuedKeys(g)
<1>1. Entries(g.fifo) = QueuedKeys(g)
  BY DEF Indexed, Entries
<1>2. \A i \in 1..Len(g.fifo) : g.waiters[g.fifo[i]].seq \in Nat
  <2>1. \A k \in QueuedKeys(g) : g.waiters[k] \in Waiter
    BY DEF QueuedKeys, GlobalState
  <2>2. QED
    BY <1>1, <2>1 DEF Entries, Waiter
<1>3. ASSUME NEW i \in 1..Len(g.fifo), NEW j \in 1..Len(g.fifo),
             g.fifo[i] = g.fifo[j]
      PROVE  i = j
  <2>1. ~(i < j) /\ ~(j < i)
    BY <1>2, <1>3 DEF Indexed
  <2>2. Len(g.fifo) \in Nat
    BY DEF GlobalState
  <2>3. QED
    BY <2>1, <2>2
<1>4. QED
  BY <1>1, <1>3 DEF Distinct

LeavesQueue(g, k, h) ==
  /\ QueuedKeys(h) = QueuedKeys(g) \ {k}
  /\ \A j \in QueuedKeys(h) : h.waiters[j] = g.waiters[j]
  /\ h.ordered = g.ordered \ {<<g.waiters[k].urgency, g.waiters[k].seq, k>>}
  /\ h.fifo = RemoveFromFifo(g.fifo, k)
  /\ h.next_seq = g.next_seq

\* A waiter leaves the queue: both indexes lose its entry and stay in step.
LEMMA IndexedDequeue ==
  ASSUME NEW g \in GlobalState, NEW h \in GlobalState, Indexed(g),
         NEW k \in QueuedKeys(g), LeavesQueue(g, k, h)
  PROVE  Indexed(h)
<1>1. g.fifo \in Seq(Key) /\ Distinct(g.fifo) /\ k \in Entries(g.fifo)
  BY IndexedDistinct, Zenon DEF GlobalState
<1>2. /\ h.fifo \in Seq(Key)
      /\ Entries(h.fifo) = Entries(g.fifo) \ {k}
      /\ \A i, j \in 1..Len(h.fifo) : i < j =>
           \E m, n \in 1..Len(g.fifo) :
             m < n /\ h.fifo[i] = g.fifo[m] /\ h.fifo[j] = g.fifo[n]
  <2>1. Shortened(g.fifo, k, h.fifo)
    BY <1>1, FifoRemoval DEF LeavesQueue
  <2>2. QED
    BY <2>1, Zenon DEF Shortened
<1>3. Entries(h.fifo) = QueuedKeys(h)
  BY <1>2, IndexedDistinct DEF LeavesQueue
<1>4. h.ordered = {<<h.waiters[j].urgency, h.waiters[j].seq, j>> : j \in QueuedKeys(h)}
  BY DEF Indexed, LeavesQueue
<1>5. ASSUME NEW i \in 1..Len(h.fifo), NEW j \in 1..Len(h.fifo), i < j
      PROVE  h.waiters[h.fifo[i]].seq < h.waiters[h.fifo[j]].seq
  <2>1. PICK m \in 1..Len(g.fifo), n \in 1..Len(g.fifo) :
          m < n /\ h.fifo[i] = g.fifo[m] /\ h.fifo[j] = g.fifo[n]
    BY <1>2, <1>5, Zenon
  <2>2. g.waiters[g.fifo[m]].seq < g.waiters[g.fifo[n]].seq
    BY <2>1, ZenonT(30) DEF Indexed
  <2>3. h.fifo[i] \in QueuedKeys(h) /\ h.fifo[j] \in QueuedKeys(h)
    BY <1>3 DEF Entries
  <2>4. QED
    BY <2>1, <2>2, <2>3, ZenonT(30) DEF LeavesQueue
<1>6. \A j \in QueuedKeys(h) : h.waiters[j].seq < h.next_seq
  BY DEF Indexed, LeavesQueue
<1>7. QED
  BY <1>3, <1>4, <1>5, <1>6 DEF Indexed, Entries

SameQueue(g, h) ==
  /\ QueuedKeys(h) = QueuedKeys(g)
  /\ \A j \in QueuedKeys(g) : /\ h.waiters[j].urgency = g.waiters[j].urgency
                              /\ h.waiters[j].seq = g.waiters[j].seq
  /\ h.ordered = g.ordered /\ h.fifo = g.fifo /\ h.next_seq = g.next_seq

\* A step that touches neither the queued waiters' order nor the indexes.
LEMMA IndexedSame ==
  ASSUME NEW g \in GlobalState, NEW h \in GlobalState, Indexed(g), SameQueue(g, h)
  PROVE  Indexed(h)
<1>1. h.ordered = {<<h.waiters[j].urgency, h.waiters[j].seq, j>> : j \in QueuedKeys(h)}
  BY DEF Indexed, SameQueue
<1>2. Entries(h.fifo) = QueuedKeys(h)
  BY IndexedDistinct DEF SameQueue
<1>3. \A i \in 1..Len(h.fifo) : h.waiters[h.fifo[i]].seq = g.waiters[g.fifo[i]].seq
  BY <1>2 DEF Entries, SameQueue
<1>4. QED
  BY <1>1, <1>2, <1>3 DEF Indexed, Entries, SameQueue

-----------------------------------------------------------------------------
(* The waiter that is picked, and what a promotion does *)

\* The waiter select_waiter returns is queued and may run.
LEMMA SelectSound ==
  ASSUME NEW g \in GlobalState, Indexed(g), Promoted(g) # NoKey
  PROVE  /\ Promoted(g) \in QueuedKeys(g)
         /\ WaiterIsEligible(g, Promoted(g))
         /\ HasGlobalCapacity(g)
<1>1. HasGlobalCapacity(g) /\ Promoted(g) = SelectWaiter(g)
  BY DEF Promoted
<1>2. EligibleOrdered(g) # {} /\ EligibleFifo(g) # {}
  BY <1>1 DEF SelectWaiter
<1>3. BestEntry(g) \in EligibleOrdered(g) /\ OldestIndex(g) \in EligibleFifo(g)
  BY <1>2, BestEntryEligible, OldestIndexEligible
<1>4. BestEntry(g)[3] \in QueuedKeys(g) /\ WaiterIsEligible(g, BestEntry(g)[3])
  BY <1>3 DEF EligibleOrdered, Indexed
<1>5. /\ g.fifo[OldestIndex(g)] \in QueuedKeys(g)
      /\ WaiterIsEligible(g, g.fifo[OldestIndex(g)])
  BY <1>3, IndexedDistinct DEF EligibleFifo, Entries
<1>6. SelectWaiter(g) \in {BestEntry(g)[3], g.fifo[OldestIndex(g)]}
  BY <1>2 DEF SelectWaiter
<1>7. QED
  BY <1>1, <1>4, <1>5, <1>6

\* select_waiter finds a waiter exactly when some queued waiter may run.
LEMMA SelectComplete ==
  ASSUME NEW g \in GlobalState, Indexed(g)
  PROVE  Promoted(g) = NoKey <=> Conserving(g)
<1>1. ASSUME Promoted(g) = NoKey, HasGlobalCapacity(g), NEW k \in QueuedKeys(g),
             WaiterIsEligible(g, k)
      PROVE  FALSE
  <2>1. <<g.waiters[k].urgency, g.waiters[k].seq, k>> \in EligibleOrdered(g)
    BY <1>1 DEF Indexed, EligibleOrdered
  <2>2. \E i \in 1..Len(g.fifo) : g.fifo[i] = k
    BY IndexedDistinct DEF Entries
  <2>3. EligibleFifo(g) # {}
    BY <1>1, <2>2 DEF EligibleFifo
  <2>4. BestEntry(g) \in EligibleOrdered(g) /\ OldestIndex(g) \in EligibleFifo(g)
    BY <2>1, <2>3, BestEntryEligible, OldestIndexEligible
  <2>5. BestEntry(g)[3] \in Key /\ g.fifo[OldestIndex(g)] \in Key
    BY <2>4 DEF EligibleOrdered, EligibleFifo, GlobalState
  <2>6. SelectWaiter(g) \in Key
    BY <2>1, <2>3, <2>5 DEF SelectWaiter
  <2>7. QED
    BY <1>1, <2>6, SchedulerAssumption DEF Promoted
<1>2. ASSUME Promoted(g) # NoKey
      PROVE  ~Conserving(g)
  BY <1>2, SelectSound DEF Conserving
<1>3. QED
  BY <1>1, <1>2 DEF Conserving

PromotesTo(g, k, h) ==
  /\ h \in GlobalState
  /\ h.global_running = g.global_running + 1
  /\ h.queued = SaturatingSub1(g.queued)
  /\ h.next_seq = g.next_seq
  /\ h.waiters = [g.waiters EXCEPT ![k] =
                    [g.waiters[k] EXCEPT !.admitted = TRUE, !.waker = NoWaker]]
  /\ h.ordered = g.ordered \ {<<g.waiters[k].urgency, g.waiters[k].seq, k>>}
  /\ h.fifo = RemoveFromFifo(g.fifo, k)
  /\ h.address_running = [g.address_running EXCEPT ![g.waiters[k].address] = @ + 1]

\* What Promote changes, field by field.
LEMMA PromoteFields ==
  ASSUME NEW g \in GlobalState, Indexed(g), NEW k \in QueuedKeys(g),
         NEW h, h = Promote(g, k)
  PROVE  PromotesTo(g, k, h)
<1> DEFINE w == g.waiters[k]
           v == [w EXCEPT !.admitted = TRUE, !.waker = NoWaker]
<1>1. k \in Key /\ w \in Waiter
  BY DEF QueuedKeys, GlobalState
<1>2. v \in Waiter
  BY <1>1, Zenon DEF Waiter, WakerOf
<1>3. g.fifo \in Seq(Key) /\ Distinct(g.fifo) /\ k \in Entries(g.fifo)
  BY IndexedDistinct, ZenonT(30) DEF GlobalState
<1>4. RemoveFromFifo(g.fifo, k) \in Seq(Key)
  <2>1. Shortened(g.fifo, k, RemoveFromFifo(g.fifo, k))
    BY <1>3, FifoRemoval
  <2>2. QED
    BY <2>1 DEF Shortened
<1>5. /\ h.global_running = g.global_running + 1
      /\ h.queued = SaturatingSub1(g.queued)
      /\ h.next_seq = g.next_seq
      /\ h.waiters = [g.waiters EXCEPT ![k] = v]
      /\ h.ordered = g.ordered \ {<<w.urgency, w.seq, k>>}
      /\ h.fifo = RemoveFromFifo(g.fifo, k)
      /\ h.address_running = [g.address_running EXCEPT ![w.address] = @ + 1]
      /\ h.ready_waiters = g.ready_waiters
      /\ h.high_urgency_promotions =
           IF w.urgency > HighUrgencyMax THEN 0
           ELSE IF g.high_urgency_promotions < CounterMax
                  THEN g.high_urgency_promotions + 1 ELSE g.high_urgency_promotions
  BY DEF Promote, BumpAddressRunning, DequeueWaiter, GlobalState
<1>6. h = [global_running |-> h.global_running, queued |-> h.queued,
           next_seq |-> h.next_seq,
           high_urgency_promotions |-> h.high_urgency_promotions,
           waiters |-> h.waiters, ordered |-> h.ordered, fifo |-> h.fifo,
           address_running |-> h.address_running,
           ready_waiters |-> h.ready_waiters]
  BY Zenon DEF Promote, BumpAddressRunning, DequeueWaiter, GlobalState
<1>7. /\ h.global_running \in Nat /\ h.queued \in Nat /\ h.next_seq \in Nat
      /\ h.high_urgency_promotions \in Nat
      /\ h.ordered \in SUBSET ((0..7) \X Nat \X Key)
      /\ h.fifo \in Seq(Key)
      /\ h.ready_waiters \in Seq(Poller)
  <2>1. h.global_running \in Nat /\ h.queued \in Nat /\ h.next_seq \in Nat
    BY <1>5 DEF SaturatingSub1, GlobalState
  <2>2. h.high_urgency_promotions \in Nat
    BY <1>5 DEF GlobalState
  <2>3. h.ordered \in SUBSET ((0..7) \X Nat \X Key)
    BY <1>5 DEF GlobalState
  <2>4. h.fifo \in Seq(Key) /\ h.ready_waiters \in Seq(Poller)
    BY <1>4, <1>5 DEF GlobalState
  <2>5. QED
    BY <2>1, <2>2, <2>3, <2>4
<1>8. h.waiters \in [Key -> Waiter \cup {Vacant}]
  BY <1>1, <1>2, <1>5 DEF GlobalState
<1>9. h.address_running \in [Address -> Nat]
  BY <1>1, <1>5 DEF GlobalState, Waiter
<1>10. h \in GlobalState
  BY <1>6, <1>7, <1>8, <1>9 DEF GlobalState
<1>11. QED
  BY <1>5, <1>10 DEF PromotesTo

\* Promotion moves one waiter from the queue to the admitted ones.
LEMMA PromoteMoves ==
  ASSUME NEW g \in GlobalState, Indexed(g), NEW k \in QueuedKeys(g),
         NEW h, PromotesTo(g, k, h)
  PROVE  /\ QueuedKeys(h) = QueuedKeys(g) \ {k}
         /\ AdmittedKeys(h) = AdmittedKeys(g) \cup {k}
         /\ k \notin AdmittedKeys(g)
         /\ \A j \in Key : j # k => h.waiters[j] = g.waiters[j]
         /\ h.waiters[k].address = g.waiters[k].address
         /\ g.waiters[k].address \in Address
<1>1. k \in Key /\ g.waiters[k] \in Waiter /\ ~g.waiters[k].admitted
  BY DEF QueuedKeys, GlobalState
<1>2. h \in GlobalState
      /\ h.waiters = [g.waiters EXCEPT ![k] =
                        [g.waiters[k] EXCEPT !.admitted = TRUE, !.waker = NoWaker]]
  BY DEF PromotesTo
<1>3. \A j \in Key : j # k => h.waiters[j] = g.waiters[j]
  BY <1>2 DEF GlobalState
<1>4. h.waiters[k] = [g.waiters[k] EXCEPT !.admitted = TRUE, !.waker = NoWaker]
  BY <1>1, <1>2, Zenon DEF GlobalState
<1>5. /\ h.waiters[k] \in Waiter /\ h.waiters[k].admitted
      /\ h.waiters[k].address = g.waiters[k].address
      /\ g.waiters[k].address \in Address
  BY <1>1, <1>4, Zenon DEF Waiter, WakerOf
<1>6. h.waiters[k] # Vacant
  BY <1>5, VacantAssumption
<1>7. QED
  BY <1>1, <1>3, <1>5, <1>6 DEF QueuedKeys, AdmittedKeys

Vacates(g, k, e) ==
  /\ e \in GlobalState
  /\ e.global_running = g.global_running /\ e.queued = g.queued
  /\ e.next_seq = g.next_seq /\ e.ordered = g.ordered /\ e.fifo = g.fifo
  /\ e.address_running = g.address_running
  /\ e.waiters[k] = Vacant
  /\ \A j \in Key : j # k => e.waiters[j] = g.waiters[j]
  /\ AdmittedKeys(e) = AdmittedKeys(g) \ {k}
  /\ QueuedKeys(e) = QueuedKeys(g) \ {k}

\* What the removal of a waiter from the slab does to the sets of keys.
LEMMA VacateFields ==
  ASSUME NEW g \in GlobalState, NEW k \in Key,
         NEW e, e = [g EXCEPT !.waiters[k] = Vacant]
  PROVE  Vacates(g, k, e)
<1>1. e.waiters = [g.waiters EXCEPT ![k] = Vacant]
  BY DEF GlobalState
<1>2. e.waiters[k] = Vacant /\ \A j \in Key : j # k => e.waiters[j] = g.waiters[j]
  BY <1>1 DEF GlobalState
<1>3. e.waiters \in [Key -> Waiter \cup {Vacant}]
  BY <1>1 DEF GlobalState
<1>4. e \in GlobalState
  BY <1>3, Zenon DEF GlobalState
<1>5. AdmittedKeys(e) = AdmittedKeys(g) \ {k} /\ QueuedKeys(e) = QueuedKeys(g) \ {k}
  BY <1>2 DEF AdmittedKeys, QueuedKeys
<1>6. QED
  BY <1>2, <1>4, <1>5, Zenon DEF GlobalState, Vacates

-----------------------------------------------------------------------------
(* The guards of the acquire futures *)

\* A slot has the same tenants before and after.
SameTenants(g, h) ==
  \A j \in Key : /\ h.waiters[j] = Vacant <=> g.waiters[j] = Vacant
                 /\ g.waiters[j] # Vacant => h.waiters[j].address = g.waiters[j].address

\* try_promote neither adds nor removes a waiter.
LEMMA TryPromoteTenants ==
  ASSUME NEW g \in GlobalState, Indexed(g)
  PROVE  SameTenants(g, TryPromote(g))
<1>1. CASE Promoted(g) = NoKey
  BY <1>1 DEF TryPromote, SameTenants
<1>2. CASE Promoted(g) # NoKey
  <2> DEFINE k == Promoted(g)
             h == Promote(g, k)
  <2>1. k \in QueuedKeys(g)
    BY <1>2, SelectSound
  <2>2. PromotesTo(g, k, h)
    BY <2>1, PromoteFields
  <2>3. /\ AdmittedKeys(h) = AdmittedKeys(g) \cup {k}
        /\ \A j \in Key : j # k => h.waiters[j] = g.waiters[j]
        /\ h.waiters[k].address = g.waiters[k].address
    BY <2>1, <2>2, PromoteMoves
  <2>4. TryPromote(g) = h
    BY <1>2 DEF TryPromote
  <2> HIDE DEF h
  <2>5. h.waiters[k] # Vacant /\ g.waiters[k] # Vacant
    BY <2>1, <2>3 DEF AdmittedKeys, QueuedKeys
  <2>6. QED
    BY <2>3, <2>4, <2>5 DEF SameTenants
<1>3. QED
  BY <1>1, <1>2

\* A critical section that neither adds nor removes a waiter keeps the guards
\* in step; a request without a guard may take a permit.
LEMMA OwnedSame ==
  ASSUME NEW g, NEW h, SameTenants(g, h), NEW P, NEW Q,
         NEW held \in [Request -> Key \cup {NoKey}], Owned(g, held, P),
         \A r \in Request : r \in Q => r \in P \/ held[r] = NoKey
  PROVE  Owned(h, held, Q)
<1>1. ASSUME NEW r \in Request, held[r] # NoKey
      PROVE  /\ h.waiters[held[r]] # Vacant
             /\ h.waiters[held[r]].address = AddressOf[r]
             /\ r \notin Q
             /\ \A q \in Request : held[q] = held[r] => q = r
  <2>1. held[r] \in Key
    BY <1>1
  <2>2. QED
    BY <1>1, <2>1, Zenon DEF Owned, SameTenants
<1>2. \A k \in Key : h.waiters[k] # Vacant => \E r \in Request : held[r] = k
  BY Zenon DEF Owned, SameTenants
<1>3. QED
  BY <1>1, <1>2 DEF Owned

\* The waiter of key k leaves the slab.
Removes(g, k, h) ==
  /\ h.waiters[k] = Vacant
  /\ \A j \in Key : j # k =>
       /\ h.waiters[j] = Vacant <=> g.waiters[j] = Vacant
       /\ g.waiters[j] # Vacant => h.waiters[j].address = g.waiters[j].address

\* The waiter and the key of its guard go together, with or without a permit
\* for the request.
LEMMA OwnedDrop ==
  ASSUME NEW g, NEW h, NEW P, NEW Q,
         NEW held \in [Request -> Key \cup {NoKey}], Owned(g, held, P),
         NEW r \in Request, held[r] # NoKey, Removes(g, held[r], h),
         Q \subseteq P \cup {r},
         NEW left, left = [held EXCEPT ![r] = NoKey]
  PROVE  Owned(h, left, Q)
<1>1. left[r] = NoKey /\ \A q \in Request : q # r => left[q] = held[q]
  OBVIOUS
<1>2. \A q \in Request : held[q] = held[r] => q = r
  BY DEF Owned
<1>3. ASSUME NEW q \in Request, left[q] # NoKey
      PROVE  /\ h.waiters[left[q]] # Vacant
             /\ h.waiters[left[q]].address = AddressOf[q]
             /\ q \notin Q
             /\ \A p \in Request : left[p] = left[q] => p = q
  <2>1. q # r /\ left[q] = held[q]
    BY <1>1, <1>3
  <2>2. held[q] \in Key /\ held[q] # held[r] /\ held[q] # NoKey
    BY <1>2, <1>3, <2>1
  <2>3. /\ g.waiters[held[q]] # Vacant /\ g.waiters[held[q]].address = AddressOf[q]
        /\ q \notin P /\ \A p \in Request : held[p] = held[q] => p = q
    BY <2>2, Zenon DEF Owned
  <2>4. /\ h.waiters[held[q]] # Vacant /\ h.waiters[held[q]].address = AddressOf[q]
    BY <2>2, <2>3, Zenon DEF Removes
  <2>5. \A p \in Request : left[p] = left[q] => p = q
    BY <1>1, <1>3, <2>1, <2>3
  <2>6. QED
    BY <2>1, <2>3, <2>4, <2>5
<1>4. ASSUME NEW k \in Key, h.waiters[k] # Vacant
      PROVE  \E q \in Request : left[q] = k
  <2>1. k # held[r] /\ g.waiters[k] # Vacant
    BY <1>4, Zenon DEF Removes
  <2>2. PICK q \in Request : held[q] = k
    BY <2>1 DEF Owned
  <2>3. QED
    BY <1>1, <2>1, <2>2
<1>5. QED
  BY <1>3, <1>4 DEF Owned

\* A waiter in the slab belongs to exactly one acquire future.
LEMMA OwnerFacts ==
  ASSUME NEW g, NEW P, NEW held \in [Request -> Key \cup {NoKey}], Owned(g, held, P),
         NEW k \in Key, g.waiters[k] # Vacant
  PROVE  /\ Owner(held, k) \in Request
         /\ held[Owner(held, k)] = k
         /\ Owner(held, k) \notin P
         /\ AddressOf[Owner(held, k)] = g.waiters[k].address
         /\ \A r \in Request : held[r] = k => r = Owner(held, k)
<1>1. k # NoKey
  BY SchedulerAssumption
<1>2. \E r \in Request : held[r] = k
  BY DEF Owned
<1>3. Owner(held, k) \in Request /\ held[Owner(held, k)] = k
  BY <1>2 DEF Owner
<1>4. QED
  BY <1>1, <1>3 DEF Owned

-----------------------------------------------------------------------------
(* The line of waiting requests *)

\* `fifo` seen from the callers: as long, each key replaced by its owner.
LEMMA LineFields ==
  ASSUME NEW g \in GlobalState, Indexed(g), NEW held
  PROVE  /\ Len(g.fifo) \in Nat /\ Len(Line(g, held)) = Len(g.fifo)
         /\ \A i \in 1..Len(g.fifo) : /\ g.fifo[i] \in QueuedKeys(g)
                                      /\ Line(g, held)[i] = Owner(held, g.fifo[i])
<1>1. g.fifo \in Seq(Key)
  BY DEF GlobalState
<1>2. Len(g.fifo) \in Nat
  BY <1>1
<1>3. Len(Line(g, held)) = Len(g.fifo)
  BY <1>2 DEF Line
<1>4. \A i \in 1..Len(g.fifo) : g.fifo[i] \in QueuedKeys(g)
  BY DEF Indexed
<1>5. QED
  BY <1>2, <1>3, <1>4 DEF Line

\* What the callers see of the waiter at one place of the line.
LEMMA LineOwners ==
  ASSUME NEW g \in GlobalState, Indexed(g), NEW P,
         NEW held \in [Request -> Key \cup {NoKey}], Owned(g, held, P),
         NEW i \in 1..Len(g.fifo)
  PROVE  /\ Line(g, held)[i] \in Request /\ held[Line(g, held)[i]] = g.fifo[i]
         /\ AddressOf[Line(g, held)[i]] = g.waiters[g.fifo[i]].address
         /\ Line(g, held)[i] \in AgedIn(g, held) <=> g.waiters[g.fifo[i]].aged
<1> DEFINE k == g.fifo[i]
           r == Line(g, held)[i]
<1>1. k \in QueuedKeys(g) /\ r = Owner(held, k)
  BY LineFields
<1>2. k \in Key /\ g.waiters[k] # Vacant
  BY <1>1 DEF QueuedKeys
<1> HIDE DEF k, r
<1>3. r \in Request /\ held[r] = k /\ AddressOf[r] = g.waiters[k].address
  BY <1>1, <1>2, OwnerFacts
<1>4. ASSUME r \in AgedIn(g, held) PROVE g.waiters[k].aged
  <2>1. PICK j \in QueuedKeys(g) : g.waiters[j].aged /\ r = Owner(held, j)
    BY <1>4 DEF AgedIn
  <2>2. j \in Key /\ g.waiters[j] # Vacant
    BY DEF QueuedKeys
  <2>3. held[r] = j
    BY <2>1, <2>2, OwnerFacts
  <2> QED
    BY <1>3, <2>1, <2>3
<1>5. g.waiters[k].aged => r \in AgedIn(g, held)
  BY <1>1 DEF AgedIn
<1>6. QED
  BY <1>3, <1>4, <1>5 DEF k, r

\* A slot is free at the address while the requests of `running` run.
SlotFree(a, running) ==
  /\ Cardinality(running) < MaxTotal
  /\ Cardinality({r \in running : AddressOf[r] = a}) < MaxPerAddress

\* The counters say of every address whether it has a free slot.
SlotsCounted(g, held, P) ==
  \A a \in Address : SlotFree(a, PromotedIn(g, held) \cup P)
                       <=> HasGlobalCapacity(g) /\ AddressHasCapacity(g, a)

\* The operators of RequestAdmission for a queue q with aged requests old.
EligibleIn(q, running) == {i \in 1..Len(q) : SlotFree(AddressOf[q[i]], running)}

TurnIn(q, old, running) ==
  {i \in EligibleIn(q, running) :
     \/ \A j \in EligibleIn(q, running) : i <= j
     \/ /\ \A j \in EligibleIn(q, running) :
             \/ Priority(q[i]) < Priority(q[j])
             \/ Priority(q[i]) = Priority(q[j]) /\ i <= j
        /\ \A j \in EligibleIn(q, running) : q[j] \in old => i <= j}

WithoutIn(q, i) ==
  [j \in 1..(Len(q) - 1) |-> IF j < i THEN q[j] ELSE q[j + 1]]

\* While the client has a free slot, the waiters that may take it are the ones
\* waiter_is_eligible accepts.
LEMMA EligibleAgree ==
  ASSUME NEW g \in GlobalState, Indexed(g), NEW P,
         NEW held \in [Request -> Key \cup {NoKey}], Owned(g, held, P),
         SlotsCounted(g, held, P)
  PROVE  EligibleIn(Line(g, held), PromotedIn(g, held) \cup P)
           = IF HasGlobalCapacity(g) THEN EligibleFifo(g) ELSE {}
<1> DEFINE q == Line(g, held)
           R == PromotedIn(g, held) \cup P
<1>1. ASSUME NEW i \in 1..Len(g.fifo)
      PROVE  SlotFree(AddressOf[q[i]], R)
               <=> HasGlobalCapacity(g) /\ WaiterIsEligible(g, g.fifo[i])
  <2> DEFINE k == g.fifo[i]
  <2>1. k \in QueuedKeys(g) /\ AddressOf[q[i]] = g.waiters[k].address
    BY LineFields, LineOwners
  <2> HIDE DEF q, R
  <2>2. g.waiters[k] # Vacant /\ g.waiters[k] \in Waiter
    BY <2>1 DEF QueuedKeys, GlobalState
  <2>3. g.waiters[k].address \in Address
    BY <2>2 DEF Waiter
  <2>4. SlotFree(g.waiters[k].address, R)
          <=> HasGlobalCapacity(g) /\ AddressHasCapacity(g, g.waiters[k].address)
    BY <2>3, ZenonT(30) DEF R, SlotsCounted
  <2> QED
    BY <2>1, <2>2, <2>4 DEF WaiterIsEligible
<1>2. Len(q) = Len(g.fifo)
  BY LineFields
<1> HIDE DEF q, R
<1>3. QED
  BY <1>1, <1>2, ZenonT(30) DEF EligibleIn, EligibleFifo, q, R

\* VecDeque::remove at the place of the key: the rest closes up.
LEMMA RemovalExact ==
  ASSUME NEW fifo \in Seq(Key), Distinct(fifo), NEW i \in 1..Len(fifo)
  PROVE  RemoveFromFifo(fifo, fifo[i]) = WithoutIn(fifo, i)
<1> DEFINE at == CHOOSE m \in 1..Len(fifo) :
                   fifo[m] = fifo[i] /\ \A j \in 1..(m - 1) : fifo[j] # fifo[i]
<1>1. Len(fifo) \in Nat
  OBVIOUS
<1>2. \A j \in 1..(i - 1) : j \in 1..Len(fifo) /\ j # i
  BY <1>1
<1>3. \A j \in 1..(i - 1) : fifo[j] # fifo[i]
  BY <1>2 DEF Distinct
<1>4. at \in 1..Len(fifo) /\ fifo[at] = fifo[i]
  BY <1>3
<1>5. at = i
  <2> HIDE DEF at
  <2> QED
    BY <1>4 DEF Distinct
<1>6. RemoveFromFifo(fifo, fifo[i])
        = [j \in 1..(Len(fifo) - 1) |-> IF j < at THEN fifo[j] ELSE fifo[j + 1]]
  BY DEF RemoveFromFifo
<1> HIDE DEF at
<1>7. QED
  BY <1>5, <1>6 DEF WithoutIn

-----------------------------------------------------------------------------
(* Whose turn it is *)

\* A waiter is queued with the priority of its request.
Matching(g, held) ==
  \A r \in Request : held[r] # NoKey => g.waiters[held[r]].urgency = Priority(r)

\* Who came first has aged first.
AgedInOrder(g) ==
  \A i, j \in 1..Len(g.fifo) :
    i < j /\ g.waiters[g.fifo[j]].aged => g.waiters[g.fifo[i]].aged

\* The best entry, at its place of `fifo`: no eligible waiter is more urgent, and
\* the equally urgent ones came later.
LEMMA BestPlace ==
  ASSUME NEW g \in GlobalState, Indexed(g), EligibleOrdered(g) # {},
         NEW i \in EligibleFifo(g), g.fifo[i] = BestEntry(g)[3], NEW j \in EligibleFifo(g)
  PROVE  \/ g.waiters[g.fifo[i]].urgency < g.waiters[g.fifo[j]].urgency
         \/ g.waiters[g.fifo[i]].urgency = g.waiters[g.fifo[j]].urgency /\ i <= j
<1> DEFINE k == g.fifo[i]
           m == g.fifo[j]
           e == BestEntry(g)
           f == <<g.waiters[m].urgency, g.waiters[m].seq, m>>
<1>1. e \in EligibleOrdered(g) /\ \A x \in EligibleOrdered(g) : ~Precedes(x, e)
  BY BestEntryEligible
<1>2. /\ i \in 1..Len(g.fifo) /\ j \in 1..Len(g.fifo) /\ g.fifo \in Seq(Key)
      /\ WaiterIsEligible(g, m)
  BY DEF EligibleFifo, GlobalState
<1>3. m \in QueuedKeys(g) /\ k \in QueuedKeys(g)
  BY <1>2 DEF Indexed
<1>4. f \in EligibleOrdered(g)
  BY <1>2, <1>3 DEF Indexed, EligibleOrdered
<1>5. PICK b \in QueuedKeys(g) : e = <<g.waiters[b].urgency, g.waiters[b].seq, b>>
  BY <1>1 DEF Indexed, EligibleOrdered
<1>6. e[1] = g.waiters[k].urgency /\ e[2] = g.waiters[k].seq
  BY <1>5
<1>7. g.waiters[m] \in Waiter /\ g.waiters[k] \in Waiter
  BY <1>3 DEF QueuedKeys, GlobalState
<1>8. /\ g.waiters[m].urgency \in Nat /\ g.waiters[m].seq \in Nat
      /\ g.waiters[k].urgency \in Nat /\ g.waiters[k].seq \in Nat
  BY <1>7 DEF Waiter
<1>9. ~Precedes(f, e)
  BY <1>1, <1>4
<1>10. j < i => g.waiters[m].seq < g.waiters[k].seq
  BY <1>2 DEF Indexed
<1> HIDE DEF k, m, e
<1>11. \/ g.waiters[k].urgency < g.waiters[m].urgency
       \/ /\ g.waiters[k].urgency = g.waiters[m].urgency
          /\ ~(g.waiters[m].seq < g.waiters[k].seq)
  BY <1>6, <1>8, <1>9 DEF Precedes
<1>12. QED
  BY <1>2, <1>10, <1>11 DEF k, m

\* select_waiter picks a waiter whose turn it is.
LEMMA PromotedTurn ==
  ASSUME NEW g \in GlobalState, Indexed(g), NEW P,
         NEW held \in [Request -> Key \cup {NoKey}], Owned(g, held, P),
         SlotsCounted(g, held, P), Matching(g, held), AgedInOrder(g), Promoted(g) # NoKey
  PROVE  \E i \in TurnIn(Line(g, held), AgedIn(g, held), PromotedIn(g, held) \cup P) :
           i \in 1..Len(g.fifo) /\ g.fifo[i] = Promoted(g)
<1> DEFINE q == Line(g, held)
           E == EligibleFifo(g)
           R == PromotedIn(g, held) \cup P
           k == Promoted(g)
           best == BestEntry(g)[3]
           o == OldestIndex(g)
           oldest == g.fifo[o]
<1>2. k \in QueuedKeys(g) /\ WaiterIsEligible(g, k) /\ HasGlobalCapacity(g)
  BY SelectSound
<1>3. PICK i \in 1..Len(g.fifo) : g.fifo[i] = k
  BY <1>2 DEF Indexed
<1>4. i \in E
  BY <1>2, <1>3 DEF EligibleFifo
<1>5. EligibleIn(q, R) = E
  BY <1>2, EligibleAgree
<1>6. o \in E /\ \A j \in E : o <= j
  BY <1>4, OldestIndexEligible
<1>7. /\ EligibleOrdered(g) # {}
      /\ k = best \/ k = oldest
      /\ k # oldest => ~g.waiters[oldest].aged
  <2>1. k = SelectWaiter(g)
    BY <1>2 DEF Promoted
  <2>2. EligibleOrdered(g) # {} /\ E # {}
    BY <2>1 DEF SelectWaiter
  <2>3. k = IF oldest # best /\ (g.waiters[oldest].aged \/ AgedByCount(g, oldest, best))
              THEN oldest ELSE best
    BY <2>1, <2>2 DEF SelectWaiter
  <2> HIDE DEF k, best, oldest
  <2> QED
    BY <2>2, <2>3
<1>8. CASE k = oldest
  <2>1. i = o
    BY <1>3, <1>6, <1>8, IndexedDistinct DEF Distinct, EligibleFifo
  <2>2. i \in TurnIn(q, AgedIn(g, held), R)
    <3> HIDE DEF q, E, R, o
    <3> QED
      BY <1>4, <1>5, <1>6, <2>1, ZenonT(30) DEF TurnIn
  <2> QED
    BY <1>3, <2>2
<1>9. CASE k # oldest
  <2>1. k = best /\ ~g.waiters[oldest].aged
    BY <1>7, <1>9
  <2>2. ASSUME NEW j \in E
        PROVE  /\ j \in 1..Len(g.fifo) /\ q[j] \in Request /\ held[q[j]] = g.fifo[j]
               /\ q[j] \in AgedIn(g, held) <=> g.waiters[g.fifo[j]].aged
    <3>1. j \in 1..Len(g.fifo)
      BY DEF EligibleFifo
    <3> QED
      BY <3>1, LineOwners
  <2>3. ASSUME NEW j \in E PROVE Priority(q[j]) = g.waiters[g.fifo[j]].urgency
    <3>1. g.fifo[j] \in Key
      BY <2>2, LineFields DEF QueuedKeys
    <3>2. held[q[j]] # NoKey
      BY <2>2, <3>1, SchedulerAssumption
    <3> QED
      BY <2>2, <3>2 DEF Matching
  <2>4. ASSUME NEW j \in E PROVE q[j] \notin AgedIn(g, held)
    <3>1. o \in 1..Len(g.fifo) /\ j \in 1..Len(g.fifo) /\ o <= j /\ g.fifo \in Seq(Key)
      BY <1>6, <2>2 DEF GlobalState
    <3>2. ~g.waiters[g.fifo[j]].aged
      <4> HIDE DEF o
      <4>1. o = j \/ o < j
        BY <3>1
      <4> QED
        BY <2>1, <3>1, <4>1 DEF AgedInOrder
    <3> QED
      BY <2>2, <3>2
  <2>5. ASSUME NEW j \in E
        PROVE  \/ Priority(q[i]) < Priority(q[j])
               \/ Priority(q[i]) = Priority(q[j]) /\ i <= j
    <3>1. \/ g.waiters[g.fifo[i]].urgency < g.waiters[g.fifo[j]].urgency
          \/ g.waiters[g.fifo[i]].urgency = g.waiters[g.fifo[j]].urgency /\ i <= j
      BY <1>3, <1>4, <1>7, <2>1, BestPlace, ZenonT(30)
    <3>2. /\ Priority(q[i]) = g.waiters[g.fifo[i]].urgency
          /\ Priority(q[j]) = g.waiters[g.fifo[j]].urgency
      BY <1>4, <2>3, ZenonT(30)
    <3> QED
      BY <3>1, <3>2
  <2>6. i \in TurnIn(q, AgedIn(g, held), R)
    <3> HIDE DEF q, E, R, o
    <3> QED
      BY <1>4, <1>5, <2>4, <2>5, ZenonT(30) DEF TurnIn
  <2> QED
    BY <1>3, <2>6
<1>10. QED
  BY <1>8, <1>9, ZenonT(30)

-----------------------------------------------------------------------------
(* What the callers see after a step *)

\* A waiter at place i leaves the line; the others are as they were.
Departs(g, h, i) ==
  /\ h.fifo = RemoveFromFifo(g.fifo, g.fifo[i])
  /\ QueuedKeys(h) = QueuedKeys(g) \ {g.fifo[i]}
  /\ \A j \in QueuedKeys(h) : h.waiters[j] = g.waiters[j]

LEMMA DepartsLine ==
  ASSUME NEW g \in GlobalState, Indexed(g), NEW P,
         NEW held \in [Request -> Key \cup {NoKey}], Owned(g, held, P),
         NEW h, NEW i \in 1..Len(g.fifo), Departs(g, h, i)
  PROVE  /\ Line(h, held) = WithoutIn(Line(g, held), i)
         /\ AgedIn(h, held) = AgedIn(g, held) \ {Line(g, held)[i]}
<1> DEFINE n == Len(g.fifo)
           k == g.fifo[i]
<1>1. /\ n \in Nat /\ Len(Line(g, held)) = n
      /\ \A j \in 1..n : Line(g, held)[j] = Owner(held, g.fifo[j])
  BY LineFields
<1>2. h.fifo = WithoutIn(g.fifo, i)
  BY IndexedDistinct, RemovalExact, ZenonT(30) DEF Departs, GlobalState
<1>3. /\ Len(h.fifo) = n - 1
      /\ \A j \in 1..(n - 1) : h.fifo[j] = IF j < i THEN g.fifo[j] ELSE g.fifo[j + 1]
  BY <1>1, <1>2 DEF WithoutIn
<1>4. \A j \in 1..(n - 1) : j \in 1..n /\ j + 1 \in 1..n
  BY <1>1
<1>5. Line(h, held) = WithoutIn(Line(g, held), i)
  <2> DEFINE q == Line(g, held)
  <2>1. Line(h, held) = [j \in 1..(n - 1) |-> Owner(held, h.fifo[j])]
    BY <1>3 DEF Line
  <2>2. WithoutIn(q, i) = [j \in 1..(n - 1) |-> IF j < i THEN q[j] ELSE q[j + 1]]
    BY <1>1 DEF WithoutIn
  <2>3. \A j \in 1..(n - 1) :
          Owner(held, h.fifo[j]) = IF j < i THEN q[j] ELSE q[j + 1]
    <3> HIDE DEF q, n
    <3> QED
      BY <1>1, <1>3, <1>4 DEF q
  <2> HIDE DEF q, n
  <2> QED
    BY <2>1, <2>2, <2>3 DEF q
<1>6. k \in QueuedKeys(g) /\ Line(g, held)[i] = Owner(held, k)
  BY <1>1, LineFields
<1>7. ASSUME NEW j \in QueuedKeys(g) PROVE held[Owner(held, j)] = j
  <2>1. j \in Key /\ g.waiters[j] # Vacant
    BY DEF QueuedKeys
  <2> QED
    BY <2>1, OwnerFacts
<1>8. {j \in QueuedKeys(h) : h.waiters[j].aged}
        = {j \in QueuedKeys(g) : g.waiters[j].aged} \ {k}
  BY DEF Departs
<1>9. AgedIn(h, held) = AgedIn(g, held) \ {Owner(held, k)}
  <2> HIDE DEF k
  <2> QED
    BY <1>6, <1>7, <1>8 DEF AgedIn
<1>10. QED
  BY <1>5, <1>6, <1>9

Handed(g, h, held, P) ==
  LET q == Line(g, held)
      R == PromotedIn(g, held) \cup P
  IN  \/ /\ EligibleIn(q, R) = {}
         /\ Line(h, held) = q
         /\ AgedIn(h, held) = AgedIn(g, held)
         /\ PromotedIn(h, held) = PromotedIn(g, held)
      \/ \E i \in TurnIn(q, AgedIn(g, held), R) :
           /\ Line(h, held) = WithoutIn(q, i)
           /\ AgedIn(h, held) = AgedIn(g, held) \ {q[i]}
           /\ PromotedIn(h, held) = PromotedIn(g, held) \cup {q[i]}

LEMMA TryPromoteHands ==
  ASSUME NEW g \in GlobalState, Indexed(g), NEW P,
         NEW held \in [Request -> Key \cup {NoKey}], Owned(g, held, P),
         SlotsCounted(g, held, P), Matching(g, held), AgedInOrder(g)
  PROVE  Handed(g, TryPromote(g), held, P)
<1>2. CASE Promoted(g) = NoKey
  <2>1. TryPromote(g) = g
    BY <1>2 DEF TryPromote
  <2>2. Conserving(g)
    BY <1>2, SelectComplete
  <2>3. HasGlobalCapacity(g) => EligibleFifo(g) = {}
    BY <2>2, LineFields DEF Conserving, EligibleFifo
  <2>4. EligibleIn(Line(g, held), PromotedIn(g, held) \cup P) = {}
    BY <2>3, EligibleAgree
  <2> QED
    BY <2>1, <2>4, ZenonT(30) DEF Handed
<1>3. CASE Promoted(g) # NoKey
  <2> DEFINE k == Promoted(g)
             h == Promote(g, k)
             q == Line(g, held)
             T == TurnIn(q, AgedIn(g, held), PromotedIn(g, held) \cup P)
  <2>1. PICK i \in T : i \in 1..Len(g.fifo) /\ g.fifo[i] = k
    BY <1>3, PromotedTurn, ZenonT(30)
  <2>2. TryPromote(g) = h
    BY <1>3 DEF TryPromote
  <2>3. k \in QueuedKeys(g)
    BY <1>3, SelectSound
  <2>4. PromotesTo(g, k, h)
    BY <2>3, PromoteFields
  <2> HIDE DEF h, k
  <2>5. /\ QueuedKeys(h) = QueuedKeys(g) \ {k}
        /\ AdmittedKeys(h) = AdmittedKeys(g) \cup {k}
        /\ \A j \in Key : j # k => h.waiters[j] = g.waiters[j]
    BY <2>3, <2>4, PromoteMoves
  <2>6. h.fifo = RemoveFromFifo(g.fifo, k)
    BY <2>4 DEF PromotesTo
  <2>7. \A j \in QueuedKeys(h) : h.waiters[j] = g.waiters[j]
    BY <2>5 DEF QueuedKeys
  <2>8. Departs(g, h, i)
    BY <2>1, <2>5, <2>6, <2>7 DEF Departs
  <2>9. Line(h, held) = WithoutIn(q, i) /\ AgedIn(h, held) = AgedIn(g, held) \ {q[i]}
    BY <2>1, <2>8, DepartsLine
  <2>10. q[i] = Owner(held, k)
    BY <2>1, LineFields
  <2>11. PromotedIn(h, held) = PromotedIn(g, held) \cup {Owner(held, k)}
    BY <2>5 DEF PromotedIn
  <2> HIDE DEF q
  <2> QED
    BY <2>1, <2>2, <2>9, <2>10, <2>11 DEF Handed, q
<1>4. QED
  BY <1>2, <1>3

\* A waiter joins the slab and the end of `fifo`; the others are as they were.
Joins(g, h, k) ==
  /\ g.waiters[k] = Vacant
  /\ h.fifo = Append(g.fifo, k)
  /\ QueuedKeys(h) = QueuedKeys(g) \cup {k}
  /\ AdmittedKeys(h) = AdmittedKeys(g)
  /\ ~h.waiters[k].aged
  /\ \A j \in Key : j # k => h.waiters[j] = g.waiters[j]

\* The guards once the one of r holds the key k.
Guarded(held, r, k) == [held EXCEPT ![r] = k]

\* The request joins the end of the line, and nothing else changes for a caller.
LEMMA JoinsLine ==
  ASSUME NEW g \in GlobalState, Indexed(g), NEW P,
         NEW held \in [Request -> Key \cup {NoKey}], Owned(g, held, P),
         NEW r \in Request, held[r] = NoKey, NEW k \in Key, NEW h, Joins(g, h, k)
  PROVE  /\ Line(h, Guarded(held, r, k)) = Append(Line(g, held), r)
         /\ AgedIn(h, Guarded(held, r, k)) = AgedIn(g, held)
         /\ PromotedIn(h, Guarded(held, r, k)) = PromotedIn(g, held)
<1> DEFINE f == g.fifo
           n == Len(f)
           q == Line(g, held)
           now == Guarded(held, r, k)
<1>1. f \in Seq(Key) /\ n \in Nat
  BY DEF GlobalState
<1>2. /\ g.waiters[k] = Vacant /\ h.fifo = Append(f, k)
      /\ QueuedKeys(h) = QueuedKeys(g) \cup {k} /\ AdmittedKeys(h) = AdmittedKeys(g)
      /\ ~h.waiters[k].aged /\ \A j \in Key : j # k => h.waiters[j] = g.waiters[j]
  BY DEF Joins
<1>3. now[r] = k /\ \A p \in Request : p # r => now[p] = held[p]
  BY DEF Guarded
<1>4. k # NoKey
  BY SchedulerAssumption
<1> HIDE DEF now
<1>5. Owner(now, k) = r
  <2>1. \A p \in Request : held[p] # k
    BY <1>2, <1>4 DEF Owned
  <2>2. \A p \in Request : now[p] = k => p = r
    BY <1>3, <2>1
  <2> QED
    BY <1>3, <2>2 DEF Owner
<1>6. ASSUME NEW j \in Key, g.waiters[j] # Vacant
      PROVE  j # k /\ Owner(now, j) = Owner(held, j)
  <2> DEFINE o == Owner(held, j)
  <2>1. o \in Request /\ held[o] = j /\ \A p \in Request : held[p] = j => p = o
    BY <1>6, OwnerFacts
  <2>2. j # k /\ j # NoKey
    BY <1>2, <1>6, SchedulerAssumption
  <2> HIDE DEF o
  <2>3. now[o] = j /\ \A p \in Request : now[p] = j => p = o
    BY <1>3, <2>1, <2>2
  <2>4. Owner(now, j) \in Request /\ now[Owner(now, j)] = j
    BY <2>1, <2>3 DEF Owner
  <2> QED
    BY <2>2, <2>3, <2>4 DEF o
<1>7. PromotedIn(h, now) = PromotedIn(g, held)
  BY <1>2, <1>6 DEF PromotedIn, AdmittedKeys
<1>8. AgedIn(h, now) = AgedIn(g, held)
  <2>1. {j \in QueuedKeys(h) : h.waiters[j].aged} = {j \in QueuedKeys(g) : g.waiters[j].aged}
    BY <1>2 DEF QueuedKeys
  <2> QED
    BY <1>6, <2>1 DEF AgedIn, QueuedKeys
<1>9. /\ Len(q) = n
      /\ \A i \in 1..n : f[i] \in QueuedKeys(g) /\ q[i] = Owner(held, f[i])
  BY LineFields
<1>10. /\ Len(h.fifo) = n + 1 /\ h.fifo[n + 1] = k
       /\ \A i \in 1..n : h.fifo[i] = f[i]
  BY <1>1, <1>2
<1>11. \A i \in 1..n : Owner(now, f[i]) = q[i]
  BY <1>6, <1>9 DEF QueuedKeys
<1>12. q \in Seq(Request)
  <2>1. \A i \in 1..n : q[i] \in Request
    BY LineOwners
  <2>2. q = [i \in 1..n |-> Owner(held, f[i])]
    BY DEF Line
  <2> HIDE DEF q, n
  <2>3. q = [i \in 1..n |-> q[i]]
    BY <2>2
  <2> QED
    BY <1>1, <2>1, <2>3
<1>13. Line(h, now) = [i \in 1..(n + 1) |-> Owner(now, h.fifo[i])]
  BY <1>10 DEF Line
<1> HIDE DEF q, n, f
<1>14. Append(q, r) = [i \in 1..(n + 1) |-> IF i = n + 1 THEN r ELSE q[i]]
  <2> DEFINE s == Append(q, r)
  <2>1. /\ s \in Seq(Request) /\ Len(s) = n + 1 /\ s[n + 1] = r
        /\ \A i \in 1..n : s[i] = q[i]
    BY <1>1, <1>9, <1>12
  <2> HIDE DEF s
  <2>2. s = [i \in 1..(n + 1) |-> s[i]]
    BY <2>1
  <2>3. \A i \in 1..(n + 1) : s[i] = IF i = n + 1 THEN r ELSE q[i]
    BY <1>1, <2>1
  <2>4. s = [i \in 1..(n + 1) |-> IF i = n + 1 THEN r ELSE q[i]]
    BY <2>2, <2>3
  <2> QED
    BY <2>4 DEF s
<1>15. \A i \in 1..(n + 1) : Owner(now, h.fifo[i]) = IF i = n + 1 THEN r ELSE q[i]
  BY <1>1, <1>5, <1>10, <1>11
<1>16. [i \in 1..(n + 1) |-> Owner(now, h.fifo[i])]
         = [i \in 1..(n + 1) |-> IF i = n + 1 THEN r ELSE q[i]]
  BY <1>15
<1>17. Line(h, now) = Append(q, r)
  BY <1>13, <1>14, <1>16
<1>18. QED
  BY <1>7, <1>8, <1>17 DEF q, now

\* The waiter at place i ages; the others are as they were.
Ages(g, h, i) ==
  /\ h.fifo = g.fifo /\ QueuedKeys(h) = QueuedKeys(g)
  /\ AdmittedKeys(h) = AdmittedKeys(g)
  /\ h.waiters[g.fifo[i]].aged
  /\ \A j \in Key : j # g.fifo[i] => h.waiters[j] = g.waiters[j]

\* The request at that place ages for the callers too.
LEMMA AgesLine ==
  ASSUME NEW g \in GlobalState, Indexed(g), NEW held,
         NEW h, NEW i \in 1..Len(g.fifo), Ages(g, h, i)
  PROVE  /\ Line(h, held) = Line(g, held)
         /\ AgedIn(h, held) = AgedIn(g, held) \cup {Line(g, held)[i]}
         /\ PromotedIn(h, held) = PromotedIn(g, held)
<1> DEFINE k == g.fifo[i]
<1>1. k \in QueuedKeys(g) /\ Line(g, held)[i] = Owner(held, k)
  BY LineFields
<1>2. {j \in QueuedKeys(h) : h.waiters[j].aged} = {j \in QueuedKeys(g) : g.waiters[j].aged} \cup {k}
  BY <1>1 DEF Ages, QueuedKeys
<1> HIDE DEF k
<1>3. AgedIn(h, held) = AgedIn(g, held) \cup {Owner(held, k)}
  BY <1>2 DEF AgedIn
<1>4. QED
  BY <1>1, <1>3 DEF Ages, Line, PromotedIn

\* Nothing the callers see of the queue changes.
SameLine(g, h) ==
  /\ h.fifo = g.fifo /\ QueuedKeys(h) = QueuedKeys(g)
  /\ \A k \in QueuedKeys(g) : /\ h.waiters[k].aged = g.waiters[k].aged
                              /\ h.waiters[k].urgency = g.waiters[k].urgency

\* The owners are the same: so is what the callers see.
LEMMA SameView ==
  ASSUME NEW g, NEW h, NEW held, SameLine(g, h)
  PROVE  /\ Line(h, held) = Line(g, held)
         /\ AgedIn(h, held) = AgedIn(g, held)
         /\ AdmittedKeys(h) = AdmittedKeys(g) => PromotedIn(h, held) = PromotedIn(g, held)
<1>1. Line(h, held) = Line(g, held)
  BY DEF SameLine, Line
<1>2. {j \in QueuedKeys(h) : h.waiters[j].aged} = {j \in QueuedKeys(g) : g.waiters[j].aged}
  BY DEF SameLine
<1>3. QED
  BY <1>1, <1>2 DEF AgedIn, PromotedIn

\* The same slab and the same `fifo`.
LEMMA SameSlab ==
  ASSUME NEW g, NEW h, h.fifo = g.fifo, h.waiters = g.waiters
  PROVE  SameLine(g, h) /\ AdmittedKeys(h) = AdmittedKeys(g)
BY DEF SameLine, QueuedKeys, AdmittedKeys

\* A waiter of h is a waiter of g, and not the one with key k.
Emptied(g, h, k) ==
  \A j \in Key : h.waiters[j] # Vacant => j # k /\ g.waiters[j] # Vacant

\* The guards without the key of r.
Unguarded(held, r) == [held EXCEPT ![r] = NoKey]

\* Once the key of r is vacant, taking it out of the guard changes nothing.
LEMMA GuardLeaves ==
  ASSUME NEW g, NEW P, NEW held \in [Request -> Key \cup {NoKey}], Owned(g, held, P),
         NEW r \in Request, held[r] # NoKey,
         NEW h \in GlobalState, Indexed(h), Emptied(g, h, held[r])
  PROVE  /\ Line(h, Unguarded(held, r)) = Line(h, held)
         /\ AgedIn(h, Unguarded(held, r)) = AgedIn(h, held)
         /\ PromotedIn(h, Unguarded(held, r)) = PromotedIn(h, held)
<1> DEFINE left == Unguarded(held, r)
<1>1. ASSUME NEW j \in Key, h.waiters[j] # Vacant PROVE Owner(left, j) = Owner(held, j)
  <2> DEFINE o == Owner(held, j)
  <2>1. /\ j # held[r] /\ g.waiters[j] # Vacant /\ j # NoKey
        /\ o \in Request /\ held[o] = j /\ \A q \in Request : held[q] = j => q = o
    <3>1. j # held[r] /\ g.waiters[j] # Vacant /\ j # NoKey
      BY <1>1, SchedulerAssumption DEF Emptied
    <3> QED
      BY <3>1, OwnerFacts
  <2> HIDE DEF o
  <2>2. left[o] = j /\ \A q \in Request : left[q] = j => q = o
    BY <2>1 DEF Unguarded
  <2>3. Owner(left, j) \in Request /\ left[Owner(left, j)] = j
    BY <2>1, <2>2 DEF Owner
  <2> QED
    BY <2>2, <2>3 DEF o
<1> HIDE DEF left
<1>2. \A i \in 1..Len(h.fifo) : Owner(left, h.fifo[i]) = Owner(held, h.fifo[i])
  BY <1>1, LineFields DEF QueuedKeys
<1>3. Line(h, left) = Line(h, held)
  BY <1>2 DEF Line
<1>4. AgedIn(h, left) = AgedIn(h, held)
  BY <1>1 DEF AgedIn, QueuedKeys
<1>5. PromotedIn(h, left) = PromotedIn(h, held)
  BY <1>1 DEF PromotedIn, AdmittedKeys
<1>6. QED
  BY <1>3, <1>4, <1>5 DEF left

\* A promoted waiter leaves the slab: its request is not promoted any more.
LEMMA PromotedLeaves ==
  ASSUME NEW g, NEW P, NEW held \in [Request -> Key \cup {NoKey}], Owned(g, held, P),
         NEW r \in Request, held[r] \in AdmittedKeys(g),
         NEW h, AdmittedKeys(h) = AdmittedKeys(g) \ {held[r]}
  PROVE  /\ r \in PromotedIn(g, held) /\ r \notin P
         /\ PromotedIn(h, held) = PromotedIn(g, held) \ {r}
<1>1. \A j \in AdmittedKeys(g) :
        held[Owner(held, j)] = j /\ Owner(held, j) \notin P
          /\ \A q \in Request : held[q] = j => q = Owner(held, j)
  <2>1. \A j \in AdmittedKeys(g) : j \in Key /\ g.waiters[j] # Vacant
    BY DEF AdmittedKeys
  <2> QED
    BY <2>1, OwnerFacts
<1>2. r = Owner(held, held[r])
  BY <1>1
<1>3. QED
  BY <1>1, <1>2 DEF PromotedIn

\* The waiter of key k leaves the slab, and no place of `fifo` changes.
Cleared(g, h, k) ==
  /\ h.fifo = g.fifo
  /\ h.waiters[k] = Vacant
  /\ \A j \in Key : j # k => h.waiters[j] = g.waiters[j]

\* A promoted waiter leaves the slab and its guard: its request is not promoted
\* any more, and nothing else changes for a caller.
LEMMA ClearedView ==
  ASSUME NEW g, NEW P, NEW held \in [Request -> Key \cup {NoKey}], Owned(g, held, P),
         NEW r \in Request, held[r] \in AdmittedKeys(g),
         NEW h \in GlobalState, Indexed(h), Cleared(g, h, held[r])
  PROVE  /\ Line(h, Unguarded(held, r)) = Line(g, held)
         /\ AgedIn(h, Unguarded(held, r)) = AgedIn(g, held)
         /\ PromotedIn(h, Unguarded(held, r)) = PromotedIn(g, held) \ {r}
         /\ r \in PromotedIn(g, held) /\ r \notin P
         /\ SameLine(g, h)
<1>1. held[r] \in Key /\ held[r] # NoKey /\ held[r] \notin QueuedKeys(g)
  BY SchedulerAssumption DEF AdmittedKeys, QueuedKeys
<1>2. /\ QueuedKeys(h) = QueuedKeys(g)
      /\ AdmittedKeys(h) = AdmittedKeys(g) \ {held[r]}
  BY <1>1 DEF QueuedKeys, AdmittedKeys, Cleared
<1>3. SameLine(g, h)
  BY <1>1, <1>2 DEF SameLine, QueuedKeys, Cleared
<1>4. Line(h, held) = Line(g, held) /\ AgedIn(h, held) = AgedIn(g, held)
  BY <1>3, SameView
<1>5. /\ r \in PromotedIn(g, held) /\ r \notin P
      /\ PromotedIn(h, held) = PromotedIn(g, held) \ {r}
  BY <1>2, PromotedLeaves
<1>6. /\ Line(h, Unguarded(held, r)) = Line(h, held)
      /\ AgedIn(h, Unguarded(held, r)) = AgedIn(h, held)
      /\ PromotedIn(h, Unguarded(held, r)) = PromotedIn(h, held)
  <2>1. Emptied(g, h, held[r])
    BY DEF Emptied, Cleared
  <2> QED
    BY <1>1, <2>1, GuardLeaves
<1>7. QED
  BY <1>3, <1>4, <1>5, <1>6

-----------------------------------------------------------------------------
(* The order of aging, and the urgencies *)

LEMMA SameLineOrder ==
  ASSUME NEW g \in GlobalState, Indexed(g), AgedInOrder(g), NEW h, SameLine(g, h)
  PROVE  AgedInOrder(h)
<1>1. \A i \in 1..Len(g.fifo) : g.fifo[i] \in QueuedKeys(g)
  BY LineFields
<1>2. QED
  BY <1>1 DEF SameLine, AgedInOrder

LEMMA DepartsOrder ==
  ASSUME NEW g \in GlobalState, Indexed(g), AgedInOrder(g), NEW h,
         NEW i \in 1..Len(g.fifo), Departs(g, h, i)
  PROVE  AgedInOrder(h)
<1>1. g.fifo \in Seq(Key) /\ Distinct(g.fifo) /\ Entries(g.fifo) = QueuedKeys(g)
  BY IndexedDistinct, ZenonT(30) DEF GlobalState
<1>2. Shortened(g.fifo, g.fifo[i], h.fifo)
  BY <1>1, FifoRemoval DEF Departs, Entries
<1>3. \A j \in 1..Len(h.fifo) : h.fifo[j] \in QueuedKeys(h)
  BY <1>1, <1>2, ZenonT(30) DEF Shortened, Departs, Entries
<1>4. ASSUME NEW a \in 1..Len(h.fifo), NEW b \in 1..Len(h.fifo), a < b,
             h.waiters[h.fifo[b]].aged
      PROVE  h.waiters[h.fifo[a]].aged
  <2>1. PICK m \in 1..Len(g.fifo), n \in 1..Len(g.fifo) :
          m < n /\ h.fifo[a] = g.fifo[m] /\ h.fifo[b] = g.fifo[n]
    BY <1>2, <1>4 DEF Shortened
  <2>2. h.waiters[h.fifo[a]] = g.waiters[g.fifo[m]] /\ h.waiters[h.fifo[b]] = g.waiters[g.fifo[n]]
    BY <1>3, <2>1, ZenonT(30) DEF Departs
  <2> QED
    BY <1>4, <2>1, <2>2 DEF AgedInOrder
<1>5. QED
  BY <1>4 DEF AgedInOrder

\* The new waiter is the last, and it has not aged.
LEMMA JoinsOrder ==
  ASSUME NEW g \in GlobalState, Indexed(g), AgedInOrder(g), NEW k \in Key,
         NEW h, Joins(g, h, k)
  PROVE  AgedInOrder(h)
<1> DEFINE f == g.fifo
           n == Len(f)
<1>1. f \in Seq(Key) /\ n \in Nat
  BY DEF GlobalState
<1>2. /\ Len(h.fifo) = n + 1 /\ h.fifo[n + 1] = k
      /\ \A i \in 1..n : h.fifo[i] = f[i]
  BY <1>1 DEF Joins
<1>3. \A i \in 1..n : f[i] \in Key /\ f[i] # k
  BY LineFields, ZenonT(30) DEF Joins, QueuedKeys
<1>4. \A i \in 1..n : h.waiters[h.fifo[i]] = g.waiters[f[i]]
  BY <1>2, <1>3 DEF Joins
<1>5. ASSUME NEW i \in 1..(n + 1), NEW j \in 1..(n + 1), i < j, h.waiters[h.fifo[j]].aged
      PROVE  h.waiters[h.fifo[i]].aged
  <2>1. j # n + 1
    BY <1>2, <1>5 DEF Joins
  <2>2. i \in 1..n /\ j \in 1..n
    BY <1>1, <1>5, <2>1
  <2> QED
    BY <1>4, <1>5, <2>2, ZenonT(30) DEF AgedInOrder
<1>6. QED
  BY <1>2, <1>5 DEF AgedInOrder

\* The waiters age from the front.
LEMMA AgesOrder ==
  ASSUME NEW g \in GlobalState, Indexed(g), AgedInOrder(g),
         NEW h, NEW i \in 1..Len(g.fifo), Ages(g, h, i),
         \A j \in 1..(i - 1) : g.waiters[g.fifo[j]].aged
  PROVE  AgedInOrder(h)
<1> DEFINE f == g.fifo
           k == f[i]
<1>1. f \in Seq(Key) /\ Len(f) \in Nat /\ \A j \in 1..Len(f) : f[j] \in Key
  BY DEF GlobalState
<1>2. /\ h.fifo = f /\ h.waiters[k].aged
      /\ \A j \in Key : j # k => h.waiters[j] = g.waiters[j]
  BY DEF Ages
<1> HIDE DEF k
<1>3. ASSUME NEW m \in 1..Len(f), NEW n \in 1..Len(f), m < n, h.waiters[f[n]].aged
      PROVE  h.waiters[f[m]].aged
  <2>1. CASE n = i
    <3>1. m \in 1..(i - 1)
      BY <1>1, <1>3, <2>1
    <3> QED
      BY <1>1, <1>2, <3>1, ZenonT(30)
  <2>2. CASE n # i
    <3>1. f[n] # k
      BY <1>1, <2>2, IndexedDistinct DEF Distinct, k
    <3>2. g.waiters[f[n]].aged
      BY <1>1, <1>2, <1>3, <3>1
    <3>3. g.waiters[f[m]].aged
      BY <1>3, <3>2 DEF AgedInOrder
    <3> QED
      BY <1>1, <1>2, <3>3, ZenonT(30)
  <2> QED
    BY <2>1, <2>2
<1>4. QED
  BY <1>2, <1>3 DEF AgedInOrder

\* try_promote keeps the urgencies and the order of aging.
LEMMA TryPromoteOrder ==
  ASSUME NEW g \in GlobalState, Indexed(g), AgedInOrder(g)
  PROVE  /\ AgedInOrder(TryPromote(g))
         /\ \A j \in Key : g.waiters[j] # Vacant =>
              TryPromote(g).waiters[j].urgency = g.waiters[j].urgency
<1>1. CASE Promoted(g) = NoKey
  BY <1>1 DEF TryPromote
<1>2. CASE Promoted(g) # NoKey
  <2> DEFINE k == Promoted(g)
             h == Promote(g, k)
  <2>1. TryPromote(g) = h
    BY <1>2 DEF TryPromote
  <2>2. k \in QueuedKeys(g)
    BY <1>2, SelectSound
  <2>3. PromotesTo(g, k, h)
    BY <2>2, PromoteFields
  <2> HIDE DEF h, k
  <2>4. /\ QueuedKeys(h) = QueuedKeys(g) \ {k}
        /\ \A j \in Key : j # k => h.waiters[j] = g.waiters[j]
    BY <2>2, <2>3, PromoteMoves
  <2>5. /\ h.fifo = RemoveFromFifo(g.fifo, k)
        /\ h.waiters = [g.waiters EXCEPT ![k] =
                          [g.waiters[k] EXCEPT !.admitted = TRUE, !.waker = NoWaker]]
    BY <2>3 DEF PromotesTo
  <2>6. PICK i \in 1..Len(g.fifo) : g.fifo[i] = k
    BY <2>2 DEF Indexed
  <2>7. Departs(g, h, i)
    BY <2>4, <2>5, <2>6 DEF Departs, QueuedKeys
  <2>8. AgedInOrder(h)
    BY <2>7, DepartsOrder
  <2>9. h.waiters[k].urgency = g.waiters[k].urgency
    <3>1. g.waiters \in [Key -> Waiter \cup {Vacant}] /\ k \in Key /\ g.waiters[k] \in Waiter
      BY <2>2 DEF QueuedKeys, GlobalState
    <3>2. h.waiters[k] = [g.waiters[k] EXCEPT !.admitted = TRUE, !.waker = NoWaker]
      BY <2>5, <3>1
    <3> QED
      BY <3>1, <3>2 DEF Waiter
  <2> QED
    BY <2>1, <2>4, <2>8, <2>9
<1>3. QED
  BY <1>1, <1>2

\* The guards that are left hold waiters with the urgencies they had.
LEMMA UnguardedMatching ==
  ASSUME NEW g, NEW P, NEW held \in [Request -> Key \cup {NoKey}], Owned(g, held, P),
         Matching(g, held), NEW r \in Request, held[r] # NoKey,
         NEW h, \A j \in Key : j # held[r] => h.waiters[j] = g.waiters[j]
  PROVE  Matching(h, Unguarded(held, r))
<1> DEFINE left == Unguarded(held, r)
<1>1. left[r] = NoKey /\ \A q \in Request : q # r => left[q] = held[q]
  BY DEF Unguarded
<1> HIDE DEF left
<1>2. ASSUME NEW q \in Request, left[q] # NoKey
      PROVE  h.waiters[left[q]].urgency = Priority(q)
  <2>1. q # r /\ left[q] = held[q]
    BY <1>1, <1>2
  <2>2. held[q] \in Key /\ held[q] # held[r]
    BY <1>2, <2>1 DEF Owned
  <2> QED
    BY <1>2, <2>1, <2>2 DEF Matching
<1>3. QED
  BY <1>2 DEF Matching, left
=============================================================================
