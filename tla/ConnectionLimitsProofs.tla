----------------------- MODULE ConnectionLimitsProofs -----------------------
(***************************************************************************)
(* LimitsHold, proved for any finite set of calls, any addresses and any   *)
(* limits.  The counting half of the invariant of ConnectionWaitProofs:    *)
(* every permit is free or held, and a reference count that the code reads *)
(* as "nobody else" means that nobody else is there.                       *)
(***************************************************************************)
EXTENDS ConnectionWaitProofs, FiniteSetTheorems

\* A leaf that names no prover is tried with these, in this order.
USE SMTT(30), ZenonT(30), Z3T(30)

-----------------------------------------------------------------------------
(* Who has an Arc of a semaphore *)

\* The steps of a call that leave the semaphores alone.
SemQuiet(c) ==
  \/ Listen(c) \/ Stale(c) \/ LeaveEarly(c) \/ SuppressDnsFailure(c)
  \/ DialSucceeds(c) \/ DialFails(c) \/ Close(c) \/ CheckSemaphore(c)
  \/ ExistingNotify(c) \/ NotifyOne(c) \/ NotifyGlobal(c) \/ ExchangeEnds(c)
  \/ NotifyCoalesced(c) \/ Poll(c) \/ Cancel(c) \/ DropNotified(c)
  \/ CheckNotify(c) \/ ReclaimNotify(c) \/ DropNotify(c)

\* What such a step keeps: who has an Arc and who has a permit.
SemKept ==
  /\ UNCHANGED <<semOf, available, free, sem>>
  /\ \A d \in Call :
       /\ Global(d)' <=> Global(d)
       /\ Bound(d)' <=> Bound(d)
       /\ pc'[d] \in Unpermitted <=> pc[d] \in Unpermitted
       /\ pc[d] = "drop semaphore" => pc'[d] = "drop semaphore"

\* They keep it.
LEMMA SemQuietKeeps ==
    ASSUME Typed, Returns, NEW c \in Call, SemQuiet(c)
    PROVE  SemKept
<1>1. CASE Listen(c)
    BY <1>1 DEF Listen, Goto, GotoThen, Returns, SemKept, Global, Bound,
       Unpermitted, Typed, Releasing, Leaving, Telling, semVars
<1>2. CASE Stale(c)
    BY <1>2 DEF Stale, Goto, GotoThen, Returns, SemKept, Global, Bound,
       Unpermitted, Typed, Releasing, Leaving, Telling, semVars
<1>3. CASE LeaveEarly(c)
    BY <1>3 DEF LeaveEarly, Goto, GotoThen, Returns, SemKept, Global, Bound,
       Unpermitted, Typed, Releasing, Leaving, Telling, semVars
<1>4. CASE SuppressDnsFailure(c)
    BY <1>4 DEF SuppressDnsFailure, Goto, GotoThen, Returns, SemKept, Global,
       Bound, Unpermitted, Typed, Releasing, Leaving, Telling, semVars
<1>5. CASE DialSucceeds(c)
    BY <1>5 DEF DialSucceeds, Goto, GotoThen, Returns, SemKept, Global, Bound,
       Unpermitted, Typed, Releasing, Leaving, Telling, semVars
<1>6. CASE DialFails(c)
    BY <1>6 DEF DialFails, Goto, GotoThen, Returns, SemKept, Global, Bound,
       Unpermitted, Typed, Releasing, Leaving, Telling, semVars
<1>7. CASE Close(c)
    BY <1>7 DEF Close, Goto, GotoThen, Returns, SemKept, Global, Bound,
       Unpermitted, Typed, Releasing, Leaving, Telling, semVars
<1>8. CASE CheckSemaphore(c)
    BY <1>8 DEF CheckSemaphore, Goto, GotoThen, Returns, SemKept, Global, Bound,
       Unpermitted, Typed, Releasing, Leaving, Telling, semVars
<1>9. CASE ExistingNotify(c)
  <2>1. then[c] \in {"resolve", "notify global", "notify coalesced"}
        BY <1>9 DEF ExistingNotify, Returns
  <2>2. CASE pc' = [pc EXCEPT ![c] = then[c]] /\ then' = [then EXCEPT ![c] = "idle"]
        BY <1>9, <2>1, <2>2 DEF ExistingNotify, SemKept, Global, Bound,
           Unpermitted, Typed, Releasing, Leaving, Telling, semVars
  <2>3. CASE pc' = [pc EXCEPT ![c] = "notify one"] /\ then' = [then EXCEPT ![c] = then[c]]
        BY <1>9, <2>1, <2>3 DEF ExistingNotify, SemKept, Global, Bound,
           Unpermitted, Typed, Releasing, Leaving, Telling, semVars
  <2> QED
        BY <1>9, <2>2, <2>3, GrabMoves DEF ExistingNotify
<1>10. CASE NotifyOne(c)
  <2>1. then[c] \in {"resolve", "notify global", "notify coalesced", "open"}
        BY <1>10 DEF NotifyOne, Returns
  <2>2. CASE pc' = [pc EXCEPT ![c] = then[c]] /\ then' = [then EXCEPT ![c] = "idle"]
        BY <1>10, <2>1, <2>2, ZenonT(40) DEF NotifyOne, SemKept, Global, Bound, Unpermitted,
           Typed, Releasing, Leaving, Telling, semVars
  <2>3. CASE pc' = [pc EXCEPT ![c] = "notify one"] /\ then' = [then EXCEPT ![c] = then[c]]
        BY <1>10, <2>1, <2>3 DEF NotifyOne, SemKept, Global, Bound, Unpermitted,
           Typed, Releasing, Leaving, Telling, semVars
  <2> QED
        BY <1>10, <2>2, <2>3, GrabMoves DEF NotifyOne
<1>11. CASE NotifyGlobal(c)
  <2>2. CASE pc' = [pc EXCEPT ![c] = "drop wait"] /\ then' = [then EXCEPT ![c] = "idle"]
        BY <1>11, <2>2 DEF NotifyGlobal, SemKept, Global, Bound, Unpermitted,
           Typed, Releasing, Leaving, Telling, semVars
  <2>3. CASE pc' = [pc EXCEPT ![c] = "idle"] /\ then' = then
        BY <1>11, <2>3 DEF NotifyGlobal, SemKept, Global, Bound, Unpermitted,
           Typed, Releasing, Leaving, Telling, semVars
  <2> QED
        BY <1>11, <2>2, <2>3 DEF NotifyGlobal, Goto, GotoThen
<1>12. CASE ExchangeEnds(c)
    BY <1>12 DEF ExchangeEnds, Goto, GotoThen, Returns, SemKept, Global, Bound,
       Unpermitted, Typed, Releasing, Leaving, Telling, semVars
<1>13. CASE NotifyCoalesced(c)
  <2>2. CASE pc' = [pc EXCEPT ![c] = "open"] /\ then' = [then EXCEPT ![c] = "idle"]
        BY <1>13, <2>2 DEF NotifyCoalesced, SemKept, Global, Bound, Unpermitted,
           Typed, Releasing, Leaving, Telling, semVars
  <2>3. CASE pc' = [pc EXCEPT ![c] = "notify one"] /\ then' = [then EXCEPT ![c] = "open"]
        BY <1>13, <2>3 DEF NotifyCoalesced, SemKept, Global, Bound, Unpermitted,
           Typed, Releasing, Leaving, Telling, semVars
  <2> QED
        BY <1>13, <2>2, <2>3, GrabMoves DEF NotifyCoalesced
<1>14. CASE Poll(c)
  <2>2. CASE pc' = [pc EXCEPT ![c] = "drop wait"] /\ then' = [then EXCEPT ![c] = "again"]
        BY <1>14, <2>2 DEF Poll, SemKept, Global, Bound, Unpermitted, Typed,
           Releasing, Leaving, Telling, semVars
  <2>3. CASE pc' = [pc EXCEPT ![c] = "waiting"] /\ then' = then
        BY <1>14, <2>3 DEF Poll, SemKept, Global, Bound, Unpermitted, Typed,
           Releasing, Leaving, Telling, semVars
  <2> QED
        BY <1>14, <2>2, <2>3 DEF Poll, Goto, GotoThen
<1>15. CASE Cancel(c)
    BY <1>15 DEF Cancel, Goto, GotoThen, Returns, SemKept, Global, Bound,
       Unpermitted, Typed, Releasing, Leaving, Telling, semVars
<1>16. CASE DropNotified(c)
    BY <1>16 DEF DropNotified, Goto, GotoThen, Returns, SemKept, Global, Bound,
       Unpermitted, Typed, Releasing, Leaving, Telling, semVars
<1>17. CASE CheckNotify(c)
    BY <1>17 DEF CheckNotify, Goto, GotoThen, Returns, SemKept, Global, Bound,
       Unpermitted, Typed, Releasing, Leaving, Telling, semVars
<1>18. CASE ReclaimNotify(c)
    BY <1>18 DEF ReclaimNotify, Goto, GotoThen, Returns, SemKept, Global, Bound,
       Unpermitted, Typed, Releasing, Leaving, Telling, semVars
<1>19. CASE DropNotify(c)
    BY <1>19 DEF DropNotify, Goto, GotoThen, Returns, SemKept, Global, Bound,
       Unpermitted, Typed, Releasing, Leaving, Telling, semVars
<1> QED
    BY <1>1, <1>2, <1>3, <1>4, <1>5, <1>6, <1>7, <1>8, <1>9, <1>10, <1>11, <1>12,
       <1>13, <1>14, <1>15, <1>16, <1>17, <1>18, <1>19 DEF SemQuiet

\* A call has an Arc of its semaphore exactly where it needs one.
LEMMA NextBinds == Typed /\ Returns /\ Binds /\ [Next]_vars => Binds'
<1> SUFFICES ASSUME Typed, Returns, Binds, [Next]_vars PROVE Binds'
    OBVIOUS
<1>1. ASSUME NEW c \in Call, SemaphoreFor(c) PROVE Binds'
  <2>1. PICK s \in Sem : sem' = [sem EXCEPT ![c] = s]
        BY <1>1 DEF SemaphoreFor
  <2> QED
        BY <1>1, <2>1, LimitsAssumption, ZenonT(40) DEF SemaphoreFor, Goto, Typed,
           Returns, Binds, Bound, Releasing, Leaving, Telling
<1>2. ASSUME NEW c \in Call, TryAddress(c) PROVE Binds'
  <2>1. CASE available[sem[c]] > 0
        BY <1>2, <2>1, ZenonT(40) DEF TryAddress, Goto, Typed, Returns, Binds, Bound, Releasing,
           Leaving, Telling
  <2>2. CASE ~(available[sem[c]] > 0)
    <3>1. /\ sem' = [sem EXCEPT ![c] = None] /\ then' = then
          /\ pc' = [pc EXCEPT ![c] = "blocked"]
        BY <1>2, <2>2 DEF TryAddress, Goto
    <3> QED
        BY <3>1 DEF Typed, Returns, Binds, Bound, Releasing, Leaving, Telling
  <2> QED
        BY <2>1, <2>2
<1>3. ASSUME NEW c \in Call, TryGlobal(c) PROVE Binds'
  <2>1. CASE free > 0
    <3>1. /\ sem' = sem /\ then' = then /\ pc[c] = "try global"
          /\ pc' = [pc EXCEPT ![c] = "dial"]
        BY <1>3, <2>1 DEF TryGlobal, Goto
    <3> QED
        BY <3>1 DEF Typed, Binds, Bound, Releasing, Leaving, Telling
  <2>2. CASE ~(free > 0)
    <3>1. /\ sem' = sem /\ pc[c] = "try global"
          /\ pc' = [pc EXCEPT ![c] = "drop permit"]
          /\ then' = [then EXCEPT ![c] = "blocked"]
        BY <1>3, <2>2 DEF TryGlobal, Goto, GotoThen
    <3> QED
        BY <3>1 DEF Typed, Binds, Bound, Releasing, Leaving, Telling
  <2> QED
        BY <2>1, <2>2
<1>4. ASSUME NEW c \in Call, DropPermit(c) PROVE Binds'
    BY <1>4, LimitsAssumption DEF DropPermit, Goto, Typed, Returns, Binds, Bound,
       Releasing, Leaving, Telling, semVars
<1>5. ASSUME NEW c \in Call, ReclaimSemaphore(c) PROVE Binds'
    BY <1>5, LimitsAssumption DEF ReclaimSemaphore, Goto, Typed, Returns, Binds,
       Bound, Releasing, Leaving, Telling, semVars
<1>6. ASSUME NEW c \in Call, DropSemaphore(c) PROVE Binds'
    BY <1>6, LimitsAssumption, ZenonT(40) DEF DropSemaphore, Goto, GotoThen, Typed, Returns,
       Binds, Bound, Releasing, Leaving, Telling, semVars
<1>7. ASSUME NEW c \in Call, DropGlobal(c) PROVE Binds'
    BY <1>7, LimitsAssumption DEF DropGlobal, Goto, GotoThen, Typed, Returns, Binds,
       Bound, Releasing, Leaving, Telling, semVars
<1>8. ASSUME NEW c \in Call, SemQuiet(c) PROVE Binds'
    BY <1>8, SemQuietKeeps DEF SemKept, Binds
<1>9. CASE UNCHANGED vars
    BY <1>9 DEF Binds, Bound, vars
<1> QED
    BY <1>1, <1>2, <1>3, <1>4, <1>5, <1>6, <1>7, <1>8, <1>9 DEF Next, Step, SemQuiet

-----------------------------------------------------------------------------
(* Counting *)

\* One call more.
LEMMA CountUp ==
    ASSUME NEW S \in SUBSET Call, NEW c \in Call, c \notin S
    PROVE  /\ Cardinality(S) \in Nat
           /\ Cardinality(S \cup {c}) = Cardinality(S) + 1
BY LimitsAssumption, FS_Subset, FS_AddElement, FS_CardinalityType, ZenonT(30)

\* One call less.
LEMMA CountDown ==
    ASSUME NEW S \in SUBSET Call, NEW c \in S
    PROVE  /\ Cardinality(S) \in Nat /\ Cardinality(S) > 0
           /\ Cardinality(S \ {c}) = Cardinality(S) - 1
<1>1. IsFiniteSet(S) /\ IsFiniteSet(S \ {c})
    BY LimitsAssumption, FS_Subset
<1>2. Cardinality(S) \in Nat /\ Cardinality(S \ {c}) \in Nat
    BY <1>1, FS_CardinalityType
<1>3. Cardinality(S \ {c}) = Cardinality(S) - 1
    BY <1>1, FS_RemoveElement
<1> QED
    BY <1>2, <1>3

\* What belongs to at most one address can be counted.
LEMMA CountAddresses ==
    ASSUME NEW S, \A a, b \in S : a = b
    PROVE  /\ Cardinality(S) \in Nat
           /\ Cardinality(S) = 0 => S = {}
<1>1. CASE S = {}
    BY <1>1, FS_EmptySet
<1>2. CASE S # {}
  <2>1. PICK a : a \in S
        BY <1>2
  <2>2. S = {a}
        BY <2>1
  <2>3. Cardinality(S) = 1
        BY <2>2, FS_Singleton, ZenonT(30)
  <2> QED
        BY <2>3
<1> QED
    BY <1>1, <1>2

\* An allocation nobody refers to.
LEMMA FreshSem ==
    ASSUME Typed, Entries, NEW s \in Sem, SemStrong(s) = 0
    PROVE  /\ \A a \in Address : semOf[a] # s
           /\ \A c \in Call : sem[c] # s
<1> DEFINE A == {a \in Address : semOf[a] = s}
           C == {c \in Call : sem[c] = s}
<1>1. Cardinality(A) \in Nat /\ (Cardinality(A) = 0 => A = {})
  <2>1. \A a, b \in A : a = b
        BY LimitsAssumption DEF Entries
  <2> QED
        BY <2>1, CountAddresses
<1>2. IsFiniteSet(C)
    BY LimitsAssumption, FS_Subset
<1>3. Cardinality(C) \in Nat /\ (Cardinality(C) = 0 => C = {})
    BY <1>2, FS_CardinalityType, FS_EmptySet
<1>4. Cardinality(A) + Cardinality(C) = 0
    BY DEF SemStrong
<1> HIDE DEF A, C
<1>5. A = {} /\ C = {}
    BY <1>1, <1>3, <1>4
<1> QED
    BY <1>5 DEF A, C

\* An entry that two calls hold has three references.
LEMMA SharedSem ==
    ASSUME Typed, Entries, NEW a \in Address, NEW c \in Call, NEW d \in Call, c # d,
           semOf[a] # None, sem[c] = semOf[a], sem[d] = semOf[a]
    PROVE  SemStrong(semOf[a]) # 2
<1> DEFINE s == semOf[a]
           A == {b \in Address : semOf[b] = s}
           C == {e \in Call : sem[e] = s}
<1>1. A = {a}
    BY DEF Entries
<1>2. Cardinality(A) = 1
    BY <1>1, FS_Singleton, ZenonT(30)
<1>3. c \in C /\ d \in C \ {c}
    OBVIOUS
<1>4. Cardinality(C) \in Nat /\ Cardinality(C \ {c}) = Cardinality(C) - 1
    BY <1>3, CountDown, ZenonT(30)
<1>5. Cardinality(C \ {c}) > 0 /\ Cardinality(C \ {c}) \in Nat
    BY <1>3, CountDown, ZenonT(30)
<1>6. SemStrong(s) = Cardinality(A) + Cardinality(C)
    BY DEF SemStrong
<1> HIDE DEF A, C
<1> QED
    BY <1>2, <1>4, <1>5, <1>6

\* The same for a Notify.
LEMMA FreshNote ==
    ASSUME Typed, NotesApart, NEW n \in Note, NoteStrong(n) = 0
    PROVE  \A a \in Address : notifyOf[a] # n
<1> DEFINE A == {a \in Address : notifyOf[a] = n}
           B == {c \in Call : wait[c] = n}
           C == {c \in Call : wait[c] = n /\ local[c] # "dropped"}
           D == {c \in Call : n \in grabbed[c]}
<1>1. Cardinality(A) \in Nat /\ (Cardinality(A) = 0 => A = {})
  <2>1. \A a, b \in A : a = b
        BY LimitsAssumption DEF NotesApart
  <2> QED
        BY <2>1, CountAddresses
<1>2. IsFiniteSet(B) /\ IsFiniteSet(C) /\ IsFiniteSet(D)
    BY LimitsAssumption, FS_Subset
<1>3. Cardinality(B) \in Nat /\ Cardinality(C) \in Nat /\ Cardinality(D) \in Nat
    BY <1>2, FS_CardinalityType
<1>4. Cardinality(A) + Cardinality(B) + Cardinality(C) + Cardinality(D) = 0
    BY DEF NoteStrong
<1> HIDE DEF A, B, C, D
<1>5. A = {}
  <2>1. \A i, j, k, l \in Nat : i + j + k + l = 0 => i = 0
        OBVIOUS
  <2> QED
        BY <1>1, <1>3, <1>4, <2>1, ZenonT(30)
<1> QED
    BY <1>5 DEF A

\* An entry that a call is leaving and another listens to has four references.
LEMMA SharedNote ==
    ASSUME Typed, NotesApart, NEW a \in Address, NEW c \in Call, NEW d \in Call, c # d,
           notifyOf[a] # None, wait[c] = notifyOf[a], wait[d] = notifyOf[a],
           local[d] # "dropped"
    PROVE  NoteStrong(notifyOf[a]) # 2
<1> DEFINE n == notifyOf[a]
           A == {b \in Address : notifyOf[b] = n}
           B == {e \in Call : wait[e] = n}
           C == {e \in Call : wait[e] = n /\ local[e] # "dropped"}
           D == {e \in Call : n \in grabbed[e]}
<1>1. A = {a}
    BY DEF NotesApart
<1>2. Cardinality(A) = 1
    BY <1>1, FS_Singleton, ZenonT(30)
<1>3. c \in B /\ d \in B \ {c} /\ d \in C
    OBVIOUS
<1>4. Cardinality(B) \in Nat /\ Cardinality(B \ {c}) = Cardinality(B) - 1
    BY <1>3, CountDown, ZenonT(30)
<1>5. Cardinality(B \ {c}) > 0 /\ Cardinality(B \ {c}) \in Nat
    BY <1>3, CountDown, ZenonT(30)
<1>6. Cardinality(C) > 0 /\ Cardinality(C) \in Nat
    BY <1>3, CountDown, ZenonT(30)
<1>7. IsFiniteSet(D)
    BY LimitsAssumption, FS_Subset
<1>8. Cardinality(D) \in Nat
    BY <1>7, FS_CardinalityType
<1>9. NoteStrong(n) = Cardinality(A) + Cardinality(B) + Cardinality(C) + Cardinality(D)
    BY DEF NoteStrong
<1> HIDE DEF A, B, C, D
<1> QED
    BY <1>2, <1>4, <1>5, <1>6, <1>8, <1>9

-----------------------------------------------------------------------------
(* Permits *)

\* A permit of the global semaphore is free or belongs to a connection.
LEMMA NextTotal ==
    Typed /\ Returns /\ Slots /\ [Next]_vars =>
    (free + Cardinality(Globals) = MaxTotal)'
<1> DEFINE Total == free + Cardinality(Globals) = MaxTotal
<1> SUFFICES ASSUME Typed, Returns, Total, [Next]_vars PROVE Total'
    BY DEF Slots
<1>1. ASSUME NEW c \in Call, SemaphoreFor(c) PROVE Total'
  <2>1. Globals' = Globals
        BY <1>1 DEF SemaphoreFor, Goto, Globals, Global, Typed, Returns, Releasing,
           Leaving, Telling
  <2> QED
        BY <1>1, <2>1 DEF SemaphoreFor, semVars
<1>2. ASSUME NEW c \in Call, TryAddress(c) PROVE Total'
  <2>1. Globals' = Globals
    <3>2. CASE pc' = [pc EXCEPT ![c] = "try global"] /\ then' = then
          BY <1>2, <3>2 DEF TryAddress, Globals, Global, Typed, Returns, Releasing,
             Leaving, Telling
    <3>3. CASE pc' = [pc EXCEPT ![c] = "blocked"] /\ then' = then
          BY <1>2, <3>3 DEF TryAddress, Globals, Global, Typed, Returns, Releasing,
             Leaving, Telling
    <3> QED
          BY <1>2, <3>2, <3>3 DEF TryAddress, Goto, GotoThen
  <2> QED
        BY <1>2, <2>1 DEF TryAddress, semVars
<1>3. ASSUME NEW c \in Call, TryGlobal(c) PROVE Total'
  <2>1. CASE free > 0
    <3>1. Globals' = Globals \cup {c} /\ c \notin Globals
        BY <1>3, <2>1, ZenonT(40) DEF TryGlobal, Goto, Globals, Global, Typed, Returns,
           Releasing, Leaving, Telling
    <3>2. Globals \in SUBSET Call
        BY DEF Globals
    <3>3. free' = free - 1
        BY <1>3, <2>1 DEF TryGlobal
    <3>4. Cardinality(Globals') = Cardinality(Globals) + 1 /\ Cardinality(Globals) \in Nat
        BY <3>1, <3>2, CountUp
    <3> QED
        BY <3>3, <3>4, LimitsAssumption DEF Typed
  <2>2. CASE ~(free > 0)
    <3>1. Globals' = Globals
        BY <1>3, <2>2, ZenonT(40) DEF TryGlobal, Goto, GotoThen, Globals, Global, Typed,
           Returns, Releasing, Leaving, Telling
    <3> QED
        BY <1>3, <2>2, <3>1 DEF TryGlobal
  <2> QED
        BY <2>1, <2>2
<1>4. ASSUME NEW c \in Call, DropPermit(c) PROVE Total'
  <2>1. Globals' = Globals
        BY <1>4 DEF DropPermit, Goto, Globals, Global, Typed, Returns, Releasing,
           Leaving, Telling
  <2> QED
        BY <1>4, <2>1 DEF DropPermit, semVars
<1>5. ASSUME NEW c \in Call, ReclaimSemaphore(c) PROVE Total'
  <2>1. Globals' = Globals
        BY <1>5 DEF ReclaimSemaphore, Goto, Globals, Global, Typed, Returns,
           Releasing, Leaving, Telling
  <2> QED
        BY <1>5, <2>1 DEF ReclaimSemaphore, semVars
<1>6. ASSUME NEW c \in Call, DropSemaphore(c) PROVE Total'
  <2>1. Globals' = Globals
        BY <1>6 DEF DropSemaphore, Goto, GotoThen, Globals, Global, Typed, Returns,
           Releasing, Leaving, Telling
  <2> QED
        BY <1>6, <2>1 DEF DropSemaphore, semVars
<1>7. ASSUME NEW c \in Call, DropGlobal(c) PROVE Total'
  <2>1. Globals' = Globals \ {c} /\ c \in Globals /\ Globals \in SUBSET Call
        BY <1>7 DEF DropGlobal, Goto, GotoThen, Globals, Global, Typed, Returns,
           Releasing, Leaving, Telling
  <2>2. free' = free + 1
        BY <1>7 DEF DropGlobal
  <2>3. Cardinality(Globals') = Cardinality(Globals) - 1 /\ Cardinality(Globals) \in Nat
        BY <2>1, CountDown
  <2> QED
        BY <2>2, <2>3, LimitsAssumption DEF Typed
<1>8. ASSUME NEW c \in Call, SemQuiet(c) PROVE Total'
  <2>1. Globals' = Globals /\ free' = free
        BY <1>8, SemQuietKeeps, ZenonT(30) DEF SemKept, Globals
  <2> QED
        BY <2>1
<1>9. CASE UNCHANGED vars
    BY <1>9 DEF Globals, Global, vars
<1> QED
    BY <1>1, <1>2, <1>3, <1>4, <1>5, <1>6, <1>7, <1>8, <1>9 DEF Next, Step, SemQuiet

\* A permit of an address semaphore is free or belongs to a call.
LEMMA NextPerAddress ==
    Typed /\ Returns /\ Binds /\ Entries /\ Slots /\ [Next]_vars =>
      (\A s \in Sem : available[s] + Cardinality(Holders(s)) = MaxPerAddress)'
<1> DEFINE PerAddress ==
             \A s \in Sem : available[s] + Cardinality(Holders(s)) = MaxPerAddress
<1> SUFFICES ASSUME Typed, Returns, Binds, Entries, PerAddress, [Next]_vars
             PROVE  PerAddress'
    BY DEF Slots
<1>1. ASSUME NEW c \in Call, SemaphoreFor(c) PROVE PerAddress'
  <2>1. PICK s \in Sem :
           /\ IF semOf[AddressOf[c]] # None THEN s = semOf[AddressOf[c]]
              ELSE s \in {r \in Sem : SemStrong(r) = 0}
           /\ available' = IF semOf[AddressOf[c]] = None
                             THEN [available EXCEPT ![s] = MaxPerAddress]
                             ELSE available
           /\ sem' = [sem EXCEPT ![c] = s]
        BY <1>1 DEF SemaphoreFor
  <2>2. sem[c] = None
        BY <1>1 DEF SemaphoreFor, Binds, Bound, Releasing, Leaving, Telling
  <2>3. \A r \in Sem : Holders(r)' = Holders(r)
    <3>1. pc' = [pc EXCEPT ![c] = "try address"] /\ sem' = [sem EXCEPT ![c] = s]
        BY <1>1, <2>1 DEF SemaphoreFor, Goto
    <3>2. None \notin Sem
        BY LimitsAssumption
    <3> QED
        BY <2>2, <3>1, <3>2 DEF Typed, Holders, Unpermitted
  <2>4. CASE semOf[AddressOf[c]] # None
        BY <2>1, <2>3, <2>4
  <2>5. CASE semOf[AddressOf[c]] = None
    <3>1. \A d \in Call : sem[d] # s
        BY <2>1, <2>5, FreshSem
    <3>2. Holders(s) = {}
        BY <3>1 DEF Holders
    <3>3. Cardinality(Holders(s)) = 0
        BY <3>2, FS_EmptySet
    <3>4. available' = [available EXCEPT ![s] = MaxPerAddress]
        BY <2>1, <2>5
    <3>5. ASSUME NEW r \in Sem
          PROVE  available'[r] + Cardinality(Holders(r)') = MaxPerAddress
      <4>1. CASE r = s
        BY <2>3, <3>3, <3>4, <4>1, LimitsAssumption DEF Typed
      <4>2. CASE r # s
        BY <2>3, <3>4, <4>2 DEF Typed
      <4> QED
        BY <4>1, <4>2
    <3> QED
        BY <3>5
  <2> QED
        BY <2>4, <2>5
<1>2. ASSUME NEW c \in Call, TryAddress(c) PROVE PerAddress'
  <2>1. CASE available[sem[c]] > 0
    <3>1. PICK z \in Sem : z = sem[c]
        BY <1>2, HoldsSem DEF TryAddress, Bound, Releasing
    <3>2. /\ \A r \in Sem \ {z} : Holders(r)' = Holders(r)
          /\ Holders(z)' = Holders(z) \cup {c}
          /\ c \notin Holders(z)
          /\ Holders(z) \in SUBSET Call
        BY <1>2, <2>1, <3>1 DEF TryAddress, Goto, Typed, Holders, Unpermitted
    <3>3. available' = [available EXCEPT ![z] = available[z] - 1]
        BY <1>2, <2>1, <3>1 DEF TryAddress
    <3>4. /\ Cardinality(Holders(z)) \in Nat
          /\ Cardinality(Holders(z)') = Cardinality(Holders(z)) + 1
        BY <3>2, CountUp
    <3>5. ASSUME NEW r \in Sem
          PROVE  available'[r] + Cardinality(Holders(r)') = MaxPerAddress
      <4>1. CASE r = z
        <5>1. available'[r] = available[r] - 1 /\ available[r] \in Nat
            BY <3>1, <3>3, <4>1 DEF Typed
        <5>2. /\ Cardinality(Holders(r)) \in Nat
              /\ Cardinality(Holders(r)') = Cardinality(Holders(r)) + 1
            BY <3>4, <4>1
        <5> QED
            BY <5>1, <5>2, LimitsAssumption
      <4>2. CASE r # z
        BY <3>2, <3>3, <4>2 DEF Typed
      <4> QED
        BY <4>1, <4>2
    <3> QED
        BY <3>5
  <2>2. CASE ~(available[sem[c]] > 0)
    <3>1. \A r \in Sem : Holders(r)' = Holders(r)
      <4>1. /\ pc' = [pc EXCEPT ![c] = "blocked"] /\ sem' = [sem EXCEPT ![c] = None]
            /\ pc[c] \in Unpermitted
        BY <1>2, <2>2 DEF TryAddress, Goto, Unpermitted
      <4>2. None \notin Sem
        BY LimitsAssumption
      <4> QED
        BY <4>1, <4>2 DEF Typed, Holders
    <3> QED
        BY <1>2, <2>2, <3>1 DEF TryAddress
  <2> QED
        BY <2>1, <2>2
<1>3. ASSUME NEW c \in Call, TryGlobal(c) PROVE PerAddress'
  <2>1. \A r \in Sem : Holders(r)' = Holders(r)
    <3>2. CASE pc' = [pc EXCEPT ![c] = "dial"] /\ then' = then
          BY <1>3, <3>2 DEF TryGlobal, Holders, Typed, Returns, Binds, Bound,
             Unpermitted, Releasing, Leaving, Telling, semVars
    <3>3. CASE pc' = [pc EXCEPT ![c] = "drop permit"] /\ then' = [then EXCEPT ![c] = "blocked"]
          BY <1>3, <3>3 DEF TryGlobal, Holders, Typed, Returns, Binds, Bound,
             Unpermitted, Releasing, Leaving, Telling, semVars
    <3> QED
          BY <1>3, <3>2, <3>3 DEF TryGlobal, Goto, GotoThen
  <2> QED
        BY <1>3, <2>1 DEF TryGlobal, semVars
<1>4. ASSUME NEW c \in Call, DropPermit(c) PROVE PerAddress'
  <2>1. PICK z \in Sem : z = sem[c]
      BY <1>4, HoldsSem DEF DropPermit, Bound, Releasing
  <2>2. /\ \A r \in Sem \ {z} : Holders(r)' = Holders(r)
        /\ Holders(z)' = Holders(z) \ {c}
        /\ c \in Holders(z)
        /\ Holders(z) \in SUBSET Call
      BY <1>4, <2>1 DEF DropPermit, Goto, Typed, Holders, Unpermitted
  <2>3. available' = [available EXCEPT ![z] = available[z] + 1]
      BY <1>4, <2>1, ZenonT(30) DEF DropPermit
  <2>4. /\ Cardinality(Holders(z)) \in Nat
        /\ Cardinality(Holders(z)') = Cardinality(Holders(z)) - 1
      BY <2>2, CountDown, ZenonT(30)
  <2>5. ASSUME NEW r \in Sem
        PROVE  available'[r] + Cardinality(Holders(r)') = MaxPerAddress
    <3>1. CASE r = z
      <4>1. available'[r] = available[r] + 1 /\ available[r] \in Nat
          BY <2>1, <2>3, <3>1 DEF Typed
      <4>2. /\ Cardinality(Holders(r)) \in Nat
            /\ Cardinality(Holders(r)') = Cardinality(Holders(r)) - 1
          BY <2>4, <3>1
      <4> QED
          BY <4>1, <4>2, LimitsAssumption
    <3>2. CASE r # z
      BY <2>2, <2>3, <3>2 DEF Typed
    <3> QED
      BY <3>1, <3>2
  <2> QED
      BY <2>5
<1>5. ASSUME NEW c \in Call, ReclaimSemaphore(c) PROVE PerAddress'
  <2>1. \A r \in Sem : Holders(r)' = Holders(r)
        BY <1>5, LimitsAssumption DEF ReclaimSemaphore, Goto, Holders, Typed,
           Returns, Binds, Bound, Unpermitted, Releasing, Leaving, Telling, semVars
  <2> QED
        BY <1>5, <2>1 DEF ReclaimSemaphore, semVars
<1>6. ASSUME NEW c \in Call, DropSemaphore(c) PROVE PerAddress'
  <2>1. \A r \in Sem : Holders(r)' = Holders(r)
        BY <1>6, LimitsAssumption DEF DropSemaphore, Goto, GotoThen, Holders, Typed,
           Returns, Binds, Bound, Unpermitted, Releasing, Leaving, Telling, semVars
  <2> QED
        BY <1>6, <2>1 DEF DropSemaphore, semVars
<1>7. ASSUME NEW c \in Call, DropGlobal(c) PROVE PerAddress'
  <2>1. \A r \in Sem : Holders(r)' = Holders(r)
        BY <1>7, LimitsAssumption DEF DropGlobal, Goto, GotoThen, Holders, Typed,
           Returns, Binds, Bound, Unpermitted, Releasing, Leaving, Telling, semVars
  <2> QED
        BY <1>7, <2>1 DEF DropGlobal, semVars
<1>8. ASSUME NEW c \in Call, SemQuiet(c) PROVE PerAddress'
  <2>1. (\A r \in Sem : Holders(r)' = Holders(r)) /\ available' = available
        BY <1>8, SemQuietKeeps DEF SemKept, Holders
  <2> QED
        BY <2>1
<1>9. CASE UNCHANGED vars
    BY <1>9 DEF Holders, vars
<1> QED
    BY <1>1, <1>2, <1>3, <1>4, <1>5, <1>6, <1>7, <1>8, <1>9, ZenonT(30) DEF Next, Step, SemQuiet

\* The entry of an address is the semaphore of the calls that use it: it is
\* removed only when the reference count says that nobody else holds it.
LEMMA NextEntries == Typed /\ Returns /\ Binds /\ Entries /\ [Next]_vars => Entries'
<1> SUFFICES ASSUME Typed, Returns, Binds, Entries, [Next]_vars PROVE Entries'
    OBVIOUS
<1>1. ASSUME NEW c \in Call, SemaphoreFor(c) PROVE Entries'
  <2> DEFINE a == AddressOf[c]
  <2>1. PICK s \in Sem :
           /\ IF semOf[a] # None THEN s = semOf[a] ELSE s \in {r \in Sem : SemStrong(r) = 0}
           /\ semOf' = [semOf EXCEPT ![a] = s]
           /\ sem' = [sem EXCEPT ![c] = s]
        BY <1>1 DEF SemaphoreFor
  <2>2. pc' = [pc EXCEPT ![c] = "try address"]
        BY <1>1 DEF SemaphoreFor, Goto
  <2>3. CASE semOf[a] # None
        BY <1>1, <2>1, <2>2, <2>3, LimitsAssumption, ZenonT(40) DEF Entries, Typed
  <2>4. CASE semOf[a] = None
    <3>1. \A b \in Address : semOf[b] # s
        BY <2>1, <2>4, FreshSem
    <3> QED
        BY <2>1, <2>2, <2>4, <3>1, LimitsAssumption DEF Entries, Typed
  <2> QED
        BY <2>3, <2>4
<1>2. ASSUME NEW c \in Call, TryAddress(c) PROVE Entries'
  <2>1. CASE available[sem[c]] > 0
        BY <1>2, <2>1 DEF TryAddress, Goto, Entries, Typed
  <2>2. CASE ~(available[sem[c]] > 0)
        BY <1>2, <2>2 DEF TryAddress, Goto, Entries, Typed
  <2> QED
        BY <2>1, <2>2
<1>3. ASSUME NEW c \in Call, TryGlobal(c) PROVE Entries'
  <2>2. CASE pc' = [pc EXCEPT ![c] = "dial"] /\ then' = then
        BY <1>3, <2>2 DEF TryGlobal, Entries, Typed, semVars
  <2>3. CASE pc' = [pc EXCEPT ![c] = "drop permit"] /\ then' = [then EXCEPT ![c] = "blocked"]
        BY <1>3, <2>3 DEF TryGlobal, Entries, Typed, semVars
  <2> QED
        BY <1>3, <2>2, <2>3 DEF TryGlobal, Goto, GotoThen
<1>4. ASSUME NEW c \in Call, DropPermit(c) PROVE Entries'
    BY <1>4 DEF DropPermit, Goto, Entries, Typed, semVars
<1>5. ASSUME NEW c \in Call, ReclaimSemaphore(c) PROVE Entries'
  <2> DEFINE a == AddressOf[c]
  <2>1. pc' = [pc EXCEPT ![c] = "drop semaphore"] /\ sem' = sem
        BY <1>5 DEF ReclaimSemaphore, Goto
  <2>2. CASE semOf' = semOf
        BY <2>1, <2>2 DEF Entries, Typed
  <2>3. CASE /\ semOf[a] = sem[c] /\ Unused(c)
             /\ semOf' = [semOf EXCEPT ![a] = None]
    <3>1. SemStrong(semOf[a]) = 2 /\ sem[c] # None /\ a \in Address
        BY <1>5, <2>3, LimitsAssumption DEF Unused, ReclaimSemaphore, Binds, Bound,
           Releasing
    <3>2. ASSUME NEW d \in Call, sem'[d] # None, pc'[d] # "drop semaphore"
          PROVE  semOf'[AddressOf[d]] = sem'[d]
      <4>1. d # c /\ sem[d] # None /\ pc[d] # "drop semaphore"
        BY <2>1, <3>2 DEF Typed
      <4>2. semOf[AddressOf[d]] = sem[d]
        BY <4>1 DEF Entries
      <4>3. AddressOf[d] # a
        BY <2>3, <3>1, <4>1, <4>2, SharedSem
      <4> QED
        BY <2>1, <2>3, <4>2, <4>3, LimitsAssumption DEF Typed
    <3>3. \A b1, b2 \in Address : semOf'[b1] # None /\ semOf'[b1] = semOf'[b2] => b1 = b2
        BY <2>3, <3>1 DEF Entries, Typed
    <3> QED
        BY <3>2, <3>3 DEF Entries
  <2> QED
        BY <1>5, <2>2, <2>3, ZenonT(30) DEF ReclaimSemaphore
<1>6. ASSUME NEW c \in Call, DropSemaphore(c) PROVE Entries'
    BY <1>6 DEF DropSemaphore, Goto, GotoThen, Entries, Typed, semVars
<1>7. ASSUME NEW c \in Call, DropGlobal(c) PROVE Entries'
    BY <1>7 DEF DropGlobal, Goto, GotoThen, Entries, Typed, semVars
<1>8. ASSUME NEW c \in Call, SemQuiet(c) PROVE Entries'
    BY <1>8, SemQuietKeeps, ZenonT(30) DEF SemKept, Entries
<1>9. CASE UNCHANGED vars
    BY <1>9, ZenonT(30) DEF Entries, vars
<1> QED
    BY <1>1, <1>2, <1>3, <1>4, <1>5, <1>6, <1>7, <1>8, <1>9 DEF Next, Step, SemQuiet

-----------------------------------------------------------------------------
(* Entries of the Notify map *)

\* No two addresses have the same Notify.
LEMMA NextApart == Typed /\ NotesApart /\ [Next]_vars => NotesApart'
<1> SUFFICES ASSUME Typed, NotesApart, [Next]_vars PROVE NotesApart'
    OBVIOUS
<1>1. ASSUME NEW c \in Call, NotifyOne(c) PROVE NotesApart'
    BY <1>1 DEF NotifyOne, NotesApart, noteVars
<1>2. ASSUME NEW c \in Call, Poll(c) PROVE NotesApart'
    BY <1>2 DEF Poll, NotesApart, noteVars
<1>3. ASSUME NEW c \in Call, DropNotified(c) PROVE NotesApart'
    BY <1>3 DEF DropNotified, NotesApart, noteVars
<1>4. ASSUME NEW c \in Call, ReclaimNotify(c) PROVE NotesApart'
  <2>1. notifyOf' \in {notifyOf, [notifyOf EXCEPT ![AddressOf[c]] = None]}
        BY <1>4 DEF ReclaimNotify
  <2> QED
        BY <2>1, LimitsAssumption, ZenonT(30) DEF NotesApart, Typed
<1>5. ASSUME NEW c \in Call, DropNotify(c) PROVE NotesApart'
    BY <1>5 DEF DropNotify, NotesApart, noteVars
<1>6. ASSUME NEW c \in Call, Listen(c) PROVE NotesApart'
  <2>1. PICK n \in Note :
           /\ IF notifyOf[AddressOf[c]] # None THEN n = notifyOf[AddressOf[c]]
              ELSE n \in {m \in Note : NoteStrong(m) = 0}
           /\ notifyOf' = [notifyOf EXCEPT ![AddressOf[c]] = n]
        BY <1>6, ZenonT(30) DEF Listen
  <2>2. CASE notifyOf[AddressOf[c]] # None
        BY <2>1, <2>2, LimitsAssumption DEF NotesApart, Typed
  <2>3. CASE notifyOf[AddressOf[c]] = None
    <3>1. \A b \in Address : notifyOf[b] # n
        BY <2>1, <2>3, FreshNote
    <3> QED
        BY <2>1, <3>1, LimitsAssumption DEF NotesApart, Typed
  <2> QED
        BY <2>2, <2>3
<1>7. ASSUME NEW c \in Call, NoteQuiet(c) PROVE NotesApart'
    BY <1>7, NoteQuietKeeps DEF NotesApart
<1>8. CASE UNCHANGED vars
    BY <1>8 DEF NotesApart, vars
<1> QED
    BY <1>1, <1>2, <1>3, <1>4, <1>5, <1>6, <1>7, <1>8 DEF Next, Step, NoteQuiet

\* The Notify of a listening call stays the entry of its address: it is removed
\* only when the reference count says that nobody else listens.
LEMMA NextReachable ==
    Typed /\ Waits /\ NotesApart /\ ListenersAreReachable /\ Queues /\ [Next]_vars =>
      ListenersAreReachable'
<1> SUFFICES ASSUME Typed, Waits, NotesApart, ListenersAreReachable, Queues, [Next]_vars
             PROVE  ListenersAreReachable'
    OBVIOUS
<1>1. ASSUME NEW c \in Call, NotifyOne(c) PROVE ListenersAreReachable'
  <2>1. PICK n \in grabbed[c] : Notified(n)
        BY <1>1 DEF NotifyOne
  <2>2. n \in Note /\ UNCHANGED <<notifyOf, wait>>
        BY <1>1, <2>1 DEF NotifyOne, Typed
  <2>3. \A d \in Call : local'[d] # "dropped" => local[d] # "dropped"
    <3>1. CASE local' = local
        BY <3>1, ZenonT(30)
    <3>2. ASSUME NEW e \in Call, local[e] = "queued", local' = [local EXCEPT ![e] = "notified"]
          PROVE  \A d \in Call : local'[d] # "dropped" => local[d] # "dropped"
        BY <3>2 DEF Typed
    <3> QED
        BY <2>1, <2>2, <3>1, <3>2, NotifiedEffect, ZenonT(30)
  <2> QED
        BY <2>2, <2>3 DEF ListenersAreReachable
<1>2. ASSUME NEW c \in Call, Poll(c) PROVE ListenersAreReachable'
  <2>1. local[c] # "dropped" /\ UNCHANGED <<notifyOf, wait>>
        BY <1>2 DEF Poll, Waits, WaitOf, Subscribed, Leaving
  <2>2. \E l \in {"done", "queued"} : local' = [local EXCEPT ![c] = l]
        BY <1>2 DEF Poll
  <2> QED
        BY <2>1, <2>2 DEF ListenersAreReachable, Typed
<1>3. ASSUME NEW c \in Call, DropNotified(c) PROVE ListenersAreReachable'
  <2>1. \A d \in Call : local'[d] # "dropped" => local[d] # "dropped"
        BY <1>3, DropNotifiedEffect, ZenonT(30) DEF Typed
  <2>2. UNCHANGED <<notifyOf, wait>>
        BY <1>3 DEF DropNotified
  <2> QED
        BY <2>1, <2>2 DEF ListenersAreReachable
<1>4. ASSUME NEW c \in Call, ReclaimNotify(c) PROVE ListenersAreReachable'
  <2>1. wait' = wait /\ local' = local /\ local[c] = "dropped"
        BY <1>4 DEF ReclaimNotify, Waits, WaitOf, Leaving
  <2>2. CASE notifyOf' = notifyOf
        BY <2>1, <2>2 DEF ListenersAreReachable
  <2>3. CASE /\ notifyOf[AddressOf[c]] = wait[c] /\ NoteStrong(wait[c]) = 2
             /\ notifyOf' = [notifyOf EXCEPT ![AddressOf[c]] = None]
    <3>1. ASSUME NEW d \in Call, wait[d] # None, local[d] # "dropped"
          PROVE  notifyOf'[AddressOf[d]] = wait[d]
      <4>1. d # c /\ notifyOf[AddressOf[d]] = wait[d]
        BY <2>1, <3>1 DEF ListenersAreReachable
      <4>2. AddressOf[d] # AddressOf[c]
        BY <2>3, <3>1, <4>1, SharedNote, LimitsAssumption
      <4> QED
        BY <2>3, <4>1, <4>2, LimitsAssumption DEF Typed
    <3> QED
        BY <2>1, <3>1 DEF ListenersAreReachable
  <2> QED
        BY <1>4, <2>2, <2>3 DEF ReclaimNotify
<1>5. ASSUME NEW c \in Call, DropNotify(c) PROVE ListenersAreReachable'
    BY <1>5 DEF DropNotify, ListenersAreReachable, Typed
<1>6. ASSUME NEW c \in Call, Listen(c) PROVE ListenersAreReachable'
  <2>1. PICK n \in Note :
           /\ notifyOf[AddressOf[c]] # None => n = notifyOf[AddressOf[c]]
           /\ notifyOf' = [notifyOf EXCEPT ![AddressOf[c]] = n]
           /\ wait' = [wait EXCEPT ![c] = n]
        BY <1>6, ZenonT(30) DEF Listen
  <2>2. local' = [local EXCEPT ![c] = "init"]
        BY <1>6 DEF Listen
  <2> QED
        BY <2>1, <2>2, LimitsAssumption, ZenonT(30) DEF ListenersAreReachable, Typed
<1>7. ASSUME NEW c \in Call, NoteQuiet(c) PROVE ListenersAreReachable'
    BY <1>7, NoteQuietKeeps DEF ListenersAreReachable
<1>8. CASE UNCHANGED vars
    BY <1>8 DEF ListenersAreReachable, vars
<1> QED
    BY <1>1, <1>2, <1>3, <1>4, <1>5, <1>6, <1>7, <1>8 DEF Next, Step, NoteQuiet

-----------------------------------------------------------------------------
(* The theorems *)

\* Nobody has called, and every semaphore has all its permits.
LEMMA InitIInv == Init => IInv
<1> SUFFICES ASSUME Init PROVE IInv
    OBVIOUS
<1>1. Typed
    BY LimitsAssumption DEF Init, Typed, Labels
<1>2. Returns /\ Binds /\ Entries
    BY DEF Init, Returns, Binds, Entries, Bound, Releasing, Leaving, Telling
<1>3. Slots
  <2>1. Globals = {} /\ \A s \in Sem : Holders(s) = {}
        BY LimitsAssumption DEF Init, Globals, Global, Holders, Releasing, Leaving, Telling
  <2>2. Cardinality({}) = 0
        BY FS_EmptySet
  <2>3. Cardinality(Globals) = 0 /\ \A s \in Sem : Cardinality(Holders(s)) = 0
        BY <2>1, <2>2
  <2>4. MaxTotal + 0 = MaxTotal /\ MaxPerAddress + 0 = MaxPerAddress
        BY LimitsAssumption
  <2>5. free = MaxTotal /\ \A s \in Sem : available[s] = MaxPerAddress
        BY DEF Init
  <2> QED
        BY <2>3, <2>4, <2>5 DEF Slots
<1>4. Waits /\ NotesApart /\ ListenersAreReachable
    BY DEF Init, Waits, WaitOf, Subscribed, NotesApart, ListenersAreReachable, Releasing,
       Leaving, Telling
<1>5. Queues
    BY DEF Init, Queues
<1> QED
    BY <1>1, <1>2, <1>3, <1>4, <1>5 DEF IInv

\* Every step preserves the invariant.
LEMMA NextIInv == IInv /\ [Next]_vars => IInv'
<1> SUFFICES ASSUME IInv, [Next]_vars PROVE IInv'
    OBVIOUS
<1>1. Typed' /\ Returns' /\ Binds'
    BY NextTyped, NextReturns, NextBinds DEF IInv
<1>2. Slots'
    BY NextTotal, NextPerAddress DEF IInv, Slots
<1>3. Entries' /\ Waits'
    BY NextEntries, NextWaits DEF IInv
<1>4. NotesApart' /\ ListenersAreReachable' /\ Queues'
    BY NextApart, NextReachable, NextQueues DEF IInv
<1> QED
    BY <1>1, <1>2, <1>3, <1>4 DEF IInv

\* The inductive invariant holds.
THEOREM Invariance == Spec => []IInv
BY InitIInv, NextIInv, PTL DEF Spec

\* What the invariant says of the limits.
LEMMA IInvLimits == IInv => LimitsHold
<1> SUFFICES ASSUME IInv PROVE LimitsHold
    OBVIOUS
<1>1. /\ Cardinality(Globals) \in Nat
      /\ \A s \in Sem : Cardinality(Holders(s)) \in Nat
  <2>1. IsFiniteSet(Globals) /\ \A s \in Sem : IsFiniteSet(Holders(s))
        BY LimitsAssumption, FS_Subset DEF Globals, Holders
  <2> QED
        BY <2>1, FS_CardinalityType
<1>2. TypeOK
  <2>1. free \in 0..MaxTotal
        BY <1>1, LimitsAssumption DEF IInv, Typed, Slots
  <2>2. \A s \in Sem : available[s] \in 0..MaxPerAddress
        BY <1>1, LimitsAssumption DEF IInv, Typed, Slots
  <2>3. available \in [Sem -> 0..MaxPerAddress]
        BY <2>2 DEF IInv, Typed
  <2> QED
        BY <2>1, <2>3 DEF IInv, Typed, TypeOK
<1>3. AddressLimitHolds
  <2>1. ASSUME NEW a \in Address PROVE Cardinality(Holding(a)) <= MaxPerAddress
    <3>1. CASE semOf[a] = None
      <4>1. Holding(a) = {}
        BY <3>1 DEF IInv, Entries, Holding
      <4> QED
        BY <4>1, FS_EmptySet, LimitsAssumption
    <3>2. CASE semOf[a] # None
      <4>1. semOf[a] \in Sem
        BY <3>2 DEF IInv, Typed
      <4>2. Holding(a) \subseteq Holders(semOf[a])
        BY DEF IInv, Entries, Holding, Holders, Unpermitted
      <4>3. IsFiniteSet(Holders(semOf[a]))
        BY LimitsAssumption, FS_Subset DEF Holders
      <4>4. /\ Cardinality(Holding(a)) <= Cardinality(Holders(semOf[a]))
            /\ IsFiniteSet(Holding(a))
        BY <4>2, <4>3, FS_Subset
      <4>5. Cardinality(Holding(a)) \in Nat
        BY <4>4, FS_CardinalityType
      <4>6. available[semOf[a]] + Cardinality(Holders(semOf[a])) = MaxPerAddress
        BY <4>1 DEF IInv, Slots
      <4>7. available[semOf[a]] \in Nat
        BY <4>1 DEF IInv, Typed
      <4> QED
        BY <1>1, <4>1, <4>4, <4>5, <4>6, <4>7, LimitsAssumption
    <3> QED
        BY <3>1, <3>2
  <2> QED
        BY <2>1 DEF AddressLimitHolds
<1>4. TotalLimitHolds
  <2> DEFINE S == {c \in Call : pc[c] \in {"dial", "open"}}
  <2>1. S \subseteq Globals
        BY DEF Globals, Global
  <2>2. IsFiniteSet(Globals)
        BY LimitsAssumption, FS_Subset DEF Globals
  <2>3. Cardinality(S) <= Cardinality(Globals) /\ IsFiniteSet(S)
        BY <2>1, <2>2, FS_Subset
  <2>4. Cardinality(S) \in Nat
        BY <2>3, FS_CardinalityType
  <2>5. free + Cardinality(Globals) = MaxTotal /\ free \in Nat
        BY DEF IInv, Slots, Typed
  <2>6. Cardinality(S) <= MaxTotal
        BY <1>1, <2>3, <2>4, <2>5, LimitsAssumption
  <2> QED
        BY <2>6 DEF TotalLimitHolds
<1> QED
    BY <1>2, <1>3, <1>4 DEF IInv, LimitsHold

\* Whatever the number of calls and addresses, and however the drops on several
\* threads interleave with semaphore_for, listen and the two reclaims, an address
\* and the client never have more connections than their limits, and a waiting
\* call stays where the next release finds it (LimitsHold).
THEOREM Limits == Spec => []LimitsHold
BY Invariance, IInvLimits, PTL

-----------------------------------------------------------------------------
(* Who hears of a slot *)

\* The call gave a connection up and is on its way to notify_global.
Pending(c) ==
  \/ pc[c] \in {"drop global", "notify global"}
  \/ pc[c] \in Releasing /\ then[c] = "drop global"
  \/ pc[c] \in Telling /\ then[c] = "notify global"

Announced == \E d \in Call : Pending(d)

\* The call found no slot; or it has a permit of its address to give back.
Sleeper(c) == pc[c] \in {"blocked", "waiting"}
Bouncing(c) == pc[c] \in Releasing /\ then[c] = "blocked"

\* A call that goes to sleep without a word had no slot to take and, if one came
\* up since, its notify_global is still to come.  A call that gives an address
\* permit back relies on the total limit alone.
Claim(c) ==
  \/ heard[c] \/ Announced
  \/ /\ Sleeper(c) /\ c \notin misled => ~CanAcquire(AddressOf[c])
     /\ Bouncing(c) => free = 0

Claims == \A c \in Call : Claim(c)

\* What a step of c does not do to the others.
Aside(c) ==
  \A d \in Call \ {c} :
    /\ pc'[d] = pc[d] /\ then'[d] = then[d] /\ heard'[d] = heard[d]
    /\ d \in misled => d \in misled'

\* An announcement outlives every step but its own last.
LEMMA AnnouncedStays ==
    ASSUME NEW c \in Call, Aside(c), Pending(c) => Pending(c)', Announced
    PROVE  Announced'
<1>1. PICK d \in Call : Pending(d)
    BY DEF Announced
<1>2. Pending(d)'
    BY <1>1 DEF Aside, Pending
<1> QED
    BY <1>2 DEF Announced

\* A step that makes no slot free keeps the claims of the others.
LEMMA ClaimsStay ==
    ASSUME Claims, NEW c \in Call, Aside(c), Pending(c) => Pending(c)',
           free = 0 => free' = 0, Claim(c)',
           \A d \in Call \ {c} : Sleeper(d) /\ CanAcquire(AddressOf[d])' =>
              CanAcquire(AddressOf[d]) \/ d \in misled'
    PROVE  Claims'
<1> SUFFICES ASSUME NEW d \in Call \ {c} PROVE Claim(d)'
    BY DEF Claims
<1>1. CASE heard[d]
    BY <1>1, ZenonT(30) DEF Aside, Claim
<1>2. CASE Announced
    BY <1>2, AnnouncedStays DEF Claim
<1>3. CASE ~heard[d] /\ ~Announced
  <2>1. /\ Sleeper(d) /\ d \notin misled => ~CanAcquire(AddressOf[d])
        /\ Bouncing(d) => free = 0
        BY <1>3 DEF Claims, Claim
  <2>2. (Sleeper(d)' <=> Sleeper(d)) /\ (Bouncing(d)' <=> Bouncing(d))
        BY DEF Aside, Sleeper, Bouncing
  <2>3. d \in misled => d \in misled'
        BY DEF Aside
  <2>4. Sleeper(d)' /\ d \notin misled' => ~CanAcquire(AddressOf[d])'
        BY <2>1, <2>2, <2>3
  <2>5. Bouncing(d)' => (free = 0)'
        BY <2>1, <2>2
  <2> QED
        BY <2>4, <2>5 DEF Claim
<1> QED
    BY <1>1, <1>2, <1>3

\* Where a quiet step leads: to sleep only with nothing to take.
Onward(c) ==
  /\ Pending(c) => Pending(c)'
  /\ Sleeper(c)' => /\ Sleeper(c) \/ ~CanAcquire(AddressOf[c])
                    /\ heard'[c] = heard[c] /\ misled' = misled
  /\ Bouncing(c)' => Bouncing(c) /\ heard'[c] = heard[c]

\* The steps that leave the semaphores alone, but for notify_global.
LEMMA QuietOnward ==
    ASSUME Typed, Returns, NEW c \in Call, SemQuiet(c), ~NotifyGlobal(c)
    PROVE  Aside(c) /\ Onward(c)
<1>1. CASE Listen(c)
    BY <1>1 DEF Listen, Goto, GotoThen, Aside, Onward, Pending, Sleeper, Bouncing,
       Typed, Returns, Releasing, Leaving, Telling, semVars, noteVars
<1>2. CASE Stale(c)
    BY <1>2 DEF Stale, Goto, GotoThen, Aside, Onward, Pending, Sleeper, Bouncing,
       Typed, Returns, Releasing, Leaving, Telling, semVars, noteVars
<1>3. CASE LeaveEarly(c)
    BY <1>3 DEF LeaveEarly, Goto, GotoThen, Aside, Onward, Pending, Sleeper, Bouncing,
       Typed, Returns, Releasing, Leaving, Telling, semVars, noteVars
<1>4. CASE SuppressDnsFailure(c)
    BY <1>4 DEF SuppressDnsFailure, Goto, GotoThen, Aside, Onward, Pending, Sleeper, Bouncing,
       Typed, Returns, Releasing, Leaving, Telling, semVars, noteVars
<1>5. CASE DialSucceeds(c)
    BY <1>5 DEF DialSucceeds, Goto, GotoThen, Aside, Onward, Pending, Sleeper, Bouncing,
       Typed, Returns, Releasing, Leaving, Telling, semVars, noteVars
<1>6. CASE DialFails(c)
    BY <1>6 DEF DialFails, Goto, GotoThen, Aside, Onward, Pending, Sleeper, Bouncing,
       Typed, Returns, Releasing, Leaving, Telling, semVars, noteVars
<1>7. CASE Close(c)
    BY <1>7 DEF Close, Goto, GotoThen, Aside, Onward, Pending, Sleeper, Bouncing,
       Typed, Returns, Releasing, Leaving, Telling, semVars, noteVars
<1>8. CASE CheckSemaphore(c)
    BY <1>8 DEF CheckSemaphore, Goto, GotoThen, Aside, Onward, Pending, Sleeper, Bouncing,
       Typed, Returns, Releasing, Leaving, Telling, semVars, noteVars
<1>9. CASE ExistingNotify(c)
  <2>1. then[c] \in {"resolve", "notify global", "notify coalesced"}
        BY <1>9 DEF ExistingNotify, Returns
  <2>2. CASE pc' = [pc EXCEPT ![c] = then[c]] /\ then' = [then EXCEPT ![c] = "idle"]
        BY <1>9, <2>1, <2>2 DEF ExistingNotify, Aside, Onward, Pending, Sleeper, Bouncing,
           Typed, Returns, Releasing, Leaving, Telling, semVars, noteVars
  <2>3. CASE pc' = [pc EXCEPT ![c] = "notify one"] /\ then' = [then EXCEPT ![c] = then[c]]
        BY <1>9, <2>1, <2>3 DEF ExistingNotify, Aside, Onward, Pending, Sleeper, Bouncing,
           Typed, Returns, Releasing, Leaving, Telling, semVars, noteVars
  <2> QED
        BY <1>9, <2>2, <2>3, GrabMoves DEF ExistingNotify
<1>10. CASE NotifyOne(c)
  <2>1. then[c] \in {"resolve", "notify global", "notify coalesced", "open"}
        BY <1>10 DEF NotifyOne, Returns
  <2>2. CASE pc' = [pc EXCEPT ![c] = then[c]] /\ then' = [then EXCEPT ![c] = "idle"]
        BY <1>10, <2>1, <2>2 DEF NotifyOne, Aside, Onward, Pending, Sleeper, Bouncing,
           Typed, Returns, Releasing, Leaving, Telling, semVars, noteVars
  <2>3. CASE pc' = [pc EXCEPT ![c] = "notify one"] /\ then' = [then EXCEPT ![c] = then[c]]
        BY <1>10, <2>1, <2>3 DEF NotifyOne, Aside, Onward, Pending, Sleeper, Bouncing,
           Typed, Returns, Releasing, Leaving, Telling, semVars, noteVars
  <2> QED
        BY <1>10, <2>2, <2>3, GrabMoves DEF NotifyOne
<1>11. CASE ExchangeEnds(c)
    BY <1>11 DEF ExchangeEnds, Goto, GotoThen, Aside, Onward, Pending, Sleeper, Bouncing,
       Typed, Returns, Releasing, Leaving, Telling, semVars, noteVars
<1>12. CASE NotifyCoalesced(c)
  <2>2. CASE pc' = [pc EXCEPT ![c] = "open"] /\ then' = [then EXCEPT ![c] = "idle"]
        BY <1>12, <2>2, ZenonT(30) DEF NotifyCoalesced, Aside, Onward, Pending, Sleeper, Bouncing,
           Typed, Returns, Releasing, Leaving, Telling, semVars, noteVars
  <2>3. CASE pc' = [pc EXCEPT ![c] = "notify one"] /\ then' = [then EXCEPT ![c] = "open"]
        BY <1>12, <2>3, ZenonT(30) DEF NotifyCoalesced, Aside, Onward, Pending, Sleeper, Bouncing,
           Typed, Returns, Releasing, Leaving, Telling, semVars, noteVars
  <2> QED
        BY <1>12, <2>2, <2>3, GrabMoves, ZenonT(30) DEF NotifyCoalesced
<1>13. CASE Poll(c)
  <2>2. CASE pc' = [pc EXCEPT ![c] = "drop wait"] /\ then' = [then EXCEPT ![c] = "again"]
        BY <1>13, <2>2 DEF Poll, Aside, Onward, Pending, Sleeper, Bouncing,
           Typed, Returns, Releasing, Leaving, Telling, semVars, noteVars
  <2>3. CASE pc' = [pc EXCEPT ![c] = "waiting"] /\ then' = then
        BY <1>13, <2>3 DEF Poll, Aside, Onward, Pending, Sleeper, Bouncing,
           Typed, Returns, Releasing, Leaving, Telling, semVars, noteVars
  <2> QED
        BY <1>13, <2>2, <2>3 DEF Poll, Goto, GotoThen
<1>14. CASE Cancel(c)
    BY <1>14 DEF Cancel, Goto, GotoThen, Aside, Onward, Pending, Sleeper, Bouncing,
       Typed, Returns, Releasing, Leaving, Telling, semVars, noteVars
<1>15. CASE DropNotified(c)
    BY <1>15 DEF DropNotified, Goto, GotoThen, Aside, Onward, Pending, Sleeper, Bouncing,
       Typed, Returns, Releasing, Leaving, Telling, semVars, noteVars
<1>16. CASE CheckNotify(c)
    BY <1>16 DEF CheckNotify, Goto, GotoThen, Aside, Onward, Pending, Sleeper, Bouncing,
       Typed, Returns, Releasing, Leaving, Telling, semVars, noteVars
<1>17. CASE ReclaimNotify(c)
    BY <1>17 DEF ReclaimNotify, Goto, GotoThen, Aside, Onward, Pending, Sleeper, Bouncing,
       Typed, Returns, Releasing, Leaving, Telling, semVars, noteVars
<1>18. CASE DropNotify(c)
    BY <1>18 DEF DropNotify, Goto, GotoThen, Aside, Onward, Pending, Sleeper, Bouncing,
       Typed, Returns, Releasing, Leaving, Telling, semVars, noteVars
<1> QED
    BY <1>1, <1>2, <1>3, <1>4, <1>5, <1>6, <1>7, <1>8, <1>9, <1>10,
       <1>11, <1>12, <1>13, <1>14, <1>15, <1>16, <1>17, <1>18 DEF SemQuiet

\* No step makes a sleeper's slot free without an announcement to come, unless it
\* is a bounce.
LEMMA NextClaims == IInv /\ Claims /\ [Next]_vars => Claims'
<1> SUFFICES ASSUME IInv, Claims, [Next]_vars PROVE Claims'
    OBVIOUS
<1> USE DEF IInv
<1>1. ASSUME NEW c \in Call, SemQuiet(c), ~NotifyGlobal(c) PROVE Claims'
  <2>1. Aside(c) /\ Onward(c)
        BY <1>1, QuietOnward
  <2>2. UNCHANGED <<semOf, available, free>>
        BY <1>1, SemQuietKeeps DEF SemKept
  <2>3. \A a \in Address : CanAcquire(a)' <=> CanAcquire(a)
        BY <2>2 DEF CanAcquire
  <2>4. AddressOf[c] \in Address /\ \A d \in Call : AddressOf[d] \in Address
        BY LimitsAssumption
  <2>5. Claim(c)'
    <3>1. CASE Announced
        BY <2>1, <3>1, AnnouncedStays DEF Onward, Claim
    <3>2. CASE ~Announced /\ Sleeper(c)'
        BY <2>1, <2>2, <2>3, <2>4, <3>2 DEF Onward, Claims, Claim
    <3>3. CASE ~Announced /\ ~Sleeper(c)'
        BY <2>1, <2>2, <3>3 DEF Onward, Claims, Claim
    <3> QED
        BY <3>1, <3>2, <3>3
  <2> QED
        BY <2>1, <2>2, <2>3, <2>4, <2>5, ClaimsStay, ZenonT(30) DEF Onward
<1>2. ASSUME NEW c \in Call, NotifyGlobal(c) PROVE Claims'
  <2> SUFFICES ASSUME NEW d \in Call, Sleeper(d)' \/ Bouncing(d)' PROVE heard'[d]
        BY DEF Claims, Claim
  <2>1. pc'[c] \in {"drop wait", "idle"} /\ d # c => pc'[d] = pc[d] /\ then'[d] = then[d]
        BY <1>2 DEF NotifyGlobal, Goto, GotoThen, Typed
  <2>2. pc'[c] \in {"drop wait", "idle"}
        BY <1>2 DEF NotifyGlobal, Goto, GotoThen, Typed
  <2>3. d # c
        BY <2>2 DEF Sleeper, Bouncing, Releasing
  <2>4. Sleeper(d) \/ Bouncing(d)
        BY <2>1, <2>2, <2>3 DEF Sleeper, Bouncing
  <2>5. local[d] # "dropped"
        BY <2>4 DEF Sleeper, Bouncing, Waits, WaitOf, Subscribed, Releasing, Leaving
  <2> QED
        BY <1>2, <2>5 DEF NotifyGlobal
<1>3. ASSUME NEW c \in Call, SemaphoreFor(c) PROVE Claims'
  <2> DEFINE a == AddressOf[c]
  <2>1. PICK s \in Sem :
           /\ IF semOf[a] # None THEN s = semOf[a] ELSE s \in {r \in Sem : SemStrong(r) = 0}
           /\ semOf' = [semOf EXCEPT ![a] = s]
           /\ available' = IF semOf[a] = None
                             THEN [available EXCEPT ![s] = MaxPerAddress]
                             ELSE available
        BY <1>3 DEF SemaphoreFor
  <2>2. ASSUME NEW b \in Address, CanAcquire(b)' PROVE CanAcquire(b)
    <3>1. CASE semOf[a] # None
        BY <1>3, <2>1, <2>2, <3>1, LimitsAssumption DEF CanAcquire, SemaphoreFor, Typed
    <3>2. CASE semOf[a] = None
      <4>1. \A e \in Address : semOf[e] # s
        BY <2>1, <3>2, FreshSem
      <4> QED
        BY <1>3, <2>1, <2>2, <3>2, <4>1, LimitsAssumption DEF CanAcquire, SemaphoreFor, Typed
    <3> QED
        BY <3>1, <3>2
  <2>3. Aside(c) /\ ~Pending(c) /\ ~Sleeper(c)' /\ ~Bouncing(c)' /\ free' = free
        BY <1>3 DEF SemaphoreFor, Goto, Aside, Pending, Sleeper, Bouncing, Typed, Releasing,
           Telling, noteVars
  <2>4. Claim(c)'
        BY <2>3 DEF Claim
  <2> QED
        BY <2>2, <2>3, <2>4, ClaimsStay, LimitsAssumption
<1>4. ASSUME NEW c \in Call, TryAddress(c) PROVE Claims'
  <2>1. sem[c] \in Sem /\ semOf[AddressOf[c]] = sem[c] /\ available[sem[c]] \in Nat
    <3>1. sem[c] \in Sem
        BY <1>4, HoldsSem DEF TryAddress, Bound
    <3> QED
        BY <1>4, <3>1, LimitsAssumption DEF TryAddress, Entries, Typed
  <2>2. Aside(c) /\ ~Pending(c) /\ ~Bouncing(c)' /\ free' = free /\ semOf' = semOf
        BY <1>4 DEF TryAddress, Goto, Aside, Pending, Bouncing, Typed, Releasing, Telling,
           noteVars
  <2>3. CASE available[sem[c]] > 0
    <3>1. available' = [available EXCEPT ![sem[c]] = @ - 1] /\ ~Sleeper(c)'
        BY <1>4, <2>3 DEF TryAddress, Goto, Typed, Sleeper
    <3>2. \A b \in Address : CanAcquire(b)' => CanAcquire(b)
        BY <2>1, <2>2, <2>3, <3>1 DEF CanAcquire, Typed
    <3>3. Claim(c)'
        BY <2>2, <3>1 DEF Claim
    <3> QED
        BY <2>2, <3>2, <3>3, ClaimsStay, LimitsAssumption
  <2>4. CASE ~(available[sem[c]] > 0)
    <3>1. available' = available
        BY <1>4, <2>4 DEF TryAddress
    <3>2. \A b \in Address : CanAcquire(b)' <=> CanAcquire(b)
        BY <2>2, <3>1 DEF CanAcquire
    <3>3. ~CanAcquire(AddressOf[c])
        BY <2>1, <2>4, LimitsAssumption DEF CanAcquire
    <3>4. Claim(c)'
        BY <2>2, <3>2, <3>3, LimitsAssumption DEF Claim
    <3> QED
        BY <2>2, <3>2, <3>4, ClaimsStay, LimitsAssumption
  <2> QED
        BY <2>3, <2>4
<1>5. ASSUME NEW c \in Call, TryGlobal(c) PROVE Claims'
  <2>1. Aside(c) /\ ~Pending(c) /\ ~Sleeper(c)' /\ UNCHANGED <<semOf, available>>
    <3>1. CASE pc' = [pc EXCEPT ![c] = "dial"] /\ then' = then
        BY <1>5, <3>1 DEF TryGlobal, Aside, Pending, Sleeper, Typed, Releasing, Telling,
           noteVars
    <3>2. CASE pc' = [pc EXCEPT ![c] = "drop permit"] /\ then' = [then EXCEPT ![c] = "blocked"]
        BY <1>5, <3>2 DEF TryGlobal, Aside, Pending, Sleeper, Typed, Releasing, Telling,
           noteVars
    <3> QED
        BY <1>5, <3>1, <3>2 DEF TryGlobal, Goto, GotoThen
  <2>2. free \in Nat
        BY DEF Typed
  <2>3. CASE free > 0
    <3>1. free' = free - 1 /\ ~Bouncing(c)'
        BY <1>5, <2>3 DEF TryGlobal, Goto, Typed, Bouncing, Releasing
    <3>2. \A b \in Address : CanAcquire(b)' => CanAcquire(b)
        BY <2>1, <2>3 DEF CanAcquire
    <3>3. Claim(c)'
        BY <2>1, <3>1 DEF Claim
    <3> QED
        BY <2>1, <2>3, <3>2, <3>3, ClaimsStay, LimitsAssumption
  <2>4. CASE ~(free > 0)
    <3>1. free' = free /\ free = 0
      <4>1. free = 0
        BY <2>2, <2>4
      <4>2. free' = free
        BY <1>5, <2>4, Zenon DEF TryGlobal
      <4> QED
        BY <4>1, <4>2
    <3>2. \A b \in Address : CanAcquire(b)' => CanAcquire(b)
        BY <2>1, <3>1 DEF CanAcquire
    <3>3. Claim(c)'
        BY <2>1, <3>1 DEF Claim
    <3> QED
        BY <2>1, <3>1, <3>2, <3>3, ClaimsStay, LimitsAssumption
  <2> QED
        BY <2>3, <2>4
<1>6. ASSUME NEW c \in Call, DropPermit(c) PROVE Claims'
  <2>1. sem[c] \in Sem /\ semOf[AddressOf[c]] = sem[c]
    <3>1. sem[c] \in Sem
        BY <1>6, HoldsSem, ZenonT(30) DEF DropPermit, Bound, Releasing
    <3> QED
        BY <1>6, <3>1, LimitsAssumption, ZenonT(30) DEF DropPermit, Entries
  <2>2. /\ then[c] \in {"blocked", "drop global"} /\ free' = free /\ semOf' = semOf
        /\ pc' = [pc EXCEPT ![c] = "check semaphore"] /\ then' = then /\ heard' = heard
        /\ available' = [available EXCEPT ![sem[c]] = @ + 1] /\ misled \subseteq misled'
        BY <1>6 DEF DropPermit, Goto, Returns, Releasing
  <2>3. CASE then[c] = "drop global"
    <3>1. Pending(c)'
        BY <2>2, <2>3 DEF Pending, Typed, Releasing
    <3> QED
        BY <3>1 DEF Claims, Claim, Announced
  <2>4. CASE then[c] = "blocked"
    <3>1. /\ Aside(c) /\ ~Pending(c) /\ ~Sleeper(c)' /\ Bouncing(c)
        BY <1>6, <2>2, <2>4 DEF DropPermit, Aside, Pending, Sleeper, Bouncing, Typed,
           Releasing, Telling
    <3>2. ASSUME NEW d \in Call \ {c}, Sleeper(d), CanAcquire(AddressOf[d])'
          PROVE  CanAcquire(AddressOf[d]) \/ d \in misled'
      <4>1. CASE AddressOf[d] = AddressOf[c]
        BY <1>6, <2>4, <3>2, <4>1, ZenonT(30) DEF DropPermit, BlockedBeside, Sleeper
      <4>2. CASE AddressOf[d] # AddressOf[c]
        <5>1. semOf[AddressOf[d]] # sem[c]
          <6>1. sem[c] # None /\ AddressOf[d] \in Address /\ AddressOf[c] \in Address
            BY <2>1, LimitsAssumption
          <6> QED
            BY <2>1, <4>2, <6>1, Zenon DEF Entries
        <5>2. semOf[AddressOf[d]] \in Sem \cup {None}
          BY LimitsAssumption DEF Typed
        <5> QED
          BY <2>2, <3>2, <5>1, <5>2 DEF CanAcquire, Typed
      <4> QED
        BY <4>1, <4>2
    <3>3. Claim(c)'
      <4>1. CASE Announced
        BY <3>1, <4>1, AnnouncedStays, ZenonT(30) DEF Claim
      <4>2. CASE ~Announced
        BY <2>2, <3>1, <4>2 DEF Claims, Claim
      <4> QED
        BY <4>1, <4>2
    <3> QED
        BY <2>2, <3>1, <3>2, <3>3, ClaimsStay
  <2> QED
        BY <2>2, <2>3, <2>4
<1>7. ASSUME NEW c \in Call, ReclaimSemaphore(c) PROVE Claims'
  <2>1. /\ then[c] \in {"blocked", "drop global"} /\ UNCHANGED <<available, free, then>>
        /\ pc' = [pc EXCEPT ![c] = "drop semaphore"] /\ heard' = heard /\ misled' = misled
        BY <1>7, ZenonT(30) DEF ReclaimSemaphore, Goto, Returns, Releasing, noteVars
  <2>2. /\ Aside(c) /\ (Pending(c) => Pending(c)') /\ ~Sleeper(c)'
        /\ Bouncing(c)' => Bouncing(c)
        BY <1>7, <2>1 DEF ReclaimSemaphore, Aside, Pending, Sleeper, Bouncing, Typed,
           Releasing
  <2>3. ASSUME NEW b \in Address, CanAcquire(b)' PROVE CanAcquire(b)
    <3>1. CASE semOf' = semOf
        BY <2>1, <2>3, <3>1 DEF CanAcquire
    <3>2. CASE /\ semOf[AddressOf[c]] = sem[c] /\ Unused(c)
               /\ semOf' = [semOf EXCEPT ![AddressOf[c]] = None]
      <4>1. free > 0 /\ AddressOf[c] \in Address
        BY <2>1, <2>3, LimitsAssumption DEF CanAcquire
      <4>2. CASE b = AddressOf[c]
        <5>1. semOf[b] = sem[c] /\ available[sem[c]] = MaxPerAddress
          BY <3>2, <4>2, Zenon DEF Unused
        <5>2. available[semOf[b]] > 0
          BY <5>1, LimitsAssumption
        <5> QED
          BY <4>1, <5>2, Zenon DEF CanAcquire
      <4>3. CASE b # AddressOf[c]
        <5>1. semOf'[b] = semOf[b] /\ available' = available
          BY <2>1, <3>2, <4>3 DEF Typed
        <5> QED
          BY <2>3, <4>1, <5>1 DEF CanAcquire
      <4> QED
        BY <4>2, <4>3
    <3> QED
        BY <1>7, <3>1, <3>2 DEF ReclaimSemaphore
  <2>4. Claim(c)'
    <3>1. CASE Announced
        BY <2>2, <3>1, AnnouncedStays DEF Claim
    <3>2. CASE ~Announced
        BY <2>1, <2>2, <3>2, ZenonT(30) DEF Claims, Claim
    <3> QED
        BY <3>1, <3>2
  <2> QED
        BY <2>1, <2>2, <2>3, <2>4, ClaimsStay, LimitsAssumption
<1>8. ASSUME NEW c \in Call, DropSemaphore(c) PROVE Claims'
  <2>1. /\ then[c] \in {"blocked", "drop global"} /\ UNCHANGED <<semOf, available, free>>
        /\ pc' = [pc EXCEPT ![c] = then[c]] /\ then' = [then EXCEPT ![c] = "idle"]
        /\ heard' = heard /\ misled' = misled /\ pc[c] \in Releasing
        BY <1>8 DEF DropSemaphore, Goto, GotoThen, Returns, Releasing, noteVars
  <2>2. CASE then[c] = "drop global"
    <3>1. Pending(c)'
        BY <2>1, <2>2 DEF Pending, Typed
    <3> QED
        BY <3>1 DEF Claims, Claim, Announced
  <2>3. CASE then[c] = "blocked"
    <3>1. Aside(c) /\ ~Pending(c) /\ Bouncing(c) /\ ~Bouncing(c)'
        BY <2>1, <2>3 DEF Aside, Pending, Bouncing, Typed, Releasing, Telling
    <3>2. \A b \in Address : CanAcquire(b)' <=> CanAcquire(b)
        BY <2>1, ZenonT(30) DEF CanAcquire
    <3>3. Claim(c)'
      <4>1. CASE Announced
        BY <3>1, <4>1, AnnouncedStays DEF Claim
      <4>2. CASE ~Announced /\ ~heard[c]
        <5>1. free = 0
          BY <3>1, <4>2 DEF Claims, Claim
        <5>2. ~CanAcquire(AddressOf[c])'
          <6>1. free' = 0
            BY <2>1, <5>1
          <6> QED
            BY <6>1 DEF CanAcquire
        <5> QED
          BY <3>1, <5>2 DEF Claim
      <4>3. CASE heard[c]
        BY <2>1, <4>3 DEF Claim
      <4> QED
        BY <4>1, <4>2, <4>3
    <3> QED
        BY <2>1, <3>1, <3>2, <3>3, ClaimsStay, LimitsAssumption
  <2> QED
        BY <2>1, <2>2, <2>3
<1>9. ASSUME NEW c \in Call, DropGlobal(c) PROVE Claims'
  <2>1. Pending(c)'
        BY <1>9 DEF DropGlobal, Goto, GotoThen, Pending, Typed, Telling
  <2> QED
        BY <2>1 DEF Claims, Claim, Announced
<1>10. CASE UNCHANGED vars
    BY <1>10 DEF vars, Claims, Claim, Announced, Pending, Sleeper, Bouncing, CanAcquire
<1> QED
    BY <1>1, <1>2, <1>3, <1>4, <1>5, <1>6, <1>7, <1>8, <1>9, <1>10
       DEF Next, Step, SemQuiet

\* A call never sleeps beside a slot it could take, unless another one bounced off
\* the total limit and gave back a permit of its address (StrandedOnlyByBounce):
\* every other slot that becomes free is announced by notify_global, and to
\* everybody who subscribed before looking, as listen does.
THEOREM Stranded == Spec => []StrandedOnlyByBounce
<1>1. Init => Claims
    BY DEF Init, Claims, Claim, Sleeper, Bouncing, Releasing
<1>2. Claims => StrandedOnlyByBounce
  <2> SUFFICES ASSUME Claims, Quiet, NEW c \in Call \ misled, Asleep(c)
               PROVE  ~CanAcquire(AddressOf[c])
        BY DEF StrandedOnlyByBounce
  <2>1. ~Announced
        BY DEF Quiet, Asleep, Announced, Pending, Releasing, Telling
  <2> QED
        BY <2>1 DEF Claims, Claim, Sleeper, Asleep
<1> QED
    BY <1>1, <1>2, Invariance, NextClaims, PTL DEF Spec
=============================================================================
