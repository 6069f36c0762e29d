------------------------ MODULE ConnectionWaitProofs ------------------------
(***************************************************************************)
(* The inductive invariant of ConnectionLimits, and the half of its proof   *)
(* that needs no counting: types, the control flow of a call, and the wait  *)
(* lists of the Notify objects.  ConnectionLimitsProofs has the other half, *)
(* which counts permits and references, and the theorems.                   *)
(***************************************************************************)
EXTENDS ConnectionLimits, TLAPS

\* A leaf that names no prover is tried with these, in this order.
USE SMTT(30), ZenonT(30), Z3T(30)

-----------------------------------------------------------------------------
(* The inductive invariant *)

\* The types; that the counters do not exceed the limits follows from Slots.
Typed ==
  /\ semOf \in [Address -> Sem \cup {None}]
  /\ available \in [Sem -> Nat]
  /\ free \in Nat
  /\ notifyOf \in [Address -> Note \cup {None}]
  /\ stored \in SUBSET Note
  /\ queue \in [Note -> Seq(Call)]
  /\ pc \in [Call -> Labels]
  /\ then \in [Call -> Labels]
  /\ sem \in [Call -> Sem \cup {None}]
  /\ wait \in [Call -> Note \cup {None}]
  /\ local \in [Call -> {"init", "queued", "notified", "done", "dropped"}]
  /\ heard \in [Call -> BOOLEAN]
  /\ grabbed \in [Call -> SUBSET Note]
  /\ misled \in SUBSET Call

\* Inside the drop of an AddressSemaphorePermit, of a ConnectionWait, of a notify.
Releasing == {"drop permit", "check semaphore", "reclaim semaphore", "drop semaphore"}
Leaving == {"drop wait", "check notify", "reclaim notify", "drop notify"}
Telling == {"notify", "notify one"}

\* Where a call may go on after a drop.
Returns ==
  \A c \in Call :
    /\ pc[c] \in Releasing => then[c] \in {"blocked", "drop global"}
    /\ pc[c] \in Leaving => then[c] \in {"idle", "again", "open"}
    /\ pc[c] = "notify" => then[c] \in {"resolve", "notify global", "notify coalesced"}
    /\ pc[c] = "notify one" =>
         then[c] \in {"resolve", "notify global", "notify coalesced", "open"}

\* A connection the call opened, dials or gives up, that counts against the total.
Global(c) ==
  \/ pc[c] \in {"dial", "open", "notify coalesced", "drop global"}
  \/ pc[c] \in Releasing /\ then[c] = "drop global"
  \/ pc[c] \in Leaving \cup Telling /\ then[c] \in {"open", "notify coalesced"}

\* The call has an Arc of its address semaphore.
Bound(c) ==
  \/ pc[c] \in {"try address", "try global", "dial", "open", "notify coalesced"}
  \/ pc[c] \in Releasing
  \/ pc[c] \in Leaving \cup Telling /\ then[c] \in {"open", "notify coalesced"}

\* A call has an Arc of its semaphore exactly there.
Binds == \A c \in Call : sem[c] # None <=> Bound(c)

\* Where a call has the Arc and no permit: before try_acquire, and after the drop.
Unpermitted == {"try address", "check semaphore", "reclaim semaphore", "drop semaphore"}

\* The calls with a permit of a semaphore, and those with a global permit.
Holders(s) == {c \in Call : sem[c] = s /\ pc[c] \notin Unpermitted}

Globals == {c \in Call : Global(c)}

\* No permit is lost or made up: it is free or some call has it.
Slots ==
  /\ free + Cardinality(Globals) = MaxTotal
  /\ \A s \in Sem : available[s] + Cardinality(Holders(s)) = MaxPerAddress

\* The entry of an address is the semaphore of every call that uses one for it,
\* but for a call that has just removed it; no two addresses share a semaphore.
Entries ==
  /\ \A c \in Call : sem[c] # None /\ pc[c] # "drop semaphore" =>
       semOf[AddressOf[c]] = sem[c]
  /\ \A a, b \in Address : semOf[a] # None /\ semOf[a] = semOf[b] => a = b

\* The call is inside the loop, or on its way back into it.
Subscribed(c) ==
  \/ pc[c] \in {"probe", "resolve", "try address", "try global", "dial", "blocked",
                "waiting"} \cup Leaving
  \/ pc[c] \in Telling /\ then[c] = "resolve"
  \/ pc[c] \in Releasing /\ then[c] = "blocked"

\* How far the OwnedNotified of a subscription is, by where its call is.
WaitOf(c) ==
  /\ Subscribed(c) => wait[c] # None
  /\ pc[c] \in {"idle", "again"} => wait[c] = None
  /\ wait[c] = None => local[c] = "dropped"
  /\ wait[c] # None /\ pc[c] \notin Leaving \cup {"waiting"} => local[c] = "init"
  /\ pc[c] = "waiting" => local[c] \in {"queued", "notified"}
  /\ pc[c] \in Leaving \ {"drop wait"} => local[c] = "dropped"

Waits == \A c \in Call : WaitOf(c)

\* No two addresses share a Notify.
NotesApart == \A a, b \in Address : notifyOf[a] # None /\ notifyOf[a] = notifyOf[b] => a = b

\* Who is on the list of a Notify waits there, unnotified, and is there once.
Queues ==
  \A n \in Note :
    /\ \A i \in DOMAIN queue[n] :
         wait[queue[n][i]] = n /\ local[queue[n][i]] = "queued"
    /\ \A i, j \in DOMAIN queue[n] : queue[n][i] = queue[n][j] => i = j

\* ListenersAreReachable is not inductive alone: that a Notify is not reclaimed
\* under a listener rests on the reference count (NotesApart, Waits), and that
\* a notification changes only a waiter of that Notify on Queues.
IInv == Typed /\ Returns /\ Binds /\ Slots /\ Entries /\ Waits /\ NotesApart
        /\ ListenersAreReachable /\ Queues

-----------------------------------------------------------------------------
(* The operators of the model *)

\* The sequence without the element of one place.
RemoveAt(q, at) == SubSeq(q, 1, at - 1) \o SubSeq(q, at + 1, Len(q))

\* The elements of a sequence over a set are members of the set.
LEMMA ElementsBelong ==
    ASSUME NEW S, NEW q \in Seq(S), NEW i \in DOMAIN q
    PROVE  q[i] \in S
OBVIOUS

\* Removing one place of a sequence.
LEMMA RemoveAtEffect ==
    ASSUME NEW S, NEW q \in Seq(S), NEW at \in 1..Len(q)
    PROVE  /\ RemoveAt(q, at) \in Seq(S)
           /\ DOMAIN RemoveAt(q, at) = 1..(Len(q) - 1)
           /\ \A i \in 1..(Len(q) - 1) :
                RemoveAt(q, at)[i] = IF i < at THEN q[i] ELSE q[i + 1]
<1> DEFINE f == SubSeq(q, 1, at - 1)
           g == SubSeq(q, at + 1, Len(q))
           w == f \o g
<1>1. Len(q) \in Nat /\ \A i \in 1..Len(q) : q[i] \in S
    OBVIOUS
<1>2. /\ f \in Seq(S) /\ Len(f) = at - 1
      /\ \A i \in 1..(at - 1) : f[i] = q[i]
    BY <1>1
<1>3. /\ g \in Seq(S) /\ Len(g) = Len(q) - at
      /\ \A i \in 1..(Len(q) - at) : g[i] = q[at + i]
  <2>1. g \in Seq(S)
        BY <1>1
  <2>2. Len(g) = Len(q) - at
        BY <1>1
  <2>3. ASSUME NEW i \in 1..(Len(q) - at) PROVE g[i] = q[at + i]
        BY <1>1, <2>2
  <2> QED
        BY <2>1, <2>2, <2>3
<1> HIDE DEF f, g
<1>4. /\ w \in Seq(S) /\ Len(w) = Len(f) + Len(g)
      /\ \A i \in 1..(Len(f) + Len(g)) :
           w[i] = IF i <= Len(f) THEN f[i] ELSE g[i - Len(f)]
  <2>1. f \in Seq(S) /\ g \in Seq(S)
        BY <1>2, <1>3
  <2>2. w \in Seq(S)
        BY <2>1
  <2>3. Len(w) = Len(f) + Len(g)
        BY <2>1
  <2>4. \A i \in 1..(Len(f) + Len(g)) :
           w[i] = IF i <= Len(f) THEN f[i] ELSE g[i - Len(f)]
        BY <2>1
  <2> QED
        BY <2>2, <2>3, <2>4
<1> HIDE DEF w
<1>5. ASSUME NEW i \in 1..(Len(q) - 1)
      PROVE  w[i] = IF i < at THEN q[i] ELSE q[i + 1]
  <2> DEFINE n == Len(q)
             m == Len(f)
             k == Len(g)
  <2>0. /\ n \in Nat /\ at \in 1..n /\ m = at - 1 /\ k = n - at /\ i \in 1..(n - 1)
        /\ \A j \in 1..(m + k) : w[j] = IF j <= m THEN f[j] ELSE g[j - m]
        BY <1>1, <1>2, <1>3, <1>4
  <2> HIDE DEF n, m, k
  <2>3. i \in 1..(m + k)
        BY <2>0
  <2>1. CASE i < at
    <3>1. i <= m /\ i \in 1..(at - 1)
        BY <2>0, <2>1
    <3> QED
        BY <1>2, <2>0, <2>1, <2>3, <3>1
  <2>2. CASE ~(i < at)
    <3>1. i - m \in 1..(n - at) /\ ~(i <= m) /\ at + (i - m) = i + 1
        BY <2>0, <2>2
    <3>2. w[i] = g[i - m]
        BY <2>0, <2>3, <3>1, ZenonT(30)
    <3>3. g[i - m] = q[i + 1]
        BY <1>3, <3>1, ZenonT(30) DEF n
    <3> QED
        BY <2>2, <3>2, <3>3
  <2> QED
        BY <2>1, <2>2
<1>6. RemoveAt(q, at) = w
    BY DEF RemoveAt, f, g, w
<1>7. DOMAIN w = 1..(Len(q) - 1)
    BY <1>1, <1>2, <1>3, <1>4
<1> QED
    BY <1>4, <1>5, <1>6, <1>7

\* The waiter that leaves a list is gone from it, and the others stay in order.
LEMMA WithoutEffect ==
    ASSUME NEW q \in Seq(Call), NEW c \in Call,
           \A i, j \in DOMAIN q : q[i] = q[j] => i = j
    PROVE  /\ Without(q, c) \in Seq(Call)
           /\ \A i \in DOMAIN Without(q, c) :
                Without(q, c)[i] # c /\ \E j \in DOMAIN q : Without(q, c)[i] = q[j]
           /\ \A i, j \in DOMAIN Without(q, c) :
                Without(q, c)[i] = Without(q, c)[j] => i = j
<1>1. CASE ~ \E i \in DOMAIN q : q[i] = c
    BY <1>1 DEF Without
<1>2. CASE \E i \in DOMAIN q : q[i] = c
  <2> DEFINE at == CHOOSE i \in DOMAIN q : q[i] = c
             w == RemoveAt(q, at)
  <2>1. at \in DOMAIN q /\ q[at] = c
        BY <1>2
  <2>2. Without(q, c) = w
        BY <1>2, ZenonT(30) DEF Without, RemoveAt
  <2> HIDE DEF at
  <2>3. /\ w \in Seq(Call) /\ DOMAIN w = 1..(Len(q) - 1)
        /\ \A i \in 1..(Len(q) - 1) : w[i] = IF i < at THEN q[i] ELSE q[i + 1]
        BY <2>1, RemoveAtEffect
  <2>4. Len(q) \in Nat /\ DOMAIN q = 1..Len(q)
        OBVIOUS
  <2> HIDE DEF w
  <2>5. ASSUME NEW i \in DOMAIN w
        PROVE  \E j \in DOMAIN q : w[i] = q[j] /\ j # at
    <3>1. i \in Nat /\ at \in Nat /\ i \in DOMAIN q /\ i + 1 \in DOMAIN q
        BY <2>1, <2>3, <2>4
    <3>2. CASE i < at
        BY <2>3, <3>1, <3>2
    <3>3. CASE ~(i < at)
      <4>1. w[i] = q[i + 1] /\ i + 1 # at
        BY <2>3, <3>1, <3>3
      <4> QED
        BY <3>1, <4>1
    <3> QED
        BY <3>2, <3>3
  <2>6. ASSUME NEW i \in DOMAIN w, NEW j \in DOMAIN w, w[i] = w[j] PROVE i = j
    <3> DEFINE x == IF i < at THEN i ELSE i + 1
               y == IF j < at THEN j ELSE j + 1
    <3>1. x \in DOMAIN q /\ y \in DOMAIN q
        BY <2>1, <2>3, <2>4
    <3>2. w[i] = q[x] /\ w[j] = q[y]
        BY <2>3
    <3>3. x = y => i = j
        BY <2>1, <2>3, <2>4
    <3> HIDE DEF x, y
    <3> QED
        BY <2>6, <3>1, <3>2, <3>3, ZenonT(30)
  <2> QED
        BY <2>1, <2>2, <2>3, <2>5, <2>6
<1> QED
    BY <1>1, <1>2

\* Where a call goes with the Arcs it cloned.
LEMMA GrabMoves ==
    ASSUME NEW c \in Call, NEW notes, NEW l, Grab(c, notes, l)
    PROVE  \/ pc' = [pc EXCEPT ![c] = l] /\ then' = [then EXCEPT ![c] = "idle"]
           \/ pc' = [pc EXCEPT ![c] = "notify one"] /\ then' = [then EXCEPT ![c] = l]
BY DEF Grab, GotoThen, Goto

\* Which calls hold what, at the steps that need it.
LEMMA HoldsNote ==
    ASSUME Typed, Waits, NEW c \in Call, Subscribed(c)
    PROVE  wait[c] \in Note
BY DEF Typed, Waits, WaitOf

\* So is the semaphore.
LEMMA HoldsSem ==
    ASSUME Typed, Binds, NEW c \in Call, Bound(c)
    PROVE  sem[c] \in Sem
BY DEF Typed, Binds

\* notify_one, by a call that holds the Arc.
LEMMA NotifiedTyped ==
    ASSUME Typed, NEW n \in Note, Notified(n)
    PROVE  /\ stored' \in SUBSET Note
           /\ queue' \in [Note -> Seq(Call)]
           /\ local' \in [Call -> {"init", "queued", "notified", "done", "dropped"}]
<1>1. CASE queue[n] = <<>>
    BY <1>1 DEF Notified, Typed
<1>2. CASE queue[n] # <<>>
  <2>1. Tail(queue[n]) \in Seq(Call) /\ Head(queue[n]) \in Call
        BY <1>2 DEF Typed
  <2> QED
        BY <1>2, <2>1, ZenonT(30) DEF Notified, Typed
<1> QED
    BY <1>1, <1>2

-----------------------------------------------------------------------------
(* Types and control *)

\* Every step keeps the types.
LEMMA NextTyped ==
    Typed /\ Returns /\ Binds /\ Waits /\ Queues /\ [Next]_vars => Typed'
<1> SUFFICES ASSUME Typed, Returns, Binds, Waits, Queues, [Next]_vars PROVE Typed'
    OBVIOUS
<1>1. ASSUME NEW c \in Call, SemaphoreFor(c) PROVE Typed'
  <2>1. PICK s \in Sem :
           /\ semOf' = [semOf EXCEPT ![AddressOf[c]] = s]
           /\ available' = IF semOf[AddressOf[c]] = None
                             THEN [available EXCEPT ![s] = MaxPerAddress]
                             ELSE available
           /\ sem' = [sem EXCEPT ![c] = s]
        BY <1>1 DEF SemaphoreFor
  <2>2. available' \in [Sem -> Nat]
        BY <2>1, LimitsAssumption DEF Typed
  <2> QED
        BY <1>1, <2>1, <2>2, LimitsAssumption DEF SemaphoreFor, Goto, Typed, Labels,
           noteVars
<1>2. ASSUME NEW c \in Call, TryAddress(c) PROVE Typed'
  <2>1. sem[c] \in Sem
        BY <1>2, HoldsSem DEF TryAddress, Bound
  <2>2. CASE available[sem[c]] > 0
    <3>1. available' = [available EXCEPT ![sem[c]] = available[sem[c]] - 1]
        BY <1>2, <2>2 DEF TryAddress
    <3>2. available \in [Sem -> Nat]
        BY DEF Typed
    <3>3. available' \in [Sem -> Nat]
        BY <2>1, <2>2, <3>1, <3>2
    <3> QED
        BY <1>2, <2>2, <3>3 DEF TryAddress, Goto, Typed, Labels, noteVars
  <2>3. CASE ~(available[sem[c]] > 0)
        BY <1>2, <2>1, <2>3 DEF TryAddress, Goto, Typed, Labels, noteVars
  <2> QED
        BY <2>2, <2>3
<1>3. ASSUME NEW c \in Call, TryGlobal(c) PROVE Typed'
  <2>1. free \in Nat
        BY DEF Typed
  <2>2. CASE free > 0
    <3>1. free' = free - 1
        BY <1>3, <2>2 DEF TryGlobal
    <3>2. free' \in Nat
        BY <2>1, <2>2, <3>1
    <3> QED
        BY <1>3, <2>2, <3>2 DEF TryGlobal, Goto, Typed, Labels, noteVars
  <2>3. CASE ~(free > 0)
        BY <1>3, <2>3 DEF TryGlobal, Goto, GotoThen, Typed, Labels, noteVars
  <2> QED
        BY <2>2, <2>3
<1>4. ASSUME NEW c \in Call, DropPermit(c) PROVE Typed'
  <2>1. sem[c] \in Sem
        BY <1>4, HoldsSem DEF DropPermit, Bound, Releasing
  <2>2. misled' \in SUBSET Call
        BY <1>4 DEF DropPermit, Typed, BlockedBeside
  <2>3. available' \in [Sem -> Nat]
    <3>1. available' = [available EXCEPT ![sem[c]] = available[sem[c]] + 1]
        BY <1>4 DEF DropPermit
    <3>2. available \in [Sem -> Nat]
        BY DEF Typed
    <3> QED
        BY <2>1, <3>1, <3>2
  <2> QED
        BY <1>4, <2>2, <2>3 DEF DropPermit, Goto, Typed, Labels
<1>5. ASSUME NEW c \in Call, CheckSemaphore(c) PROVE Typed'
    BY <1>5, LimitsAssumption DEF CheckSemaphore, Goto, Typed, Labels, semVars,
       noteVars
<1>6. ASSUME NEW c \in Call, ReclaimSemaphore(c) PROVE Typed'
    BY <1>6, LimitsAssumption DEF ReclaimSemaphore, Goto, Typed, Labels, semVars,
       noteVars
<1>7. ASSUME NEW c \in Call, DropSemaphore(c) PROVE Typed'
    BY <1>7, LimitsAssumption DEF DropSemaphore, Goto, GotoThen, Typed, Labels,
       semVars, noteVars
<1>8. ASSUME NEW c \in Call, DropGlobal(c) PROVE Typed'
  <2>1. free' = free + 1 /\ free \in Nat
        BY <1>8 DEF DropGlobal, Typed
  <2>2. free' \in Nat
        BY <2>1
  <2> QED
        BY <1>8, <2>2 DEF DropGlobal, GotoThen, Goto, Typed, Labels, noteVars
<1>9. ASSUME NEW c \in Call, ExistingNotify(c) PROVE Typed'
  <2>1. grabbed' \in [Call -> SUBSET Note]
        BY <1>9, LimitsAssumption DEF ExistingNotify, Grab, Typed
  <2>5. pc' \in [Call -> Labels] /\ then' \in [Call -> Labels]
    <3>1. then[c] \in Labels /\ {"idle", "notify one"} \subseteq Labels
        BY DEF Typed, Labels
    <3>2. \/ pc' = [pc EXCEPT ![c] = then[c]] /\ then' = [then EXCEPT ![c] = "idle"]
          \/ pc' = [pc EXCEPT ![c] = "notify one"] /\ then' = [then EXCEPT ![c] = then[c]]
        BY <1>9, GrabMoves DEF ExistingNotify
    <3>3. pc \in [Call -> Labels] /\ then \in [Call -> Labels]
        BY DEF Typed
    <3> QED
        BY <3>1, <3>2, <3>3
  <2> QED
        BY <1>9, <2>1, <2>5 DEF ExistingNotify, Typed, semVars
<1>10. ASSUME NEW c \in Call, NotifyOne(c) PROVE Typed'
  <2>1. PICK n \in grabbed[c] : Notified(n) /\ Grab(c, grabbed[c] \ {n}, then[c])
        BY <1>10 DEF NotifyOne
  <2>2. grabbed' \in [Call -> SUBSET Note]
        BY <2>1 DEF Grab, Typed
  <2>3. n \in Note
        BY <2>1 DEF Typed
  <2>4. /\ stored' \in SUBSET Note
        /\ queue' \in [Note -> Seq(Call)]
        /\ local' \in [Call -> {"init", "queued", "notified", "done", "dropped"}]
        BY <2>1, <2>3, NotifiedTyped
  <2>5. pc' \in [Call -> Labels] /\ then' \in [Call -> Labels]
    <3>1. then[c] \in Labels /\ {"idle", "notify one"} \subseteq Labels
        BY DEF Typed, Labels
    <3>2. \/ pc' = [pc EXCEPT ![c] = then[c]] /\ then' = [then EXCEPT ![c] = "idle"]
          \/ pc' = [pc EXCEPT ![c] = "notify one"] /\ then' = [then EXCEPT ![c] = then[c]]
        BY <2>1, GrabMoves
    <3>3. pc \in [Call -> Labels] /\ then \in [Call -> Labels]
        BY DEF Typed
    <3> QED
        BY <3>1, <3>2, <3>3
  <2> QED
        BY <1>10, <2>2, <2>4, <2>5 DEF NotifyOne, Typed, semVars
<1>11. ASSUME NEW c \in Call, NotifyGlobal(c) PROVE Typed'
    BY <1>11, LimitsAssumption, ZenonT(40) DEF NotifyGlobal, Goto, GotoThen, Typed, Labels,
       semVars, noteVars
<1>12. ASSUME NEW c \in Call, NotifyCoalesced(c) PROVE Typed'
  <2>1. grabbed' \in [Call -> SUBSET Note]
    <3> DEFINE a == AddressOf[c]
               notes == {notifyOf[b] : b \in {d \in Address \ {a} : a \in CoalescesWith[d]}}
    <3>1. notes \ {None} \subseteq Note
        BY DEF Typed
    <3>2. grabbed' = [grabbed EXCEPT ![c] = notes \ {None}]
        BY <1>12 DEF NotifyCoalesced, Grab
    <3> HIDE DEF notes
    <3> QED
        BY <3>1, <3>2 DEF Typed
  <2>5. pc' \in [Call -> Labels] /\ then' \in [Call -> Labels]
    <3>1. "open" \in Labels /\ {"idle", "notify one"} \subseteq Labels
        BY DEF Typed, Labels
    <3>2. \/ pc' = [pc EXCEPT ![c] = "open"] /\ then' = [then EXCEPT ![c] = "idle"]
          \/ pc' = [pc EXCEPT ![c] = "notify one"] /\ then' = [then EXCEPT ![c] = "open"]
        BY <1>12, GrabMoves DEF NotifyCoalesced
    <3>3. pc \in [Call -> Labels] /\ then \in [Call -> Labels]
        BY DEF Typed
    <3> QED
        BY <3>1, <3>2, <3>3
  <2> QED
        BY <1>12, <2>1, <2>5 DEF NotifyCoalesced, Typed, semVars
<1>13. ASSUME NEW c \in Call, Poll(c) PROVE Typed'
  <2>1. wait[c] \in Note
        BY <1>13, HoldsNote DEF Poll, Subscribed
  <2>2. stored' \in SUBSET Note
        BY <1>13 DEF Poll, Typed
  <2>3. local' \in [Call -> {"init", "queued", "notified", "done", "dropped"}]
        BY <1>13 DEF Poll, Typed
  <2>4. queue' \in [Note -> Seq(Call)]
    <3>1. Append(queue[wait[c]], c) \in Seq(Call)
        BY <2>1 DEF Typed
    <3> QED
        BY <1>13, <2>1, <3>1 DEF Poll, Typed
  <2>5. pc' \in [Call -> Labels] /\ then' \in [Call -> Labels]
        BY <1>13, ZenonT(40) DEF Poll, Goto, GotoThen, Typed, Labels
  <2> QED
        BY <1>13, <2>2, <2>3, <2>4, <2>5 DEF Poll, Typed, semVars
<1>14. ASSUME NEW c \in Call, DropNotified(c) PROVE Typed'
  <2> DEFINE n == wait[c]
  <2>1. n \in Note
        BY <1>14, HoldsNote DEF DropNotified, Subscribed, Leaving
  <2>2. /\ stored' \in SUBSET Note
        /\ queue' \in [Note -> Seq(Call)]
        /\ local' \in [Call -> {"init", "queued", "notified", "done", "dropped"}]
    <3>1. CASE local[c] = "notified" /\ queue[n] = <<>>
      <4>1. /\ stored' = stored \cup {n} /\ queue' = queue
            /\ local' = [local EXCEPT ![c] = "dropped"]
        BY <1>14, <3>1 DEF DropNotified
      <4> QED
        BY <2>1, <4>1 DEF Typed
    <3>2. CASE local[c] = "notified" /\ queue[n] # <<>>
      <4>1. Tail(queue[n]) \in Seq(Call) /\ Head(queue[n]) \in Call
        BY <2>1, <3>2 DEF Typed
      <4> QED
        BY <1>14, <2>1, <3>2, <4>1 DEF DropNotified, Typed
    <3>3. CASE local[c] # "notified"
      <4>1. Without(queue[n], c) \in Seq(Call)
        BY <2>1, WithoutEffect DEF Typed, Queues
      <4> QED
        BY <1>14, <2>1, <3>3, <4>1 DEF DropNotified, Typed
    <3> QED
        BY <3>1, <3>2, <3>3
  <2> QED
        BY <1>14, <2>2 DEF DropNotified, Goto, Typed, Labels, semVars
<1>15. ASSUME NEW c \in Call, CheckNotify(c) PROVE Typed'
    BY <1>15, LimitsAssumption DEF CheckNotify, Goto, Typed, Labels, semVars,
       noteVars
<1>16. ASSUME NEW c \in Call, ReclaimNotify(c) PROVE Typed'
    BY <1>16, LimitsAssumption DEF ReclaimNotify, Goto, Typed, Labels, semVars,
       noteVars
<1>17. ASSUME NEW c \in Call, DropNotify(c) PROVE Typed'
    BY <1>17, LimitsAssumption DEF DropNotify, Goto, GotoThen, Typed, Labels,
       semVars, noteVars
<1>18. ASSUME NEW c \in Call, Listen(c) PROVE Typed'
  <2>1. PICK n \in Note : /\ notifyOf' = [notifyOf EXCEPT ![AddressOf[c]] = n]
                           /\ wait' = [wait EXCEPT ![c] = n]
        BY <1>18, ZenonT(30) DEF Listen
  <2> QED
        BY <1>18, <2>1, LimitsAssumption DEF Listen, Goto, Typed, Labels, semVars
<1>19. ASSUME NEW c \in Call, Stale(c) PROVE Typed'
    BY <1>19, LimitsAssumption DEF Stale, Goto, GotoThen, Typed, Labels, semVars,
       noteVars
<1>20. ASSUME NEW c \in Call, LeaveEarly(c) PROVE Typed'
    BY <1>20, LimitsAssumption DEF LeaveEarly, Goto, GotoThen, Typed, Labels,
       semVars, noteVars
<1>21. ASSUME NEW c \in Call, SuppressDnsFailure(c) PROVE Typed'
    BY <1>21, LimitsAssumption DEF SuppressDnsFailure, Goto, Typed, Labels, semVars,
       noteVars
<1>22. ASSUME NEW c \in Call, DialSucceeds(c) PROVE Typed'
    BY <1>22, LimitsAssumption DEF DialSucceeds, Goto, GotoThen, Typed, Labels,
       semVars, noteVars
<1>23. ASSUME NEW c \in Call, DialFails(c) PROVE Typed'
    BY <1>23, LimitsAssumption DEF DialFails, Goto, GotoThen, Typed, Labels,
       semVars, noteVars
<1>24. ASSUME NEW c \in Call, Close(c) PROVE Typed'
    BY <1>24, LimitsAssumption DEF Close, Goto, GotoThen, Typed, Labels, semVars,
       noteVars
<1>25. ASSUME NEW c \in Call, ExchangeEnds(c) PROVE Typed'
    BY <1>25, LimitsAssumption DEF ExchangeEnds, Goto, GotoThen, Typed, Labels,
       semVars, noteVars
<1>26. ASSUME NEW c \in Call, Cancel(c) PROVE Typed'
    BY <1>26, LimitsAssumption DEF Cancel, Goto, GotoThen, Typed, Labels, semVars,
       noteVars
<1>27. CASE UNCHANGED vars
    BY <1>27 DEF Typed, vars
<1> QED
    BY <1>1, <1>2, <1>3, <1>4, <1>5, <1>6, <1>7, <1>8, <1>9, <1>10, <1>11,
       <1>12, <1>13, <1>14, <1>15, <1>16, <1>17, <1>18, <1>19, <1>20, <1>21, <1>22,
       <1>23, <1>24, <1>25, <1>26, <1>27 DEF Next, Step

\* Every drop knows where the call goes on.
LEMMA NextReturns == Typed /\ Returns /\ [Next]_vars => Returns'
<1> SUFFICES ASSUME Typed, Returns, [Next]_vars PROVE Returns'
    OBVIOUS
<1>1. ASSUME NEW c \in Call, SemaphoreFor(c) PROVE Returns'
    BY <1>1 DEF SemaphoreFor, Goto, Typed, Returns, Releasing, Leaving
<1>2. ASSUME NEW c \in Call, TryAddress(c) PROVE Returns'
  <2>2. CASE pc' = [pc EXCEPT ![c] = "try global"] /\ then' = then
        BY <1>2, <2>2 DEF Typed, Returns, Releasing, Leaving
  <2>3. CASE pc' = [pc EXCEPT ![c] = "blocked"] /\ then' = then
        BY <1>2, <2>3 DEF Typed, Returns, Releasing, Leaving
  <2> QED
        BY <1>2, <2>2, <2>3 DEF TryAddress, Goto, GotoThen
<1>3. ASSUME NEW c \in Call, TryGlobal(c) PROVE Returns'
  <2>2. CASE pc' = [pc EXCEPT ![c] = "dial"] /\ then' = then
        BY <1>3, <2>2 DEF Typed, Returns, Releasing, Leaving
  <2>3. CASE pc' = [pc EXCEPT ![c] = "drop permit"] /\ then' = [then EXCEPT ![c] = "blocked"]
        BY <1>3, <2>3 DEF Typed, Returns, Releasing, Leaving
  <2> QED
        BY <1>3, <2>2, <2>3 DEF TryGlobal, Goto, GotoThen
<1>4. ASSUME NEW c \in Call, DropPermit(c) PROVE Returns'
    BY <1>4 DEF DropPermit, Goto, Typed, Returns, Releasing, Leaving
<1>5. ASSUME NEW c \in Call, CheckSemaphore(c) PROVE Returns'
    BY <1>5 DEF CheckSemaphore, Goto, Typed, Returns, Releasing, Leaving
<1>6. ASSUME NEW c \in Call, ReclaimSemaphore(c) PROVE Returns'
    BY <1>6 DEF ReclaimSemaphore, Goto, Typed, Returns, Releasing, Leaving
<1>7. ASSUME NEW c \in Call, DropSemaphore(c) PROVE Returns'
    BY <1>7 DEF DropSemaphore, Goto, GotoThen, Typed, Returns, Releasing, Leaving
<1>8. ASSUME NEW c \in Call, DropGlobal(c) PROVE Returns'
    BY <1>8 DEF DropGlobal, Goto, GotoThen, Typed, Returns, Releasing, Leaving
<1>9. ASSUME NEW c \in Call, ExistingNotify(c) PROVE Returns'
  <2>1. then[c] \in {"resolve", "notify global", "notify coalesced"}
        BY <1>9 DEF ExistingNotify, Returns
  <2>2. CASE pc' = [pc EXCEPT ![c] = then[c]] /\ then' = [then EXCEPT ![c] = "idle"]
        BY <1>9, <2>1, <2>2 DEF Typed, Returns, Releasing, Leaving
  <2>3. CASE pc' = [pc EXCEPT ![c] = "notify one"] /\ then' = [then EXCEPT ![c] = then[c]]
        BY <1>9, <2>1, <2>3 DEF Typed, Returns, Releasing, Leaving
  <2> QED
        BY <1>9, <2>2, <2>3, GrabMoves DEF ExistingNotify
<1>10. ASSUME NEW c \in Call, NotifyOne(c) PROVE Returns'
  <2>1. then[c] \in {"resolve", "notify global", "notify coalesced", "open"}
        BY <1>10 DEF NotifyOne, Returns
  <2>2. CASE pc' = [pc EXCEPT ![c] = then[c]] /\ then' = [then EXCEPT ![c] = "idle"]
        BY <1>10, <2>1, <2>2 DEF Typed, Returns, Releasing, Leaving
  <2>3. CASE pc' = [pc EXCEPT ![c] = "notify one"] /\ then' = [then EXCEPT ![c] = then[c]]
        BY <1>10, <2>1, <2>3 DEF Typed, Returns, Releasing, Leaving
  <2> QED
        BY <1>10, <2>2, <2>3, GrabMoves DEF NotifyOne
<1>11. ASSUME NEW c \in Call, NotifyGlobal(c) PROVE Returns'
  <2>2. CASE pc' = [pc EXCEPT ![c] = "drop wait"] /\ then' = [then EXCEPT ![c] = "idle"]
        BY <1>11, <2>2 DEF Typed, Returns, Releasing, Leaving
  <2>3. CASE pc' = [pc EXCEPT ![c] = "idle"] /\ then' = then
        BY <1>11, <2>3 DEF Typed, Returns, Releasing, Leaving
  <2> QED
        BY <1>11, <2>2, <2>3 DEF NotifyGlobal, Goto, GotoThen
<1>12. ASSUME NEW c \in Call, NotifyCoalesced(c) PROVE Returns'
  <2>2. CASE pc' = [pc EXCEPT ![c] = "open"] /\ then' = [then EXCEPT ![c] = "idle"]
        BY <1>12, <2>2 DEF Typed, Returns, Releasing, Leaving
  <2>3. CASE pc' = [pc EXCEPT ![c] = "notify one"] /\ then' = [then EXCEPT ![c] = "open"]
        BY <1>12, <2>3 DEF Typed, Returns, Releasing, Leaving
  <2> QED
        BY <1>12, <2>2, <2>3, GrabMoves DEF NotifyCoalesced
<1>13. ASSUME NEW c \in Call, Poll(c) PROVE Returns'
  <2>2. CASE pc' = [pc EXCEPT ![c] = "drop wait"] /\ then' = [then EXCEPT ![c] = "again"]
        BY <1>13, <2>2 DEF Typed, Returns, Releasing, Leaving
  <2>3. CASE pc' = [pc EXCEPT ![c] = "waiting"] /\ then' = then
        BY <1>13, <2>3 DEF Typed, Returns, Releasing, Leaving
  <2> QED
        BY <1>13, <2>2, <2>3 DEF Poll, Goto, GotoThen
<1>14. ASSUME NEW c \in Call, DropNotified(c) PROVE Returns'
    BY <1>14 DEF DropNotified, Goto, Typed, Returns, Releasing, Leaving
<1>15. ASSUME NEW c \in Call, CheckNotify(c) PROVE Returns'
    BY <1>15 DEF CheckNotify, Goto, Typed, Returns, Releasing, Leaving
<1>16. ASSUME NEW c \in Call, ReclaimNotify(c) PROVE Returns'
    BY <1>16 DEF ReclaimNotify, Goto, Typed, Returns, Releasing, Leaving
<1>17. ASSUME NEW c \in Call, DropNotify(c) PROVE Returns'
    BY <1>17 DEF DropNotify, Goto, GotoThen, Typed, Returns, Releasing, Leaving
<1>18. ASSUME NEW c \in Call, Listen(c) PROVE Returns'
    BY <1>18 DEF Listen, Goto, Typed, Returns, Releasing, Leaving
<1>19. ASSUME NEW c \in Call, Stale(c) PROVE Returns'
    BY <1>19 DEF Stale, Goto, GotoThen, Typed, Returns, Releasing, Leaving
<1>20. ASSUME NEW c \in Call, LeaveEarly(c) PROVE Returns'
    BY <1>20 DEF LeaveEarly, Goto, GotoThen, Typed, Returns, Releasing, Leaving
<1>21. ASSUME NEW c \in Call, SuppressDnsFailure(c) PROVE Returns'
    BY <1>21 DEF SuppressDnsFailure, Goto, Typed, Returns, Releasing, Leaving
<1>22. ASSUME NEW c \in Call, DialSucceeds(c) PROVE Returns'
    BY <1>22 DEF DialSucceeds, Goto, GotoThen, Typed, Returns, Releasing, Leaving
<1>23. ASSUME NEW c \in Call, DialFails(c) PROVE Returns'
    BY <1>23 DEF DialFails, Goto, GotoThen, Typed, Returns, Releasing, Leaving
<1>24. ASSUME NEW c \in Call, Close(c) PROVE Returns'
    BY <1>24 DEF Close, Goto, GotoThen, Typed, Returns, Releasing, Leaving
<1>25. ASSUME NEW c \in Call, ExchangeEnds(c) PROVE Returns'
    BY <1>25 DEF ExchangeEnds, Goto, GotoThen, Typed, Returns, Releasing, Leaving
<1>26. ASSUME NEW c \in Call, Cancel(c) PROVE Returns'
    BY <1>26 DEF Cancel, Goto, GotoThen, Typed, Returns, Releasing, Leaving
<1>27. CASE UNCHANGED vars
    BY <1>27 DEF Returns, vars
<1> QED
    BY <1>1, <1>2, <1>3, <1>4, <1>5, <1>6, <1>7, <1>8, <1>9, <1>10, <1>11,
       <1>12, <1>13, <1>14, <1>15, <1>16, <1>17, <1>18, <1>19, <1>20, <1>21, <1>22,
       <1>23, <1>24, <1>25, <1>26, <1>27 DEF Next, Step

-----------------------------------------------------------------------------
(* Subscriptions *)

\* The steps that leave the subscriptions and the map of Notify objects alone.
NoteQuiet(c) ==
  \/ SemaphoreFor(c) \/ TryAddress(c) \/ TryGlobal(c) \/ DropPermit(c)
  \/ CheckSemaphore(c) \/ ReclaimSemaphore(c) \/ DropSemaphore(c)
  \/ DropGlobal(c) \/ ExistingNotify(c) \/ NotifyGlobal(c)
  \/ NotifyCoalesced(c) \/ CheckNotify(c) \/ Stale(c) \/ LeaveEarly(c)
  \/ SuppressDnsFailure(c) \/ DialSucceeds(c) \/ DialFails(c) \/ Close(c)
  \/ ExchangeEnds(c) \/ Cancel(c)

\* They touch nothing a waiter can see.
LEMMA NoteQuietKeeps ==
    ASSUME NEW c \in Call, NoteQuiet(c)
    PROVE  UNCHANGED <<notifyOf, queue, wait, local>>
BY ZenonT(30) DEF NoteQuiet, SemaphoreFor, TryAddress, TryGlobal, DropPermit,
   CheckSemaphore, ReclaimSemaphore, DropSemaphore, DropGlobal, ExistingNotify,
   NotifyGlobal, NotifyCoalesced, CheckNotify, Stale, LeaveEarly,
   SuppressDnsFailure, DialSucceeds, DialFails, Close, ExchangeEnds, Cancel,
   noteVars

\* notify_one changes at most the state of the oldest waiter of the Notify.
LEMMA NotifiedEffect ==
    ASSUME Typed, Queues, NEW n \in Note, Notified(n)
    PROVE  \/ UNCHANGED <<queue, local>>
           \/ \E d \in Call : /\ wait[d] = n /\ local[d] = "queued"
                              /\ local' = [local EXCEPT ![d] = "notified"]
                              /\ queue' = [queue EXCEPT ![n] = Tail(@)]
                              /\ queue[n] # <<>> /\ d = Head(queue[n])
<1>1. CASE queue[n] = <<>>
    BY <1>1 DEF Notified
<1>2. CASE queue[n] # <<>>
  <2>1. queue[n] \in Seq(Call) /\ Head(queue[n]) = queue[n][1] /\ 1 \in DOMAIN queue[n]
        BY <1>2 DEF Typed
  <2>2. Head(queue[n]) \in Call
        BY <2>1, ElementsBelong, Zenon
  <2>3. wait[Head(queue[n])] = n /\ local[Head(queue[n])] = "queued"
        BY <2>1 DEF Queues
  <2> QED
        BY <1>2, <2>2, <2>3 DEF Notified
<1> QED
    BY <1>1, <1>2

\* Dropping an OwnedNotified passes a notification on, or leaves the list.
LEMMA DropNotifiedEffect ==
    ASSUME Typed, Waits, Queues, NEW c \in Call, DropNotified(c)
    PROVE  /\ wait[c] \in Note
           /\ \/ /\ local' = [local EXCEPT ![c] = "dropped"]
                 /\ \/ queue' = queue /\ local[c] = "notified"
                    \/ queue' = [queue EXCEPT ![wait[c]] = Without(@, c)]
              \/ \E d \in Call :
                   /\ d # c /\ wait[d] = wait[c] /\ local[d] = "queued"
                   /\ local[c] = "notified"
                   /\ local' = [[local EXCEPT ![c] = "dropped"] EXCEPT ![d] = "notified"]
                   /\ queue' = [queue EXCEPT ![wait[c]] = Tail(@)]
                   /\ queue[wait[c]] # <<>> /\ d = Head(queue[wait[c]])
<1> DEFINE n == wait[c]
<1>1. n \in Note
    BY HoldsNote DEF DropNotified, Subscribed, Leaving
<1>2. CASE local[c] # "notified"
    BY <1>1, <1>2 DEF DropNotified
<1>3. CASE local[c] = "notified" /\ queue[n] = <<>>
    BY <1>1, <1>3 DEF DropNotified
<1>4. CASE local[c] = "notified" /\ queue[n] # <<>>
  <2>1. queue[n] \in Seq(Call) /\ Head(queue[n]) = queue[n][1] /\ 1 \in DOMAIN queue[n]
        BY <1>1, <1>4 DEF Typed
  <2>2. Head(queue[n]) \in Call
        BY <2>1, ElementsBelong, Zenon
  <2>3. wait[Head(queue[n])] = n /\ local[Head(queue[n])] = "queued"
        BY <1>1, <2>1 DEF Queues
  <2>4. /\ local' = [local EXCEPT ![c] = "dropped", ![Head(queue[n])] = "notified"]
        /\ queue' = [queue EXCEPT ![n] = Tail(@)]
        BY <1>4 DEF DropNotified
  <2> QED
        BY <1>1, <1>4, <2>2, <2>3, <2>4, ZenonT(30)
<1> QED
    BY <1>2, <1>3, <1>4

\* A call that is not the one to step, and at most is notified.
LEMMA Bystander ==
    ASSUME NEW d \in Call, WaitOf(d),
           pc'[d] = pc[d], then'[d] = then[d], wait'[d] = wait[d],
           \/ local'[d] = local[d]
           \/ local[d] = "queued" /\ local'[d] = "notified"
    PROVE  WaitOf(d)'
BY DEF WaitOf, Subscribed, Leaving

\* A call is subscribed exactly as long as its loop may have to wait.
LEMMA NextWaits == Typed /\ Returns /\ Waits /\ Queues /\ [Next]_vars => Waits'
<1> SUFFICES ASSUME Typed, Returns, Waits, Queues, [Next]_vars PROVE Waits'
    OBVIOUS
<1>1. ASSUME NEW c \in Call, SemaphoreFor(c) PROVE Waits'
    BY <1>1 DEF SemaphoreFor, Goto, Typed, Returns, Waits, WaitOf, Subscribed,
       Releasing, Leaving, Telling, noteVars
<1>2. ASSUME NEW c \in Call, TryAddress(c) PROVE Waits'
  <2>2. CASE pc' = [pc EXCEPT ![c] = "try global"] /\ then' = then
        BY <1>2, <2>2 DEF TryAddress, Typed, Returns, Waits, WaitOf, Subscribed,
           Releasing, Leaving, Telling, noteVars
  <2>3. CASE pc' = [pc EXCEPT ![c] = "blocked"] /\ then' = then
        BY <1>2, <2>3 DEF TryAddress, Typed, Returns, Waits, WaitOf, Subscribed,
           Releasing, Leaving, Telling, noteVars
  <2> QED
        BY <1>2, <2>2, <2>3 DEF TryAddress, Goto, GotoThen
<1>3. ASSUME NEW c \in Call, TryGlobal(c) PROVE Waits'
  <2>2. CASE pc' = [pc EXCEPT ![c] = "dial"] /\ then' = then
        BY <1>3, <2>2 DEF TryGlobal, Typed, Returns, Waits, WaitOf, Subscribed,
           Releasing, Leaving, Telling, noteVars
  <2>3. CASE pc' = [pc EXCEPT ![c] = "drop permit"] /\ then' = [then EXCEPT ![c] = "blocked"]
        BY <1>3, <2>3, ZenonT(40) DEF TryGlobal, Typed, Returns, Waits, WaitOf, Subscribed,
           Releasing, Leaving, Telling, noteVars
  <2> QED
        BY <1>3, <2>2, <2>3 DEF TryGlobal, Goto, GotoThen
<1>4. ASSUME NEW c \in Call, DropPermit(c) PROVE Waits'
    BY <1>4 DEF DropPermit, Goto, Typed, Returns, Waits, WaitOf, Subscribed,
       Releasing, Leaving, Telling, noteVars
<1>5. ASSUME NEW c \in Call, CheckSemaphore(c) PROVE Waits'
    BY <1>5 DEF CheckSemaphore, Goto, Typed, Returns, Waits, WaitOf, Subscribed,
       Releasing, Leaving, Telling, noteVars
<1>6. ASSUME NEW c \in Call, ReclaimSemaphore(c) PROVE Waits'
    BY <1>6 DEF ReclaimSemaphore, Goto, Typed, Returns, Waits, WaitOf, Subscribed,
       Releasing, Leaving, Telling, noteVars
<1>7. ASSUME NEW c \in Call, DropSemaphore(c) PROVE Waits'
    BY <1>7, ZenonT(40) DEF DropSemaphore, Goto, GotoThen, Typed, Returns, Waits, WaitOf,
       Subscribed, Releasing, Leaving, Telling, noteVars
<1>8. ASSUME NEW c \in Call, DropGlobal(c) PROVE Waits'
    BY <1>8 DEF DropGlobal, Goto, GotoThen, Typed, Returns, Waits, WaitOf,
       Subscribed, Releasing, Leaving, Telling, noteVars
<1>9. ASSUME NEW c \in Call, ExistingNotify(c) PROVE Waits'
  <2>1. then[c] \in {"resolve", "notify global", "notify coalesced"}
        BY <1>9 DEF ExistingNotify, Returns
  <2>2. CASE pc' = [pc EXCEPT ![c] = then[c]] /\ then' = [then EXCEPT ![c] = "idle"]
        BY <1>9, <2>1, <2>2, ZenonT(40) DEF ExistingNotify, Typed, Returns, Waits, WaitOf,
           Subscribed, Releasing, Leaving, Telling, noteVars
  <2>3. CASE pc' = [pc EXCEPT ![c] = "notify one"] /\ then' = [then EXCEPT ![c] = then[c]]
        BY <1>9, <2>1, <2>3, ZenonT(40) DEF ExistingNotify, Typed, Returns, Waits, WaitOf,
           Subscribed, Releasing, Leaving, Telling, noteVars
  <2> QED
        BY <1>9, <2>2, <2>3, GrabMoves DEF ExistingNotify
<1>10. ASSUME NEW c \in Call, NotifyOne(c) PROVE Waits'
  <2>1. then[c] \in {"resolve", "notify global", "notify coalesced", "open"}
        BY <1>10 DEF NotifyOne, Returns
  <2>2. PICK n \in grabbed[c] : Notified(n) /\ Grab(c, grabbed[c] \ {n}, then[c])
        BY <1>10 DEF NotifyOne
  <2>3. n \in Note
        BY <2>2 DEF Typed
  <2>4. \/ local' = local
        \/ \E d \in Call : /\ wait[d] = n /\ local[d] = "queued"
                           /\ local' = [local EXCEPT ![d] = "notified"]
        BY <2>2, <2>3, NotifiedEffect
  <2>5. \A d \in Call : /\ local[d] # "queued" => local'[d] = local[d]
                        /\ local[d] = "queued" => local'[d] \in {"queued", "notified"}
        BY <2>4 DEF Typed
  <2>6. pc[c] = "notify one" /\ wait' = wait
        BY <1>10 DEF NotifyOne
  <2>9. \/ pc' = [pc EXCEPT ![c] = then[c]] /\ then' = [then EXCEPT ![c] = "idle"]
        \/ /\ pc' = [pc EXCEPT ![c] = "notify one"]
           /\ then' = [then EXCEPT ![c] = then[c]]
        BY <2>2, GrabMoves
  <2>7. ASSUME NEW d \in Call \ {c} PROVE WaitOf(d)'
    <3>1. WaitOf(d) /\ wait'[d] = wait[d]
        BY <2>6 DEF Waits
    <3>2. pc'[d] = pc[d] /\ then'[d] = then[d]
        BY <2>9 DEF Typed
    <3>3. local'[d] = local[d] \/ (local[d] = "queued" /\ local'[d] = "notified")
        BY <2>4 DEF Typed
    <3> QED
        BY <3>1, <3>2, <3>3, Bystander
  <2>8. WaitOf(c)'
    <3>1. local[c] # "queued"
        BY <2>6 DEF Waits, WaitOf, Leaving
    <3>2. local'[c] = local[c] /\ wait'[c] = wait[c] /\ WaitOf(c)
        BY <2>5, <2>6, <3>1 DEF Waits
    <3>3. CASE pc'[c] = then[c] /\ then'[c] = "idle"
        BY <2>1, <2>6, <3>2, <3>3 DEF WaitOf, Subscribed, Releasing, Leaving, Telling
    <3>4. CASE pc'[c] = "notify one" /\ then'[c] = then[c]
        BY <2>1, <2>6, <3>2, <3>4 DEF WaitOf, Subscribed, Releasing, Leaving, Telling
    <3> QED
        BY <2>9, <3>3, <3>4 DEF Typed
  <2> QED
        BY <2>7, <2>8 DEF Waits
<1>11. ASSUME NEW c \in Call, NotifyGlobal(c) PROVE Waits'
  <2>1. UNCHANGED <<wait, local>> /\ pc[c] = "notify global"
        BY <1>11 DEF NotifyGlobal
  <2>2. CASE /\ wait[c] # None /\ pc' = [pc EXCEPT ![c] = "drop wait"]
             /\ then' = [then EXCEPT ![c] = "idle"]
        BY <2>1, <2>2, ZenonT(40) DEF Typed, Returns, Waits, WaitOf, Subscribed, Releasing,
           Leaving, Telling
  <2>3. CASE wait[c] = None /\ pc' = [pc EXCEPT ![c] = "idle"] /\ then' = then
        BY <2>1, <2>3 DEF Typed, Returns, Waits, WaitOf, Subscribed, Releasing,
           Leaving, Telling
  <2> QED
        BY <1>11, <2>2, <2>3 DEF NotifyGlobal, Goto, GotoThen
<1>12. ASSUME NEW c \in Call, NotifyCoalesced(c) PROVE Waits'
  <2>2. CASE pc' = [pc EXCEPT ![c] = "open"] /\ then' = [then EXCEPT ![c] = "idle"]
        BY <1>12, <2>2, ZenonT(30) DEF NotifyCoalesced, Typed, Returns, Waits, WaitOf,
           Subscribed, Releasing, Leaving, Telling, noteVars
  <2>3. CASE pc' = [pc EXCEPT ![c] = "notify one"] /\ then' = [then EXCEPT ![c] = "open"]
        BY <1>12, <2>3 DEF NotifyCoalesced, Typed, Returns, Waits, WaitOf,
           Subscribed, Releasing, Leaving, Telling, noteVars
  <2> QED
        BY <1>12, <2>2, <2>3, GrabMoves DEF NotifyCoalesced
<1>13. ASSUME NEW c \in Call, Poll(c) PROVE Waits'
  <2>1. wait' = wait /\ pc[c] \in {"blocked", "waiting"} /\ wait[c] # None
        BY <1>13, ZenonT(30) DEF Poll, Waits, WaitOf, Subscribed
  <2>2. local[c] \in {"init", "queued", "notified"}
        BY <1>13, <2>1, ZenonT(30) DEF Poll, Waits, WaitOf, Leaving
  <2>3. \/ /\ pc' = [pc EXCEPT ![c] = "drop wait"] /\ then' = [then EXCEPT ![c] = "again"]
           /\ \E l \in {"done", "queued"} : local' = [local EXCEPT ![c] = l]
        \/ /\ pc' = [pc EXCEPT ![c] = "waiting"] /\ then' = then
           /\ local' = [local EXCEPT ![c] = "queued"]
        BY <1>13 DEF Poll, Goto, GotoThen
  <2>4. ASSUME NEW d \in Call \ {c} PROVE WaitOf(d)'
    <3>1. /\ WaitOf(d) /\ wait'[d] = wait[d] /\ pc'[d] = pc[d] /\ then'[d] = then[d]
          /\ local'[d] = local[d]
        BY <2>1, <2>3 DEF Waits, Typed
    <3> QED
        BY <3>1, Bystander
  <2>5. WaitOf(c)'
    <3>1. \/ pc'[c] = "drop wait" /\ local'[c] \in {"done", "queued"}
          \/ pc'[c] = "waiting" /\ local'[c] = "queued"
        BY <2>3 DEF Typed
    <3> QED
        BY <2>1, <3>1 DEF WaitOf, Leaving
  <2> QED
        BY <2>4, <2>5 DEF Waits
<1>14. ASSUME NEW c \in Call, DropNotified(c) PROVE Waits'
  <2>1. /\ pc' = [pc EXCEPT ![c] = "check notify"] /\ then' = then /\ wait' = wait
        /\ pc[c] = "drop wait"
        BY <1>14 DEF DropNotified, Goto
  <2>2. ASSUME NEW d \in Call \ {c} PROVE WaitOf(d)'
    <3>1. WaitOf(d) /\ wait'[d] = wait[d] /\ pc'[d] = pc[d] /\ then'[d] = then[d]
        BY <2>1 DEF Waits, Typed
    <3>2. local'[d] = local[d] \/ (local[d] = "queued" /\ local'[d] = "notified")
        BY <1>14, DropNotifiedEffect DEF Typed
    <3> QED
        BY <3>1, <3>2, Bystander
  <2>3. WaitOf(c)'
    <3>1. local'[c] = "dropped"
        BY <1>14, DropNotifiedEffect DEF Typed
    <3>2. WaitOf(c) /\ Subscribed(c) /\ wait'[c] = wait[c] /\ pc'[c] = "check notify"
        BY <2>1 DEF Waits, Subscribed, Leaving, Typed
    <3> QED
        BY <3>1, <3>2, ZenonT(30) DEF WaitOf, Leaving
  <2> QED
        BY <2>2, <2>3 DEF Waits
<1>15. ASSUME NEW c \in Call, CheckNotify(c) PROVE Waits'
    BY <1>15 DEF CheckNotify, Goto, Typed, Returns, Waits, WaitOf, Subscribed,
       Releasing, Leaving, Telling, noteVars
<1>16. ASSUME NEW c \in Call, ReclaimNotify(c) PROVE Waits'
    BY <1>16 DEF ReclaimNotify, Goto, Typed, Returns, Waits, WaitOf, Subscribed,
       Releasing, Leaving, Telling, noteVars
<1>17. ASSUME NEW c \in Call, DropNotify(c) PROVE Waits'
    BY <1>17, LimitsAssumption, ZenonT(40) DEF DropNotify, Goto, GotoThen, Typed, Returns,
       Waits, WaitOf, Subscribed, Releasing, Leaving, Telling
<1>18. ASSUME NEW c \in Call, Listen(c) PROVE Waits'
  <2>1. PICK n \in Note : wait' = [wait EXCEPT ![c] = n]
        BY <1>18, ZenonT(30) DEF Listen
  <2>2. /\ local' = [local EXCEPT ![c] = "init"] /\ then' = then
        /\ pc' = [pc EXCEPT ![c] = "probe"]
        BY <1>18 DEF Listen, Goto
  <2> QED
        BY <2>1, <2>2, LimitsAssumption, ZenonT(40) DEF Typed, Returns, Waits, WaitOf,
           Subscribed, Releasing, Leaving, Telling
<1>19. ASSUME NEW c \in Call, Stale(c) PROVE Waits'
    BY <1>19, ZenonT(40) DEF Stale, Goto, GotoThen, Typed, Returns, Waits, WaitOf, Subscribed,
       Releasing, Leaving, Telling, noteVars
<1>20. ASSUME NEW c \in Call, LeaveEarly(c) PROVE Waits'
    BY <1>20, ZenonT(40) DEF LeaveEarly, Goto, GotoThen, Typed, Returns, Waits, WaitOf,
       Subscribed, Releasing, Leaving, Telling, noteVars
<1>21. ASSUME NEW c \in Call, SuppressDnsFailure(c) PROVE Waits'
    BY <1>21, ZenonT(40) DEF SuppressDnsFailure, Goto, Typed, Returns, Waits, WaitOf,
       Subscribed, Releasing, Leaving, Telling, noteVars
<1>22. ASSUME NEW c \in Call, DialSucceeds(c) PROVE Waits'
    BY <1>22 DEF DialSucceeds, Goto, GotoThen, Typed, Returns, Waits, WaitOf,
       Subscribed, Releasing, Leaving, Telling, noteVars
<1>23. ASSUME NEW c \in Call, DialFails(c) PROVE Waits'
    BY <1>23 DEF DialFails, Goto, GotoThen, Typed, Returns, Waits, WaitOf,
       Subscribed, Releasing, Leaving, Telling, noteVars
<1>24. ASSUME NEW c \in Call, Close(c) PROVE Waits'
    BY <1>24 DEF Close, Goto, GotoThen, Typed, Returns, Waits, WaitOf, Subscribed,
       Releasing, Leaving, Telling, noteVars
<1>25. ASSUME NEW c \in Call, ExchangeEnds(c) PROVE Waits'
    BY <1>25 DEF ExchangeEnds, Goto, GotoThen, Typed, Returns, Waits, WaitOf,
       Subscribed, Releasing, Leaving, Telling, noteVars
<1>26. ASSUME NEW c \in Call, Cancel(c) PROVE Waits'
    BY <1>26 DEF Cancel, Goto, GotoThen, Typed, Returns, Waits, WaitOf, Subscribed,
       Releasing, Leaving, Telling, noteVars
<1>27. CASE UNCHANGED vars
    BY <1>27 DEF Waits, WaitOf, Subscribed, vars
<1> QED
    BY <1>1, <1>2, <1>3, <1>4, <1>5, <1>6, <1>7, <1>8, <1>9, <1>10, <1>11,
       <1>12, <1>13, <1>14, <1>15, <1>16, <1>17, <1>18, <1>19, <1>20, <1>21, <1>22,
       <1>23, <1>24, <1>25, <1>26, <1>27 DEF Next, Step

\* The lists are left alone, and so is everybody on them.
LEMMA QueuesStay ==
    ASSUME Typed, Queues, queue' = queue,
           \A d \in Call : local[d] = "queued" => local'[d] = "queued" /\ wait'[d] = wait[d]
    PROVE  Queues'
<1> SUFFICES ASSUME NEW n \in Note
             PROVE  /\ \A i \in DOMAIN queue[n] :
                         wait'[queue[n][i]] = n /\ local'[queue[n][i]] = "queued"
                    /\ \A i, j \in DOMAIN queue[n] : queue[n][i] = queue[n][j] => i = j
    BY ZenonT(40) DEF Queues
<1>1. \A i \in DOMAIN queue[n] : queue[n][i] \in Call
    BY ElementsBelong, ZenonT(40) DEF Typed
<1> QED
    BY <1>1 DEF Queues

\* What Queues says of one list, of the Notify n, after a step that moves no wait.
Listed(q, n) ==
    /\ \A i \in DOMAIN q : wait[q[i]] = n /\ local'[q[i]] = "queued"
    /\ \A i, j \in DOMAIN q : q[i] = q[j] => i = j

\* The oldest waiter is notified.
LEMMA QueuesTail ==
    ASSUME Typed, Queues, NEW n \in Note, queue[n] # <<>>, wait' = wait,
           queue' = [queue EXCEPT ![n] = Tail(@)],
           \A d \in Call \ {Head(queue[n])} : local[d] = "queued" => local'[d] = "queued"
    PROVE  Queues'
<1> DEFINE q == queue[n]
           t == Tail(q)
<1>1. q \in Seq(Call) /\ q # <<>>
    BY DEF Typed
<1>2. /\ Len(q) \in Nat /\ Len(q) > 0 /\ DOMAIN q = 1..Len(q) /\ Head(q) = q[1]
      /\ DOMAIN t = 1..(Len(q) - 1) /\ \A i \in 1..(Len(q) - 1) : t[i] = q[i + 1]
    BY <1>1
<1>3. /\ \A i \in DOMAIN q : wait[q[i]] = n /\ local[q[i]] = "queued" /\ q[i] \in Call
      /\ \A i, j \in DOMAIN q : q[i] = q[j] => i = j
    BY <1>1 DEF Queues
<1> HIDE DEF q, t
<1>4. \A i \in DOMAIN t : i + 1 \in DOMAIN q /\ i + 1 # 1 /\ t[i] = q[i + 1]
    BY <1>2
<1>5. \A i \in DOMAIN t : wait[t[i]] = n /\ local'[t[i]] = "queued"
  <2>1. ASSUME NEW i \in DOMAIN t PROVE wait[t[i]] = n /\ local'[t[i]] = "queued"
    <3>1. i + 1 \in DOMAIN q /\ 1 \in DOMAIN q /\ i + 1 # 1
        BY <1>2, <1>4
    <3>2. q[i + 1] \in Call \ {Head(q)}
        BY <1>2, <1>3, <3>1, ZenonT(30)
    <3>3. t[i] = q[i + 1] /\ wait[q[i + 1]] = n /\ local[q[i + 1]] = "queued"
        BY <1>3, <1>4, <3>1, ZenonT(30)
    <3> QED
        BY <3>2, <3>3, ZenonT(30) DEF q
  <2> QED
        BY <2>1
<1>6. \A i, j \in DOMAIN t : t[i] = t[j] => i = j
  <2>1. ASSUME NEW i \in DOMAIN t, NEW j \in DOMAIN t, t[i] = t[j] PROVE i = j
    <3>1. i + 1 = j + 1
        BY <1>3, <1>4, <2>1
    <3> QED
        BY <1>2, <3>1
  <2> QED
        BY <2>1
<1>7. ASSUME NEW m \in Note \ {n}
      PROVE  /\ queue'[m] = queue[m]
             /\ \A i \in DOMAIN queue[m] :
                  wait[queue[m][i]] = m /\ local'[queue[m][i]] = "queued"
             /\ \A i, j \in DOMAIN queue[m] : queue[m][i] = queue[m][j] => i = j
  <2>1. queue'[m] = queue[m] /\ \A i \in DOMAIN queue[m] : queue[m][i] \in Call
        BY DEF Typed
  <2>2. wait[Head(queue[n])] = n
    <3>1. 1 \in DOMAIN q
        BY <1>2
    <3> QED
        BY <1>2, <1>3, <3>1, ZenonT(30) DEF q
  <2> QED
        BY <2>1, <2>2 DEF Queues
<1>8. queue'[n] = t
    BY DEF Typed, q, t
<1> QED
    BY <1>5, <1>6, <1>7, <1>8 DEF Queues

\* A waiter registers.
LEMMA QueuesAppend ==
    ASSUME Typed, Queues, NEW c \in Call, wait[c] \in Note, local[c] # "queued",
           wait' = wait, local' = [local EXCEPT ![c] = "queued"],
           queue' = [queue EXCEPT ![wait[c]] = Append(@, c)]
    PROVE  Queues'
<1> SUFFICES ASSUME NEW m \in Note PROVE Listed(queue'[m], m)
    BY ZenonT(40) DEF Queues, Listed
<1> DEFINE q == queue[m]
<1>1. /\ q \in Seq(Call) /\ Len(q) \in Nat /\ DOMAIN q = 1..Len(q)
      /\ \A i \in DOMAIN q : q[i] \in Call
    BY DEF Typed
<1>2. /\ \A i \in DOMAIN q : wait[q[i]] = m /\ local[q[i]] = "queued"
      /\ \A i, j \in DOMAIN q : q[i] = q[j] => i = j
    BY DEF Queues
<1>3. \A i \in DOMAIN q : q[i] # c /\ local'[q[i]] = "queued"
    BY <1>1, <1>2 DEF Typed
<1>4. CASE m # wait[c]
  <2>1. queue'[m] = q
        BY <1>4 DEF Typed
  <2> HIDE DEF q
  <2>2. Listed(q, m)
        BY <1>2, <1>3, Zenon DEF Listed
  <2> QED
        BY <2>1, <2>2, Zenon
<1>5. CASE m = wait[c]
  <2> DEFINE r == Append(q, c)
  <2>1. queue'[m] = r
        BY <1>5 DEF Typed
  <2> HIDE DEF q
  <2>2. /\ DOMAIN r = 1..(Len(q) + 1) /\ r[Len(q) + 1] = c
        /\ \A i \in 1..Len(q) : r[i] = q[i]
        BY <1>1
  <2> HIDE DEF r
  <2>3. local'[c] = "queued"
        BY DEF Typed
  <2>4. \A i \in DOMAIN r : wait[r[i]] = m /\ local'[r[i]] = "queued"
        BY <1>1, <1>2, <1>3, <1>5, <2>2, <2>3
  <2>5. \A i, j \in DOMAIN r : r[i] = r[j] => i = j
        BY <1>1, <1>2, <1>3, <2>2
  <2>6. Listed(r, m)
        BY <2>4, <2>5, Zenon DEF Listed
  <2> QED
        BY <2>1, <2>6, Zenon
<1> QED
    BY <1>4, <1>5

\* A waiter leaves.
LEMMA QueuesWithout ==
    ASSUME Typed, Queues, NEW c \in Call, wait[c] \in Note,
           wait' = wait, local' = [local EXCEPT ![c] = "dropped"],
           queue' = [queue EXCEPT ![wait[c]] = Without(@, c)]
    PROVE  Queues'
<1> SUFFICES ASSUME NEW m \in Note PROVE Listed(queue'[m], m)
    BY ZenonT(40) DEF Queues, Listed
<1> DEFINE q == queue[m]
<1>1. q \in Seq(Call) /\ \A i \in DOMAIN q : q[i] \in Call
    BY DEF Typed
<1>2. /\ \A i \in DOMAIN q : wait[q[i]] = m /\ local[q[i]] = "queued"
      /\ \A i, j \in DOMAIN q : q[i] = q[j] => i = j
    BY DEF Queues
<1>3. \A d \in Call \ {c} : local'[d] = local[d]
    BY DEF Typed
<1>4. CASE m # wait[c]
  <2>1. queue'[m] = q
        BY <1>4 DEF Typed
  <2>2. \A i \in DOMAIN q : q[i] # c
        BY <1>2, <1>4
  <2> HIDE DEF q
  <2>3. \A i \in DOMAIN q : local'[q[i]] = "queued"
        BY <1>1, <1>2, <1>3, <2>2
  <2>4. Listed(q, m)
        BY <1>2, <2>3, Zenon DEF Listed
  <2> QED
        BY <2>1, <2>4, Zenon
<1>5. CASE m = wait[c]
  <2> DEFINE r == Without(q, c)
  <2>1. queue'[m] = r
        BY <1>5 DEF Typed
  <2> HIDE DEF q
  <2>2. /\ \A i \in DOMAIN r : r[i] # c /\ \E j \in DOMAIN q : r[i] = q[j]
        /\ \A i, j \in DOMAIN r : r[i] = r[j] => i = j
        BY <1>1, <1>2, WithoutEffect
  <2> HIDE DEF r
  <2>3. \A i \in DOMAIN r : wait[r[i]] = m /\ local'[r[i]] = "queued"
    <3> SUFFICES ASSUME NEW i \in DOMAIN r
                 PROVE  wait[r[i]] = m /\ local'[r[i]] = "queued"
        OBVIOUS
    <3>1. PICK j \in DOMAIN q : r[i] = q[j]
        BY <2>2
    <3>2. q[j] \in Call \ {c} /\ wait[q[j]] = m /\ local[q[j]] = "queued"
        BY <1>1, <1>2, <2>2, <3>1
    <3> QED
        BY <1>3, <3>1, <3>2
  <2>4. Listed(r, m)
        BY <2>2, <2>3, Zenon DEF Listed
  <2> QED
        BY <2>1, <2>4, Zenon
<1> QED
    BY <1>4, <1>5

\* Who is on the list of a Notify waits there, once.
LEMMA NextQueues == Typed /\ Waits /\ Queues /\ [Next]_vars => Queues'
<1> SUFFICES ASSUME Typed, Waits, Queues, [Next]_vars PROVE Queues'
    OBVIOUS
<1>1. ASSUME NEW c \in Call, NotifyOne(c) PROVE Queues'
  <2>1. PICK n \in grabbed[c] : Notified(n)
        BY <1>1, ZenonT(30) DEF NotifyOne
  <2>2. n \in Note /\ wait' = wait
        BY <1>1, <2>1 DEF NotifyOne, Typed
  <2>3. CASE UNCHANGED <<queue, local>>
        BY <2>2, <2>3, QueuesStay
  <2>4. CASE /\ queue[n] # <<>> /\ queue' = [queue EXCEPT ![n] = Tail(@)]
             /\ local' = [local EXCEPT ![Head(queue[n])] = "notified"]
    <3>1. \A d \in Call \ {Head(queue[n])} : local[d] = "queued" => local'[d] = "queued"
        BY <2>4 DEF Typed
    <3> QED
        BY <2>2, <2>4, <3>1, QueuesTail, ZenonT(30)
  <2> QED
        BY <2>1, <2>2, <2>3, <2>4, NotifiedEffect
<1>2. ASSUME NEW c \in Call, Poll(c) PROVE Queues'
  <2> DEFINE n == wait[c]
  <2>1. n \in Note /\ wait' = wait
        BY <1>2, HoldsNote DEF Poll, Subscribed
  <2>2. CASE local[c] = "init" /\ n \notin stored
    <3>1. queue' = [queue EXCEPT ![n] = Append(@, c)] /\ local' = [local EXCEPT ![c] = "queued"]
        BY <1>2, <2>2 DEF Poll
    <3> QED
        BY <2>1, <2>2, <3>1, QueuesAppend, ZenonT(30)
  <2>3. CASE local[c] # "init" \/ n \in stored
    <3>1. queue' = queue
        BY <1>2, <2>3 DEF Poll
    <3>2. \A d \in Call : local[d] = "queued" => local'[d] = "queued" /\ wait'[d] = wait[d]
        BY <1>2, <2>1 DEF Poll, Typed
    <3> QED
        BY <3>1, <3>2, QueuesStay
  <2> QED
        BY <2>2, <2>3
<1>3. ASSUME NEW c \in Call, DropNotified(c) PROVE Queues'
  <2> DEFINE n == wait[c]
  <2>1. n \in Note /\ wait' = wait
        BY <1>3, DropNotifiedEffect DEF DropNotified
  <2>2. CASE /\ local' = [local EXCEPT ![c] = "dropped"]
             /\ queue' = queue /\ local[c] = "notified"
    <3>1. \A d \in Call : local[d] = "queued" => local'[d] = "queued" /\ wait'[d] = wait[d]
        BY <2>1, <2>2 DEF Typed
    <3> QED
        BY <2>2, <3>1, QueuesStay
  <2>3. CASE /\ local' = [local EXCEPT ![c] = "dropped"]
             /\ queue' = [queue EXCEPT ![n] = Without(@, c)]
        BY <2>1, <2>3, QueuesWithout, ZenonT(30)
  <2>4. CASE \E d \in Call :
               /\ d # c /\ local[c] = "notified" /\ queue[n] # <<>> /\ d = Head(queue[n])
               /\ local' = [[local EXCEPT ![c] = "dropped"] EXCEPT ![d] = "notified"]
               /\ queue' = [queue EXCEPT ![n] = Tail(@)]
    <3>1. \A d \in Call \ {Head(queue[n])} : local[d] = "queued" => local'[d] = "queued"
        BY <2>4 DEF Typed
    <3> QED
        BY <2>1, <2>4, <3>1, QueuesTail, ZenonT(30)
  <2> QED
        BY <1>3, <2>1, <2>2, <2>3, <2>4, DropNotifiedEffect
<1>4. ASSUME NEW c \in Call, ReclaimNotify(c) PROVE Queues'
    BY <1>4, QueuesStay DEF ReclaimNotify, noteVars
<1>5. ASSUME NEW c \in Call, DropNotify(c) PROVE Queues'
  <2>1. local[c] = "dropped"
        BY <1>5 DEF DropNotify, Waits, WaitOf, Leaving
  <2>2. \A d \in Call : local[d] = "queued" => local'[d] = "queued" /\ wait'[d] = wait[d]
        BY <1>5, <2>1 DEF DropNotify, Typed
  <2>3. queue' = queue
        BY <1>5 DEF DropNotify
  <2> QED
        BY <2>2, <2>3, QueuesStay
<1>6. ASSUME NEW c \in Call, Listen(c) PROVE Queues'
  <2>1. local[c] = "dropped"
        BY <1>6 DEF Listen, Waits, WaitOf, Leaving
  <2>2. \A d \in Call : local[d] = "queued" => local'[d] = "queued" /\ wait'[d] = wait[d]
        BY <1>6, <2>1 DEF Listen, Typed
  <2>3. queue' = queue
        BY <1>6 DEF Listen
  <2> QED
        BY <2>2, <2>3, QueuesStay
<1>7. ASSUME NEW c \in Call, NoteQuiet(c) PROVE Queues'
    BY <1>7, NoteQuietKeeps, QueuesStay
<1>8. CASE UNCHANGED vars
    BY <1>8 DEF Queues, vars
<1> QED
    BY <1>1, <1>2, <1>3, <1>4, <1>5, <1>6, <1>7, <1>8 DEF Next, Step, NoteQuiet
=============================================================================
