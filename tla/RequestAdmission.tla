-------------------------- MODULE RequestAdmission --------------------------
(***************************************************************************)
(* What connection/scheduler.rs promises to the callers of acquire, without*)
(* its slab, indexes, counters and wakers: at most MaxTotal requests run,  *)
(* at most MaxPerAddress of them on one address, a bounded queue, and a    *)
(* freed slot that goes at once to the waiter whose turn it is.            *)
(***************************************************************************)
EXTENDS Integers, Sequences, FiniteSets

CONSTANTS Request, Address, AddressOf, UrgencyOf,
          MaxTotal, MaxPerAddress, MaxQueued

VARIABLES
  queue,      \* waiting requests in the order of their arrival
  aged,       \* waiting requests that have waited AGING_WAIT
  granted,    \* promoted requests that have not picked their permit up
  holding,    \* requests that hold a permit
  refused     \* requests whose last attempt met a full queue

vars == <<queue, aged, granted, holding, refused>>

Waiting == {queue[i] : i \in 1..Len(queue)}

FreeSlot(a, running) ==
  /\ Cardinality(running) < MaxTotal
  /\ Cardinality({r \in running : AddressOf[r] = a}) < MaxPerAddress

Eligible(running) ==
  {i \in 1..Len(queue) : FreeSlot(AddressOf[queue[i]], running)}

\* Wrong variant: urgency alone decides.
TurnWithoutAging(running) ==
  {i \in Eligible(running) :
     \A j \in Eligible(running) :
       \/ UrgencyOf[queue[i]] < UrgencyOf[queue[j]]
       \/ UrgencyOf[queue[i]] = UrgencyOf[queue[j]] /\ i <= j}

\* The waiter a free slot may go to: the oldest eligible one, or the most
\* urgent one (first come first served among equals) unless the oldest has
\* aged.  When the count of high-urgency promotions forces the oldest is
\* left open.
Turn(running) ==
  {i \in Eligible(running) :
     \/ \A j \in Eligible(running) : i <= j
     \/ /\ \A j \in Eligible(running) :
             \/ UrgencyOf[queue[i]] < UrgencyOf[queue[j]]
             \/ UrgencyOf[queue[i]] = UrgencyOf[queue[j]] /\ i <= j
        /\ \A j \in Eligible(running) : queue[j] \in aged => i <= j}

Without(i) ==
  [j \in 1..(Len(queue) - 1) |-> IF j < i THEN queue[j] ELSE queue[j + 1]]

Init ==
  /\ queue = <<>>
  /\ aged = {}
  /\ granted = {}
  /\ holding = {}
  /\ refused = {}

Idle(r) == r \notin Waiting \cup granted \cup holding

Admit(r) ==
  /\ Idle(r)
  /\ FreeSlot(AddressOf[r], granted \cup holding)
  /\ holding' = holding \cup {r}
  /\ refused' = refused \ {r}
  /\ UNCHANGED <<queue, aged, granted>>

Refuse(r) ==
  /\ Idle(r)
  /\ ~FreeSlot(AddressOf[r], granted \cup holding)
  /\ Len(queue) >= MaxQueued
  /\ refused' = refused \cup {r}
  /\ UNCHANGED <<queue, aged, granted, holding>>

Wait(r) ==
  /\ Idle(r)
  /\ ~FreeSlot(AddressOf[r], granted \cup holding)
  /\ Len(queue) < MaxQueued
  /\ queue' = Append(queue, r)
  /\ refused' = refused \ {r}
  /\ UNCHANGED <<aged, granted, holding>>

Collect(r) ==
  /\ r \in granted
  /\ granted' = granted \ {r}
  /\ holding' = holding \cup {r}
  /\ UNCHANGED <<queue, aged, refused>>

\* The slots of `running` stay taken, one more became free.
HandOver(running, stillGranted) ==
  \/ /\ Eligible(running) = {}
     /\ granted' = stillGranted
     /\ UNCHANGED <<queue, aged>>
  \/ \E i \in Turn(running) :
       /\ queue' = Without(i)
       /\ aged' = aged \ {queue[i]}
       /\ granted' = stillGranted \cup {queue[i]}

Release(r) ==
  /\ r \in holding
  /\ holding' = holding \ {r}
  /\ HandOver((granted \cup holding) \ {r}, granted)
  /\ UNCHANGED refused

CancelGranted(r) ==
  /\ r \in granted
  /\ HandOver((granted \cup holding) \ {r}, granted \ {r})
  /\ UNCHANGED <<holding, refused>>

CancelQueued(i) ==
  /\ queue' = Without(i)
  /\ aged' = aged \ {queue[i]}
  /\ UNCHANGED <<granted, holding, refused>>

Age(i) ==
  /\ queue[i] \notin aged
  /\ \A j \in 1..(i - 1) : queue[j] \in aged
  /\ aged' = aged \cup {queue[i]}
  /\ UNCHANGED <<queue, granted, holding, refused>>

Next ==
  \/ \E r \in Request :
       \/ Admit(r)
       \/ Refuse(r)
       \/ Wait(r)
       \/ Collect(r)
       \/ Release(r)
       \/ CancelGranted(r)
  \/ \E i \in 1..Len(queue) : CancelQueued(i) \/ Age(i)

Spec == Init /\ [][Next]_vars

\* Time passes, a woken task is polled, a response body is dropped one day.
Fairness ==
  /\ WF_vars(\E i \in 1..Len(queue) : Age(i))
  /\ \A r \in Request : WF_vars(Collect(r)) /\ WF_vars(Release(r))

FairSpec == Spec /\ Fairness

\* Nobody starves: a request that waits for admission leaves the queue, even
\* when more urgent ones keep arriving, because a waiter that aged goes first.
NoStarvation == \A r \in Request : r \in Waiting ~> r \notin Waiting
=============================================================================
