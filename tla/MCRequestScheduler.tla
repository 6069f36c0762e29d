------------------------ MODULE MCRequestScheduler ------------------------
(* Model values for RequestScheduler: three addresses, and requests whose   *)
(* urgencies lie on both sides of the high-urgency boundary (0 is high, 3   *)
(* is not, 9 is clamped to 7).                                              *)
EXTENDS SchedulerRefinement, TLC

CONSTANTS r1, r2, r3, r4, r5, a1, a2, a3, k1, k2, k3

FourAddressOf == r1 :> a1 @@ r2 :> a1 @@ r3 :> a2 @@ r4 :> a3

FourUrgencyOf == r1 :> 3 @@ r2 :> 9 @@ r3 :> 0 @@ r4 :> 9

FiveAddressOf == FourAddressOf @@ r5 :> a1

FiveUrgencyOf == FourUrgencyOf @@ r5 :> 3

Symmetric == Permutations(Key) \cup Permutations(Waker)
=============================================================================
