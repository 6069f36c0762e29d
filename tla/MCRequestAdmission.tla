------------------------ MODULE MCRequestAdmission ------------------------
(* Model values for RequestAdmission: three requests of one address that    *)
(* keep coming back with urgencies 0, 3 and 7, and two of another address.  *)
EXTENDS RequestAdmission, TLC

CONSTANTS r1, r2, r3, r4, r5, a1, a2

FiveAddressOf ==
  r1 :> a1 @@ r2 :> a1 @@ r3 :> a1 @@ r4 :> a2 @@ r5 :> a2

FiveUrgencyOf == r1 :> 0 @@ r2 :> 3 @@ r3 :> 7 @@ r4 :> 0 @@ r5 :> 7
=============================================================================
