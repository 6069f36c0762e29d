-------------------------- MODULE MCConnectionLimits --------------------------
(* Model values for ConnectionLimits: two calls of one address and one of     *)
(* another whose connections can be coalesced.                                *)
EXTENDS ConnectionLimits, TLC

CONSTANTS c1, c2, c3, a1, a2

ThreeAddressOf == c1 :> a1 @@ c2 :> a1 @@ c3 :> a2

OneCoalesces == a1 :> {a2} @@ a2 :> {}

ObjectSymmetry == Permutations(Sem) \cup Permutations(Note)
================================================================================
