--------------------------- MODULE MCFastFallback ---------------------------
(***************************************************************************)
(* Instances of FastFallback for TLC: every plan of up to MaxRoutes routes. *)
(***************************************************************************)
EXTENDS FastFallback
=============================================================================
