--------------------------- MODULE MCCallLifecycle ---------------------------
(***************************************************************************)
(* A call with two tasks to run on and two handles to cancel it.           *)
(***************************************************************************)
EXTENDS CallLifecycle
=============================================================================
