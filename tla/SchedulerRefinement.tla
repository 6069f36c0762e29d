------------------------ MODULE SchedulerRefinement -------------------------
(***************************************************************************)
(* RequestScheduler as an implementation of RequestAdmission: what a state *)
(* of the slab, the indexes and the guards says to the callers.            *)
(***************************************************************************)
EXTENDS RequestScheduler

Admission == INSTANCE RequestAdmission WITH
  UrgencyOf <- [r \in Request |-> Priority(r)],
  queue <- Line(global, guard),
  aged <- AgedIn(global, guard),
  granted <- PromotedIn(global, guard),
  holding <- permits,
  refused <- rejected

\* The scheduler implements RequestAdmission: its slab, indexes and counters
\* never make it admit, queue, refuse or promote a request differently.
ImplementsAdmission == Admission!Spec
=============================================================================
