-------------------------- MODULE MCStationLifecycle --------------------------
(* TLC instances of StationLifecycle. *)
EXTENDS StationLifecycle, TLC

Symmetry == Permutations(Requests) \cup Permutations(Enrollment)

=============================================================================
