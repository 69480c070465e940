---------------------------- MODULE MCOutboxRelay ----------------------------
(* TLC instances of OutboxRelay. *)
EXTENDS OutboxRelay, TLC

Symmetry == Permutations(Relays)

=============================================================================
