--------------------------- MODULE MCDispatchSystem ---------------------------
(* DispatchSystem on small instances, for TLC. *)
EXTENDS DispatchSystem, TLC

Symmetry == Permutations(Senders)

=============================================================================
