----------------------------- MODULE MCDispatchTx -----------------------------
(* DispatchTx on a small instance, for TLC. *)
EXTENDS DispatchTx, TLC

Symmetry == Permutations(Senders) \cup Permutations(Workers)

=============================================================================
