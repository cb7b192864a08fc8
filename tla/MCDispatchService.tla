-------------------------- MODULE MCDispatchService --------------------------
(* DispatchService on a small instance, for TLC. *)
EXTENDS DispatchService, TLC

(* Events are written and never read by the handlers.                       *)
WithoutEvents == <<senders, task>>

Symmetry == Permutations(Senders)

=============================================================================
