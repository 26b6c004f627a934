------------------------- MODULE MCTurboEscalation -------------------------
(* Finite instances of TurboEscalation. *)
EXTENDS TurboEscalation, TLC

Symmetry == Permutations(Course) \cup Permutations(Ref) \cup Permutations(Order)
               \cup Permutations(Req)
=============================================================================
