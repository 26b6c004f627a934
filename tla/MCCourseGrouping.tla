-------------------------- MODULE MCCourseGrouping --------------------------
(* Finite instances of CourseGrouping. *)
EXTENDS CourseGrouping, TLC

Symmetry == Permutations(Order) \cup Permutations(Req)
=============================================================================
