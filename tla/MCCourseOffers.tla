--------------------------- MODULE MCCourseOffers ---------------------------
(* Finite instances of CourseOffers. *)
EXTENDS CourseOffers, TLC

Symmetry == Permutations(Livreur) \cup Permutations(Req) \cup Permutations(Offer)
=============================================================================
