-------------------------- MODULE MCCourseDelivery --------------------------
EXTENDS CourseDelivery, TLC

CONSTANTS p1, p2, o1, o2, m1, m2

Internal(S) == {"CHICKEN_NATION"} \X S
Turbo(S)    == {"TURBO"} \X S

(* One handler at a time.  markPickedUp and the back office's order        *)
(* cancellation are left to the fleet whose handlers respect them.         *)
SequentialOperations ==
    Internal({"fail", "cancelCourse", "autoCancel", "add"})
    \cup Turbo({"drop", "code", "adminCancel"})

ConcurrentOperations ==
    Internal({"markPickedUp", "delay", "add"}) \cup Turbo({"drop", "code", "cash"})

Symmetry == Permutations(Order) \cup Permutations(Req)
=============================================================================
