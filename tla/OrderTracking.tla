---------------------------- MODULE OrderTracking ----------------------------
(***************************************************************************)
(* What the delivery promises the customer about an order that left the    *)
(* kitchen: it only moves forward, it is paid when it is completed, and    *)
(* once it is over it stays as it is, unless the back office cancels it.   *)
(*                                                                         *)
(* TurboWebhookService.syncStatus states this of its own writes; the       *)
(* module states it of every handler together.  CourseDelivery implements  *)
(* it under the mapping of its variables commande and payee.               *)
(***************************************************************************)
EXTENDS Naturals

CONSTANT Order

VARIABLES
    status,   \* where the order is
    paid      \* has it been paid?

vars == <<status, paid>>

Rank == [READY |-> 0, PICKED_UP |-> 1, COLLECTED |-> 2, COMPLETED |-> 3]

Over == {"COMPLETED", "CANCELLED"}

Init ==
    /\ status = [o \in Order |-> "READY"]
    /\ paid \in [Order -> BOOLEAN]

(* The bags of one or of several orders leave the restaurant together.     *)
PickUp(S) ==
    /\ \A o \in S : status[o] = "READY"
    /\ status' = [o \in Order |-> IF o \in S THEN "PICKED_UP" ELSE status[o]]
    /\ UNCHANGED paid

(* An order goes to a later stage; the last one is for orders that are     *)
(* paid, or that become so in the same step.                               *)
Advance(o, s) ==
    /\ status[o] \notin Over
    /\ Rank[s] > Rank[status[o]]
    /\ status' = [status EXCEPT ![o] = s]
    /\ paid' = paid \/ paid' = [paid EXCEPT ![o] = TRUE]
    /\ s = "COMPLETED" => paid'[o]

Pay(o) ==
    /\ paid' = [paid EXCEPT ![o] = TRUE]
    /\ UNCHANGED status

(* The back office may refund an order, and cancel it at any stage.        *)
Refund(o) ==
    /\ paid' = [paid EXCEPT ![o] = FALSE]
    /\ UNCHANGED status

Cancel(o) ==
    /\ status' = [status EXCEPT ![o] = "CANCELLED"]
    /\ UNCHANGED paid

Next ==
    \/ \E S \in SUBSET Order : PickUp(S)
    \/ \E o \in Order : Pay(o) \/ Refund(o) \/ Cancel(o) \/ \E s \in DOMAIN Rank : Advance(o, s)

Spec == Init /\ [][Next]_vars
=============================================================================
