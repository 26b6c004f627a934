--------------------------- MODULE CourseDelivery ---------------------------
(***************************************************************************)
(* A course from its acceptance to its end: the restaurant phase           *)
(* (CourseActionService), the customer phase by an internal livreur        *)
(* (DeliveryActionService) or by Turbo (TurboWebhookService), the cash     *)
(* collected on the way (Paiement rows, PaiementsService), the crons that  *)
(* look after a course under way (CourseTask), and the back office.        *)
(*                                                                         *)
(* One course.  A handler is a program: a sequence of operations, each one *)
(* SQL statement or $transaction.  req[p].prog is what is left of the      *)
(* handler p runs; an operation that only reads replaces itself by what    *)
(* the handler will do next, so a decision may be stale when it is acted   *)
(* upon.                                                                   *)
(***************************************************************************)
EXTENDS Naturals, FiniteSets, Sequences, FiniteSetsExt

CONSTANTS
    Order,       \* the orders of the course
    Mode,        \* means of payment (Paiement.source)
    Paiement,    \* primary keys of the PENDING Paiement rows
    Req,         \* concurrent executions of both backends
    NONE,        \* SQL null
    Operations,  \* <<fleet, operation>>: what the instance exercises
    MaxCode,     \* MAX_CODE_ATTEMPTS
    CanCrash     \* may a backend stop in the middle of a handler?

Fleets == {"CHICKEN_NATION", "TURBO"}

ASSUME NoneAssumption   == NONE \notin Order \cup Mode \cup Paiement
ASSUME BoundAssumption  == MaxCode \in Nat \ {0} /\ CanCrash \in BOOLEAN
ASSUME FiniteAssumption == \A S \in {Order, Mode, Paiement, Req} : IsFiniteSet(S)
(* One PENDING row by order and means, and a key a handler still holds.    *)
ASSUME RowsAssumption   == Cardinality(Paiement) >= Cardinality(Order) * Cardinality(Mode) + Cardinality(Req)

VARIABLES
    fleet,       \* who carries the course (turbo_escalated_at, deliverer_id)
    statut,      \* Course.statut
    alerted,     \* Course.delay_alerted_at is set
    livraison,   \* Delivery.statut, by order
    attempts,    \* Delivery.turbo_code_attempts, by order
    commande,    \* Order.status
    payee,       \* Order.paied
    paiement,    \* the PENDING rows of the table Paiement
    encaisse,    \* by order, the sum of its SUCCESS rows, counted up to TOTAL
    req,         \* handlers in flight
    turbo,       \* Turbo: how many webhooks of its sequence it has sent for the order
    dropped,     \* Turbo: has it cancelled the order?
    bells        \* history: "course late" bells

courseVars == <<fleet, statut, alerted>>
orderVars  == <<livraison, attempts, commande, payee>>
moneyVars  == <<paiement, encaisse>>
worldVars  == <<turbo, dropped, bells>>
vars       == <<fleet, statut, alerted, livraison, attempts, commande, payee, paiement, encaisse,
                req, turbo, dropped, bells>>

-----------------------------------------------------------------------------
(* Data *)

CourseRank   == [PENDING_ASSIGNMENT |-> 0, ACCEPTED |-> 1, AT_RESTAURANT |-> 2,
                 IN_DELIVERY |-> 3, COMPLETED |-> 4]
DeliveryRank == [PENDING |-> 0, IN_ROUTE |-> 1, ARRIVED |-> 2, DELIVERED |-> 3]
OrderRank    == [READY |-> 0, PICKED_UP |-> 1, COLLECTED |-> 2, COMPLETED |-> 3]

CourseOver   == {"COMPLETED", "CANCELLED"}
DeliveryOver == {"DELIVERED", "FAILED", "CANCELLED"}
OrderOver    == {"COMPLETED", "CANCELLED"}

(* Amounts are in halves of what the order costs.                          *)
TOTAL == 2

FreeRow == [order |-> NONE, mode |-> NONE, montant |-> 0]
Pending(o)   == {i \in Paiement : paiement[i].order = o}
AllOver      == \A o \in Order : livraison[o] \in DeliveryOver
Covered(o)   == encaisse[o] >= TOTAL

Idle == [prog |-> <<>>, order |-> NONE, row |-> NONE]

(* normaliserEncaissements: what the livreur declares, by means; nothing   *)
(* obliges the amounts to add up to the price.                             *)
Batches == UNION {[S -> 1..TOTAL] : S \in (SUBSET Mode) \ {{}}}

-----------------------------------------------------------------------------
(* Programs *)

Op(name)       == <<name, "">>
Free(p)        == req[p].prog = <<>>
At(p, op)      == ~Free(p) /\ Head(req[p].prog)[1] = op
Arg(p)         == Head(req[p].prog)[2]
Mine(p)        == req[p].order
Goto(p, r)     == req' = [req EXCEPT ![p] = IF r.prog = <<>> THEN Idle ELSE r]
Become(p, s)   == Goto(p, [req[p] EXCEPT !.prog = s \o Tail(@)])
Done(p)        == Become(p, <<>>)
Stop(p)        == Goto(p, Idle)
Begin(p, o, s) == Free(p) /\ Goto(p, [Idle EXCEPT !.order = o, !.prog = s])

On(f)  == fleet = f
May(x) == <<fleet, x>> \in Operations

Init ==
    /\ fleet \in Fleets
    /\ statut = IF fleet = "TURBO" THEN "PENDING_ASSIGNMENT" ELSE "ACCEPTED"
    /\ alerted = FALSE
    /\ livraison = [o \in Order |-> "PENDING"]
    /\ attempts = [o \in Order |-> 0]
    /\ commande = [o \in Order |-> "READY"]
    /\ payee \in [Order -> BOOLEAN]
    /\ paiement = [i \in Paiement |-> FreeRow]
    /\ encaisse = [o \in Order |-> IF payee[o] THEN TOTAL ELSE 0]
    /\ req = [p \in Req |-> Idle]
    /\ turbo = [o \in Order |-> 0]
    /\ dropped = [o \in Order |-> FALSE]
    /\ bells = 0

-----------------------------------------------------------------------------
(* Operations on the course *)

(* advanceCourse reads the statut, then writes the next one by id.         *)
AdvanceCourse(p) ==
    /\ At(p, "course")
    /\ IF statut \in DOMAIN CourseRank /\ CourseRank[Arg(p)] > CourseRank[statut]
       THEN Become(p, <<<<"courseW", Arg(p)>>>>)
       ELSE Done(p)
    /\ UNCHANGED <<courseVars, orderVars, moneyVars, worldVars>>

CourseWrite(p) ==
    /\ At(p, "courseW")
    /\ statut' = Arg(p)
    /\ Done(p)
    /\ UNCHANGED <<fleet, alerted, orderVars, moneyVars, worldVars>>

CloseOpen(p) ==
    /\ At(p, "close")
    /\ Become(p, <<<<Arg(p), "COMPLETED">>>>)
    /\ UNCHANGED <<courseVars, orderVars, moneyVars, worldVars>>

(* The course ends with its last delivery: the webhooks then go through    *)
(* advanceCourse, checkCourseCompletion writes by id.                      *)
Close(p) ==
    /\ At(p, "close")
    /\ IF AllOver THEN Become(p, <<<<Arg(p), "COMPLETED">>>>) ELSE Done(p)
    /\ UNCHANGED <<courseVars, orderVars, moneyVars, worldVars>>

(* The bags leave the restaurant: the course and all its orders together.  *)
PickUpWrite(p) ==
    /\ At(p, "pickupW")
    /\ statut' = "IN_DELIVERY"
    /\ commande' = [o \in Order |-> "PICKED_UP"]
    /\ Done(p)
    /\ UNCHANGED <<fleet, alerted, livraison, attempts, payee, moneyVars, worldVars>>

CancelRead(p) ==
    /\ At(p, "cancel")
    /\ IF statut \in CourseOver THEN Stop(p) ELSE Become(p, <<Op("cancelW")>>)
    /\ UNCHANGED <<courseVars, orderVars, moneyVars, worldVars>>

(* The orders are those whose delivery is open, and the statement before   *)
(* has just closed all of them: no order is cancelled.                     *)
CancelWrite(p) ==
    /\ At(p, "cancelW")
    /\ statut' = "CANCELLED"
    /\ livraison' = [o \in Order |-> IF livraison[o] \in DeliveryOver THEN livraison[o] ELSE "CANCELLED"]
    /\ commande' = [o \in Order |->
         IF livraison'[o] \notin DeliveryOver /\ commande[o] \notin OrderOver THEN "CANCELLED" ELSE commande[o]]
    /\ Done(p)
    /\ UNCHANGED <<fleet, alerted, attempts, payee, moneyVars, worldVars>>

AlertWriteAny(p) ==
    /\ At(p, "alertW")
    /\ alerted' = TRUE /\ bells' = bells + 1
    /\ Done(p)
    /\ UNCHANGED <<fleet, statut, orderVars, moneyVars, turbo, dropped>>

AlertWrite(p) ==
    /\ At(p, "alertW")
    /\ IF alerted THEN UNCHANGED <<alerted, bells>> ELSE alerted' = TRUE /\ bells' = bells + 1
    /\ Done(p)
    /\ UNCHANGED <<fleet, statut, orderVars, moneyVars, turbo, dropped>>

-----------------------------------------------------------------------------
(* Operations on a delivery *)

AdvanceDeliveryAny(p) ==
    /\ At(p, "delivery")
    /\ livraison' = [livraison EXCEPT ![Mine(p)] = Arg(p)]
    /\ Done(p)
    /\ UNCHANGED <<courseVars, attempts, commande, payee, moneyVars, worldVars>>

(* advanceDelivery: one updateMany, conditioned on the rank.               *)
AdvanceDelivery(p) ==
    /\ At(p, "delivery")
    /\ livraison' = IF /\ livraison[Mine(p)] \in DOMAIN DeliveryRank
                       /\ DeliveryRank[livraison[Mine(p)]] < DeliveryRank[Arg(p)]
                    THEN [livraison EXCEPT ![Mine(p)] = Arg(p)] ELSE livraison
    /\ Done(p)
    /\ UNCHANGED <<courseVars, attempts, commande, payee, moneyVars, worldVars>>

DeliveryWrite(p) ==
    /\ At(p, "deliveryW")
    /\ livraison' = [livraison EXCEPT ![Mine(p)] = Arg(p)]
    /\ Done(p)
    /\ UNCHANGED <<courseVars, attempts, commande, payee, moneyVars, worldVars>>

AttemptWrite(p) ==
    /\ At(p, "attemptW")
    /\ attempts' = [attempts EXCEPT ![Mine(p)] = Arg(p)]
    /\ Done(p)
    /\ UNCHANGED <<courseVars, livraison, commande, payee, moneyVars, worldVars>>

(* Turbo cancels one order: its delivery if still open, and the course     *)
(* when no open delivery is left.  The order itself is not touched.        *)
DropWrite(p) ==
    /\ At(p, "drop")
    /\ IF livraison[Mine(p)] \in DeliveryOver
       THEN Done(p) /\ UNCHANGED livraison
       ELSE /\ livraison' = [livraison EXCEPT ![Mine(p)] = "CANCELLED"]
            /\ Become(p, <<Op("left")>>)
    /\ UNCHANGED <<courseVars, attempts, commande, payee, moneyVars, worldVars>>

Left(p) ==
    /\ At(p, "left")
    /\ IF AllOver THEN Become(p, <<Op("leftW")>>) ELSE Done(p)
    /\ UNCHANGED <<courseVars, orderVars, moneyVars, worldVars>>

LeftWrite(p) ==
    /\ At(p, "leftW")
    /\ statut' = IF statut \in CourseOver THEN statut ELSE "CANCELLED"
    /\ Done(p)
    /\ UNCHANGED <<fleet, alerted, orderVars, moneyVars, worldVars>>

-----------------------------------------------------------------------------
(* Operations on an order and its money *)

SyncTerminal(p) ==
    /\ At(p, "sync")
    /\ Become(p, <<<<"syncW", Arg(p)>>>>)
    /\ UNCHANGED <<courseVars, orderVars, moneyVars, worldVars>>

(* syncStatus reads the order, then writes the status by id.               *)
Sync(p) ==
    /\ At(p, "sync")
    /\ IF commande[Mine(p)] \notin OrderOver /\ OrderRank[Arg(p)] > OrderRank[commande[Mine(p)]]
       THEN Become(p, <<<<"syncW", Arg(p)>>>>)
       ELSE Done(p)
    /\ UNCHANGED <<courseVars, orderVars, moneyVars, worldVars>>

SyncWrite(p) ==
    /\ At(p, "syncW")
    /\ commande' = [commande EXCEPT ![Mine(p)] = Arg(p)]
    /\ Done(p)
    /\ UNCHANGED <<courseVars, livraison, attempts, payee, moneyVars, worldVars>>

SettleUnpaid(p) ==
    /\ At(p, "settle")
    /\ IF commande[Mine(p)] \in OrderOver THEN Done(p)
       ELSE Become(p, <<<<"sync", "COMPLETED">>>>)
    /\ UNCHANGED <<courseVars, orderVars, moneyVars, worldVars>>

(* handleDelivered, on the order as it reads it.                           *)
Settle(p) ==
    /\ At(p, "settle")
    /\ IF commande[Mine(p)] \in OrderOver THEN Done(p)
       ELSE IF payee[Mine(p)] THEN Become(p, <<<<"sync", "COMPLETED">>>>)
       ELSE Become(p, <<Op("declare"), <<"sync", "COLLECTED">>>>)
    /\ UNCHANGED <<courseVars, orderVars, moneyVars, worldVars>>

DeclareInverted(p) ==
    /\ At(p, "declare")
    /\ IF Pending(Mine(p)) = {} THEN Done(p) ELSE Become(p, <<Op("declareW")>>)
    /\ UNCHANGED <<courseVars, orderVars, moneyVars, worldVars>>

(* enregistrerEncaissementLivreur: nothing when a declaration is pending.  *)
Declare(p) ==
    /\ At(p, "declare")
    /\ IF Pending(Mine(p)) # {} THEN Done(p) ELSE Become(p, <<Op("declareW")>>)
    /\ UNCHANGED <<courseVars, orderVars, moneyVars, worldVars>>

(* All rows of the batch, or none when the partial unique index on         *)
(* (order_id, source) refuses one.  A new row takes a key no handler holds. *)
Fresh == {i \in Paiement : paiement[i] = FreeRow /\ \A p \in Req : req[p].row # i}
RefusedNever(o, b) == FALSE
Refused(o, b) == \E i \in Pending(o) : paiement[i].mode \in DOMAIN b

DeclareWrite(p) ==
    /\ At(p, "declareW")
    /\ \E b \in Batches :
         IF Refused(Mine(p), b) THEN UNCHANGED paiement
         ELSE LET key == CHOOSE f \in [DOMAIN b -> Fresh] : \A m, n \in DOMAIN b : f[m] = f[n] => m = n
              IN  paiement' = [i \in Paiement |->
                    IF \E m \in DOMAIN b : key[m] = i
                    THEN LET m == CHOOSE m \in DOMAIN b : key[m] = i
                         IN  [order |-> Mine(p), mode |-> m, montant |-> b[m]]
                    ELSE paiement[i]]
    /\ Done(p)
    /\ UNCHANGED <<courseVars, orderVars, encaisse, worldVars>>

(* The livreur's confirmation: delivery and order in one transaction, on   *)
(* what was read of the payment.                                           *)
ConfirmWrite(p) ==
    /\ At(p, "confirmW")
    /\ livraison' = [livraison EXCEPT ![Mine(p)] = "DELIVERED"]
    /\ commande' = [commande EXCEPT ![Mine(p)] = Arg(p)]
    /\ Done(p)
    /\ UNCHANGED <<courseVars, attempts, payee, moneyVars, worldVars>>

FailWrite(p) ==
    /\ At(p, "failW")
    /\ livraison' = [livraison EXCEPT ![Mine(p)] = "FAILED"]
    /\ commande' = [commande EXCEPT ![Mine(p)] = "CANCELLED"]
    /\ Done(p)
    /\ UNCHANGED <<courseVars, attempts, payee, moneyVars, worldVars>>

(* confirmerEncaissement: PENDING -> SUCCESS, for one of the callers.      *)
ClaimPaiement(p) ==
    /\ At(p, "claim")
    /\ LET i == req[p].row
       IN  IF paiement[i] = FreeRow THEN Stop(p) /\ UNCHANGED moneyVars
           ELSE /\ encaisse' = [encaisse EXCEPT ![Mine(p)] = Min({TOTAL, @ + paiement[i].montant})]
                /\ paiement' = [paiement EXCEPT ![i] = FreeRow]
                /\ Done(p)
    /\ UNCHANGED <<courseVars, orderVars, worldVars>>

(* Its cascade: paid only when the rows cover the price.                   *)
Cascade(p) ==
    /\ At(p, "cascade")
    /\ IF ~Covered(Mine(p)) THEN Done(p)
       ELSE Become(p, <<<<"paidW", IF commande[Mine(p)] = "COLLECTED" THEN "COMPLETED" ELSE "">>>>)
    /\ UNCHANGED <<courseVars, orderVars, moneyVars, worldVars>>

(* addPaiement marks the order paid whatever its rows cover.               *)
AddRow(p) ==
    /\ At(p, "add")
    /\ encaisse' = [encaisse EXCEPT ![Mine(p)] = Min({TOTAL, @ + Arg(p)})]
    /\ Done(p)
    /\ UNCHANGED <<courseVars, orderVars, paiement, worldVars>>

AddCascadeStays(p) ==
    /\ At(p, "addCascade")
    /\ Become(p, <<<<"paidW", "">>>>)
    /\ UNCHANGED <<courseVars, orderVars, moneyVars, worldVars>>

AddCascade(p) ==
    /\ At(p, "addCascade")
    /\ Become(p, <<<<"paidW", IF Covered(Mine(p)) /\ commande[Mine(p)] = "COLLECTED" THEN "COMPLETED" ELSE "">>>>)
    /\ UNCHANGED <<courseVars, orderVars, moneyVars, worldVars>>

PaidWrite(p) ==
    /\ At(p, "paidW")
    /\ payee' = [payee EXCEPT ![Mine(p)] = TRUE]
    /\ commande' = IF Arg(p) = "" THEN commande ELSE [commande EXCEPT ![Mine(p)] = Arg(p)]
    /\ Done(p)
    /\ UNCHANGED <<courseVars, livraison, attempts, moneyVars, worldVars>>

(* The back office cancels an order: the first SUCCESS row is refunded if  *)
(* the operator accepts (else a voucher is issued), and paied recomputed.  *)
Refund(p) ==
    /\ At(p, "refund")
    /\ \/ UNCHANGED <<encaisse, payee>>
       \/ \E m \in 1..encaisse[Mine(p)] :
            /\ encaisse' = [encaisse EXCEPT ![Mine(p)] = @ - m]
            /\ payee' = [payee EXCEPT ![Mine(p)] = encaisse'[Mine(p)] >= TOTAL]
    /\ Done(p)
    /\ UNCHANGED <<courseVars, livraison, attempts, commande, paiement, worldVars>>

-----------------------------------------------------------------------------
(* Turbo (external): it reports its progress and may cancel an order.      *)

TurboMoves(o) ==
    /\ On("TURBO")
    /\ turbo[o] < 5 /\ ~dropped[o]
    /\ turbo' = [turbo EXCEPT ![o] = @ + 1]
    /\ UNCHANGED <<courseVars, orderVars, moneyVars, req, dropped, bells>>

TurboDrops(o) ==
    /\ On("TURBO") /\ May("drop")
    /\ turbo[o] < 5 /\ ~dropped[o]
    /\ dropped' = [dropped EXCEPT ![o] = TRUE]
    /\ UNCHANGED <<courseVars, orderVars, moneyVars, req, turbo, bells>>

(* Its webhooks, in order: courier_assigned, pickup_started, picked_up,    *)
(* in_transit, delivered.                                                  *)
Carried == <<<<"course", "IN_DELIVERY">>, <<"delivery", "IN_ROUTE">>, <<"sync", "PICKED_UP">>>>
Handler == << <<<<"course", "ACCEPTED">>>>,
              <<<<"course", "AT_RESTAURANT">>>>,
              Carried,
              Carried,
              <<<<"delivery", "DELIVERED">>, <<"close", "course">>, Op("settle")>> >>

(* A webhook that was sent arrives: late, out of order, more than once.    *)
Webhook(p, o) ==
    /\ On("TURBO")
    /\ \E e \in 1..turbo[o] : Begin(p, o, Handler[e])
    /\ UNCHANGED <<courseVars, orderVars, moneyVars, worldVars>>

WebhookCancelled(p, o) ==
    /\ dropped[o]
    /\ Begin(p, o, <<Op("drop")>>)
    /\ UNCHANGED <<courseVars, orderVars, moneyVars, worldVars>>

(* validerCodeClient: Turbo's livreur types the code the client gives him, *)
(* with what he collected or without.                                      *)
CodeOk(p, o) ==
    /\ livraison[o] # "DELIVERED" /\ attempts[o] < MaxCode
    /\ \E info \in BOOLEAN : Begin(p, o,
         <<<<"deliveryW", "DELIVERED">>>>
         \o (IF payee[o] THEN <<<<"sync", "COMPLETED">>>>
             ELSE (IF info THEN <<Op("declare")>> ELSE <<>>) \o <<<<"sync", "COLLECTED">>>>)
         \o <<<<"close", "course">>>>)

CodeWrong(p, o) ==
    /\ livraison[o] # "DELIVERED" /\ attempts[o] < MaxCode
    /\ Begin(p, o, <<<<"attemptW", attempts[o] + 1>>>>)

ValiderCode(p, o) ==
    /\ On("TURBO") /\ May("code")
    /\ turbo[o] >= 3
    /\ commande[o] \notin OrderOver
    /\ CodeOk(p, o) \/ CodeWrong(p, o)
    /\ UNCHANGED <<courseVars, orderVars, moneyVars, worldVars>>

-----------------------------------------------------------------------------
(* The internal livreur, the cashier, the crons, the back office.  Each    *)
(* reads what it checks, and acts in the steps that follow.                *)

MarkAtRestaurant(p) ==
    /\ On("CHICKEN_NATION") /\ statut = "ACCEPTED"
    /\ Begin(p, NONE, <<<<"courseW", "AT_RESTAURANT">>>>)
    /\ UNCHANGED <<courseVars, orderVars, moneyVars, worldVars>>

MarkPickedUp(p) ==
    /\ On("CHICKEN_NATION") /\ May("markPickedUp")
    /\ statut = "AT_RESTAURANT"
    /\ Begin(p, NONE, <<Op("pickupW")>>)
    /\ UNCHANGED <<courseVars, orderVars, moneyVars, worldVars>>

(* A subcontracted course may still wait for courier_assigned.             *)
ValidatePickup(p) ==
    /\ \/ statut \in {"ACCEPTED", "AT_RESTAURANT"}
       \/ statut = "PENDING_ASSIGNMENT" /\ On("TURBO")
    /\ \A o \in Order : commande[o] = "READY"
    /\ Begin(p, NONE, <<Op("pickupW")>>)
    /\ UNCHANGED <<courseVars, orderVars, moneyVars, worldVars>>

(* assertOwned *)
Owned(o, expected) == On("CHICKEN_NATION") /\ statut = "IN_DELIVERY" /\ livraison[o] = expected

StartDelivery(p, o) ==
    /\ Owned(o, "PENDING")
    /\ Begin(p, o, <<<<"deliveryW", "IN_ROUTE">>>>)
    /\ UNCHANGED <<courseVars, orderVars, moneyVars, worldVars>>

MarkArrived(p, o) ==
    /\ Owned(o, "IN_ROUTE")
    /\ Begin(p, o, <<<<"deliveryW", "ARRIVED">>>>)
    /\ UNCHANGED <<courseVars, orderVars, moneyVars, worldVars>>

ConfirmDelivery(p, o) ==
    /\ Owned(o, "ARRIVED")
    /\ Begin(p, o, (IF payee[o] THEN <<<<"confirmW", "COMPLETED">>>>
                    ELSE <<<<"confirmW", "COLLECTED">>, Op("declare")>>)
                   \o <<<<"close", "courseW">>>>)
    /\ UNCHANGED <<courseVars, orderVars, moneyVars, worldVars>>

(* failDelivery looks at no statut.                                        *)
FailDelivery(p, o) ==
    /\ On("CHICKEN_NATION") /\ May("fail")
    /\ Begin(p, o, <<Op("failW"), <<"close", "courseW">>>>)
    /\ UNCHANGED <<courseVars, orderVars, moneyVars, worldVars>>

CancelCourse(p) ==
    /\ May("cancelCourse")
    /\ Begin(p, NONE, <<Op("cancel")>>)
    /\ UNCHANGED <<courseVars, orderVars, moneyVars, worldVars>>

AutoCancel(p) ==
    /\ On("CHICKEN_NATION") /\ May("autoCancel")
    /\ statut \in {"ACCEPTED", "AT_RESTAURANT"}
    /\ Begin(p, NONE, <<Op("cancel")>>)
    /\ UNCHANGED <<courseVars, orderVars, moneyVars, worldVars>>

DetecterRetards(p) ==
    /\ May("delay")
    /\ statut = "IN_DELIVERY" /\ ~alerted
    /\ Begin(p, NONE, <<Op("alertW")>>)
    /\ UNCHANGED <<courseVars, orderVars, moneyVars, worldVars>>

ConfirmerEncaissement(p) ==
    /\ \E i \in Paiement :
         /\ paiement[i] # FreeRow
         /\ commande[paiement[i].order] # "CANCELLED"
         /\ Free(p)
         /\ Goto(p, [prog |-> <<Op("claim"), Op("cascade")>>, order |-> paiement[i].order, row |-> i])
    /\ UNCHANGED <<courseVars, orderVars, moneyVars, worldVars>>

AddPaiement(p, o) ==
    /\ May("add")
    /\ \E m \in 1..TOTAL : Begin(p, o, <<<<"add", m>>, Op("addCascade")>>)
    /\ UNCHANGED <<courseVars, orderVars, moneyVars, worldVars>>

(* markPaidCash completes the order whatever its status.                   *)
MarkPaidCash(p, o) ==
    /\ May("cash")
    /\ ~payee[o]
    /\ Begin(p, o, <<<<"paidW", "COMPLETED">>>>)
    /\ UNCHANGED <<courseVars, orderVars, moneyVars, worldVars>>

(* updateStatus(CANCELLED) by an administrator, from any status.           *)
AdminCancel(p, o) ==
    /\ May("adminCancel")
    /\ Begin(p, o, <<Op("refund"), <<"syncW", "CANCELLED">>>>)
    /\ UNCHANGED <<courseVars, orderVars, moneyVars, worldVars>>

Crash(p) ==
    /\ CanCrash
    /\ ~Free(p)
    /\ Stop(p)
    /\ UNCHANGED <<courseVars, orderVars, moneyVars, worldVars>>

-----------------------------------------------------------------------------

Starts(p) ==
    \/ MarkAtRestaurant(p) \/ MarkPickedUp(p) \/ ValidatePickup(p)
    \/ CancelCourse(p) \/ AutoCancel(p) \/ DetecterRetards(p) \/ ConfirmerEncaissement(p)
    \/ \E o \in Order :
         \/ Webhook(p, o) \/ WebhookCancelled(p, o) \/ ValiderCode(p, o)
         \/ StartDelivery(p, o) \/ MarkArrived(p, o) \/ ConfirmDelivery(p, o) \/ FailDelivery(p, o)
         \/ AddPaiement(p, o) \/ MarkPaidCash(p, o) \/ AdminCancel(p, o)

Steps(p) ==
    \/ AdvanceCourse(p) \/ CourseWrite(p) \/ Close(p) \/ PickUpWrite(p)
    \/ CancelRead(p) \/ CancelWrite(p) \/ AlertWrite(p)
    \/ AdvanceDelivery(p) \/ DeliveryWrite(p) \/ AttemptWrite(p)
    \/ DropWrite(p) \/ Left(p) \/ LeftWrite(p)
    \/ Sync(p) \/ SyncWrite(p) \/ Settle(p) \/ Declare(p) \/ DeclareWrite(p)
    \/ ConfirmWrite(p) \/ FailWrite(p)
    \/ ClaimPaiement(p) \/ Cascade(p) \/ AddRow(p) \/ AddCascade(p) \/ PaidWrite(p) \/ Refund(p)

Next ==
    \/ \E p \in Req : Starts(p) \/ Steps(p) \/ Crash(p)
    \/ \E o \in Order : TurboMoves(o) \/ TurboDrops(o)

Spec == Init /\ [][Next]_vars

-----------------------------------------------------------------------------
(* Properties *)

(* Every variable keeps to its type, and the PENDING rows to the partial   *)
(* unique index on (order_id, source).                                     *)
TypeOK ==
    /\ fleet \in Fleets
    /\ statut \in DOMAIN CourseRank \cup {"CANCELLED"}
    /\ alerted \in BOOLEAN /\ bells \in Nat
    /\ livraison \in [Order -> DOMAIN DeliveryRank \cup {"FAILED", "CANCELLED"}]
    /\ attempts \in [Order -> 0..MaxCode]
    /\ commande \in [Order -> DOMAIN OrderRank \cup {"CANCELLED"}]
    /\ payee \in [Order -> BOOLEAN]
    /\ encaisse \in [Order -> 0..TOTAL]
    /\ \A i, j \in Paiement :
         paiement[i] # FreeRow /\ paiement[i].order = paiement[j].order /\ paiement[i].mode = paiement[j].mode => i = j
    /\ turbo \in [Order -> 0..5] /\ dropped \in [Order -> BOOLEAN]

(* An order is never COMPLETED without being paid, whoever completed it:   *)
(* the livreur, a webhook, the code of the client, or the staff.  The back *)
(* office refunds an order just before it cancels it.                      *)
BeingCancelled(o) == \E p \in Req : Mine(p) = o /\ At(p, "syncW") /\ Arg(p) = "CANCELLED"
CompletedIsPaid == \A o \in Order : commande[o] = "COMPLETED" => payee[o] \/ BeingCancelled(o)

(* A course is COMPLETED only when each of its deliveries is over: for     *)
(* both fleets when no two handlers run at once, ...                       *)
CourseDone == statut = "COMPLETED" => AllOver

(* ... and for Turbo whatever the interleaving of its webhooks, the code   *)
(* of the client and the cashier.                                          *)
TurboCourseDone == On("TURBO") /\ statut = "COMPLETED" => AllOver

(* What was handed over by Turbo stays delivered: no webhook, replayed or  *)
(* late, and no cancellation takes it back.                                *)
DeliveredIsFinal ==
    [][On("TURBO") => \A o \in Order : livraison[o] = "DELIVERED" => livraison'[o] = "DELIVERED"]_vars

(* Between two handlers, an order that was collected unpaid by a livreur   *)
(* of the house has money that waits for confirmation, or is part paid:    *)
(* the back office can always bring it to its end.                         *)
CollectedCanBePaid ==
    \A o \in Order :
       commande[o] = "COLLECTED" /\ ~payee[o] /\ On("CHICKEN_NATION") /\ (\A p \in Req : Free(p))
       => Pending(o) # {} \/ encaisse[o] > 0

(* Between two handlers no order waits, COLLECTED and paid in full: the    *)
(* handler that paid it, or the one that collected it, completed it.       *)
PaidIsCompleted ==
    \A o \in Order : commande[o] = "COLLECTED" /\ (\A p \in Req : Free(p)) => ~(payee[o] /\ Covered(o))

(* The staff is told once that a course is late.                           *)
DelayToldOnce == bells <= 1

(* What the delivery promises the customer.                                *)
Tracking == INSTANCE OrderTracking WITH status <- commande, paid <- payee
TrackingSpec == Tracking!Spec
=============================================================================
