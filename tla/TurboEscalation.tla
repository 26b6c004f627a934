--------------------------- MODULE TurboEscalation ---------------------------
(***************************************************************************)
(* Subcontracting of courses to the external fleet Turbo: escalateToTurbo, *)
(* revenirEnInterne (take-back) and relancerCourseAnnulee of               *)
(* CourseOfferService, the two calls TurboService makes for them, and the  *)
(* webhooks courier_assigned and cancelled that answer.                    *)
(*                                                                         *)
(* Turbo is external: it keeps one group per reference it has received     *)
(* (its deduplication answers any later post of it by a replay, which does *)
(* nothing), its couriers take groups, and it cancels groups or single     *)
(* orders of them.  Webhooks travel in hooks, in no order, and are         *)
(* delivered again and again when Replay is set.                           *)
(*                                                                         *)
(* As in CourseOffers every statement is one action, and a request keeps   *)
(* what it has read in req[p].  A delivery and its order are one-to-one,   *)
(* so both are indexed by the order.                                       *)
(***************************************************************************)
EXTENDS Naturals, FiniteSets

CONSTANTS
    Course,     \* ids of courses
    Order,      \* orders to deliver, all READY when the model starts
    Ref,        \* references CourseHelper.generateReference may draw
    Req,        \* concurrent executions of both backends
    NONE,       \* SQL null
    Ops,        \* back-office operations the instance exercises
    TurboDrops, \* what Turbo may cancel: whole groups, single orders
    Replay,     \* may Turbo deliver a webhook more than once?
    CanCrash    \* may a backend stop in the middle of a request?

ASSUME NoneAssumption == NONE \notin Course \cup Order \cup Ref
ASSUME SwitchAssumption == /\ Ops \subseteq {"takeback", "relance", "annule", "commande"}
                           /\ TurboDrops \subseteq {"group", "order"}
                           /\ {Replay, CanCrash} \subseteq BOOLEAN

VARIABLES
    statut,     \* Course.statut, or what there is in place of the row
    escalated,  \* Course.turbo_escalated_at is set
    reference,  \* Course.reference
    course_id,  \* Delivery.course_id of the order (NONE: no delivery yet)
    delivery,   \* Delivery.statut of the order
    courier,    \* Delivery.turbo_courier_id is set
    service,    \* Order.delivery_service
    status,     \* Order.status
    group,      \* Turbo: what became of the group of a reference
    members,    \* Turbo: the orders still in it
    hooks,      \* webhooks on their way
    req,        \* requests in flight
    doubt       \* history: the "check it by hand" bell rang for the course,
                \* a request at work on it was lost in a crash

courseVars == <<statut, escalated, reference>>
orderVars  == <<course_id, delivery, courier, service, status>>
turboVars  == <<group, members, hooks>>
vars == <<statut, escalated, reference, course_id, delivery, courier, service, status,
          group, members, hooks, req, doubt>>

-----------------------------------------------------------------------------
(* Data *)

Terminal == {"COMPLETED", "CANCELLED", "EXPIRED"}
NoRow    == {"ABSENT", "DELETED"}      \* not yet, no longer in the table

Steps == {"idle", "claim", "lots", "release", "flip", "group", "post", "settle", "failed",
          "doubt", "annuler", "takeback", "relance", "move", "delete", "cancel",
          "assigned", "advance", "advance_write", "dropped", "dropped_group",
          "left", "cancel_course"}

(* Local variables of a request: lot is the list of orders it has read,    *)
(* sent the list it has put in the body of its post.                       *)
Request == [step: Steps, course: Course \cup {NONE}, source: Course \cup {NONE},
            order: Order \cup {NONE}, ref: Ref \cup {NONE}, native: BOOLEAN,
            lot: SUBSET Order, sent: SUBSET Order]

Idle == [step |-> "idle", course |-> NONE, source |-> NONE, order |-> NONE, ref |-> NONE,
         native |-> FALSE, lot |-> {}, sent |-> {}]

Hook == [kind: {"assigned", "cancelled"}, ref: Ref, order: Order \cup {NONE}]

Orders(c) == {o \in Order : course_id[o] = c}
Active(c) == {o \in Orders(c) : delivery[o] = "PENDING"}
AllTurbo(S) == \A o \in S : service[o] = "TURBO"
Live(r)   == group[r] \in {"open", "taken"}

(* A reference nobody has seen: generateReference draws at random.         *)
Fresh(r) == /\ r \notin {reference[c] : c \in Course}
            /\ r \notin {req[p].ref : p \in Req}
            /\ group[r] = "none"

-----------------------------------------------------------------------------
(* Control of a request *)

Free(p)    == req[p].step = "idle"
At(p, s)   == req[p].step = s
Goto(p, r) == req' = [req EXCEPT ![p] = r]
Step(p, s) == Goto(p, [req[p] EXCEPT !.step = s])
Return(p)  == Goto(p, Idle)

Begin(p, s, c, native, lot) ==
    /\ Free(p)
    /\ Goto(p, [Idle EXCEPT !.step = s, !.course = c, !.native = native, !.lot = lot])

-----------------------------------------------------------------------------
Init ==
    /\ statut    = [c \in Course |-> "ABSENT"]
    /\ escalated = [c \in Course |-> FALSE]
    /\ reference = [c \in Course |-> NONE]
    /\ course_id = [o \in Order |-> NONE]
    /\ delivery  = [o \in Order |-> "PENDING"]
    /\ courier   = [o \in Order |-> FALSE]
    /\ service   \in [Order -> {"CHICKEN_NATION", "TURBO"}]
    /\ status    = [o \in Order |-> "READY"]
    /\ group     = [r \in Ref |-> "none"]
    /\ members   = [r \in Ref |-> {}]
    /\ hooks     = {}
    /\ req       = [p \in Req |-> Idle]
    /\ doubt     = [c \in Course |-> {}]

(* createFromReadyOrders: orders of one fleet; a course whose orders are   *)
(* all of Turbo's is sent at once, the others go to CourseOffers.          *)
Create(p, c, S) ==
    /\ statut[c] = "ABSENT"
    /\ S # {}
    /\ \A o \in S : course_id[o] = NONE /\ status[o] = "READY"
    /\ AllTurbo(S) \/ \A o \in S : service[o] = "CHICKEN_NATION"
    /\ \E r \in Ref : Fresh(r) /\ reference' = [reference EXCEPT ![c] = r]
    /\ statut' = [statut EXCEPT ![c] = "PENDING_ASSIGNMENT"]
    /\ course_id' = [o \in Order |-> IF o \in S THEN c ELSE course_id[o]]
    /\ IF AllTurbo(S) THEN Begin(p, "claim", c, TRUE, {}) ELSE Free(p) /\ UNCHANGED req
    /\ UNCHANGED <<escalated, delivery, courier, service, status, turboVars, doubt>>

-----------------------------------------------------------------------------
(* escalateToTurbo *)

(* Its callers, the retry cron and basculerVersTurbo, read the course and  *)
(* the fleet of its orders first.                                          *)
EscalateRead(p, c) ==
    /\ statut[c] = "PENDING_ASSIGNMENT"
    /\ ~escalated[c]
    /\ Begin(p, "claim", c, Orders(c) # {} /\ AllTurbo(Orders(c)), {})
    /\ UNCHANGED <<courseVars, orderVars, turboVars, doubt>>

(* Atomic claim: one backend only subcontracts.                            *)
Claim(p) ==
    LET c == req[p].course IN
    /\ At(p, "claim")
    /\ IF statut[c] = "PENDING_ASSIGNMENT" /\ ~escalated[c]
       THEN escalated' = [escalated EXCEPT ![c] = TRUE] /\ Step(p, "lots")
       ELSE Return(p) /\ UNCHANGED escalated
    /\ UNCHANGED <<statut, reference, orderVars, turboVars, doubt>>

(* The deliveries still to be made; without any, the claim is released.    *)
Lots(p) ==
    LET lot == Active(req[p].course) IN
    /\ At(p, "lots")
    /\ Goto(p, [req[p] EXCEPT !.step = IF lot = {} THEN "release" ELSE "flip", !.lot = lot])
    /\ UNCHANGED <<courseVars, orderVars, turboVars, doubt>>

Release(p) ==
    /\ At(p, "release")
    /\ escalated' = [escalated EXCEPT ![req[p].course] = FALSE]
    /\ Return(p)
    /\ UNCHANGED <<statut, reference, orderVars, turboVars, doubt>>

SetService(S, s) == service' = [o \in Order |-> IF o \in S THEN s ELSE service[o]]

(* The orders become Turbo's before the call, which sends no other.        *)
Flip(p) ==
    /\ At(p, "flip")
    /\ SetService(req[p].lot, "TURBO")
    /\ Step(p, "group")
    /\ UNCHANGED <<courseVars, course_id, delivery, courier, status, turboVars, doubt>>

(* creerCourseGroupe reads the course again: its reference, and every      *)
(* order of it that is READY and Turbo's, whatever its delivery.           *)
GroupRead(p) ==
    LET c == req[p].course
        eligibles == {o \in Orders(c) : status[o] = "READY" /\ service[o] = "TURBO"} IN
    /\ At(p, "group")
    /\ Goto(p, IF eligibles = {} THEN [req[p] EXCEPT !.step = "failed"]
               ELSE [req[p] EXCEPT !.step = "post", !.ref = reference[c], !.sent = eligibles])
    /\ UNCHANGED <<courseVars, orderVars, turboVars, doubt>>

(* Turbo receives the post: a new group, or a replay that changes nothing. *)
Receive(r, S) ==
    IF group[r] = "none"
    THEN /\ group'   = [group EXCEPT ![r] = "open"]
         /\ members' = [members EXCEPT ![r] = S]
    ELSE UNCHANGED <<group, members>>

PostAnswered(p) ==
    /\ At(p, "post")
    /\ Receive(req[p].ref, req[p].sent)
    /\ Step(p, "settle")
    /\ UNCHANGED <<courseVars, orderVars, hooks, doubt>>

(* Turbo answers an error: it has created nothing.                         *)
PostRejected(p) ==
    /\ At(p, "post")
    /\ Step(p, "failed")
    /\ UNCHANGED <<courseVars, orderVars, turboVars, doubt>>

(* Time-out, cut, unexpected exception: Turbo has received it, or not.     *)
PostLost(p) ==
    /\ At(p, "post")
    /\ Receive(req[p].ref, req[p].sent) \/ UNCHANGED <<group, members>>
    /\ Step(p, "doubt")
    /\ UNCHANGED <<courseVars, orderVars, hooks, doubt>>

(* The claim is kept and a human has to decide.                            *)
Doubt(p) ==
    /\ At(p, "doubt")
    /\ doubt' = [doubt EXCEPT ![req[p].course] = @ \cup {"bell"}]
    /\ Return(p)
    /\ UNCHANGED <<courseVars, orderVars, turboVars>>

(* Sent: the orders left out go back to the internal fleet, except those   *)
(* of a course that was Turbo's from the start.                            *)
Settle(p) ==
    /\ At(p, "settle")
    /\ SetService(IF req[p].native THEN {} ELSE req[p].lot \ req[p].sent, "CHICKEN_NATION")
    /\ Return(p)
    /\ UNCHANGED <<courseVars, course_id, delivery, courier, status, turboVars, doubt>>

(* Mutants of Failed: the orders get no fleet back (1), the claim is not   *)
(* released (2).                                                           *)
FailedNoFleet(p) ==
    /\ At(p, "failed")
    /\ SetService(IF req[p].native THEN {} ELSE req[p].lot, NONE)
    /\ escalated' = [escalated EXCEPT ![req[p].course] = FALSE]
    /\ Return(p)
    /\ UNCHANGED <<statut, reference, course_id, delivery, courier, status, turboVars, doubt>>

FailedKeepsClaim(p) ==
    /\ At(p, "failed")
    /\ SetService(IF req[p].native THEN {} ELSE req[p].lot, "CHICKEN_NATION")
    /\ Return(p)
    /\ UNCHANGED <<courseVars, course_id, delivery, courier, status, turboVars, doubt>>

(* Nothing was sent for certain: the claim is released, and the orders of  *)
(* an internal course with it.                                             *)
Failed(p) ==
    /\ At(p, "failed")
    /\ SetService(IF req[p].native THEN {} ELSE req[p].lot, "CHICKEN_NATION")
    /\ escalated' = [escalated EXCEPT ![req[p].course] = FALSE]
    /\ Return(p)
    /\ UNCHANGED <<statut, reference, course_id, delivery, courier, status, turboVars, doubt>>

-----------------------------------------------------------------------------
(* revenirEnInterne *)

(* Local guards: subcontracted, not taken as far as the webhooks tell.     *)
TakeBackRead(p, c) ==
    /\ "takeback" \in Ops
    /\ escalated[c]
    /\ statut[c] = "PENDING_ASSIGNMENT"
    /\ \A o \in Orders(c) : ~courier[o]
    /\ Free(p)
    /\ Goto(p, [Idle EXCEPT !.step = "annuler", !.course = c, !.lot = Orders(c),
                            !.ref = reference[c]])
    /\ UNCHANGED <<courseVars, orderVars, turboVars, doubt>>

(* annulerCourseGroupe: 409 for a taken group, 200 for an open or already  *)
(* cancelled one, 404 for an unknown reference, which counts as success.   *)
Annuler(p) ==
    LET r == req[p].ref IN
    /\ At(p, "annuler")
    /\ IF group[r] = "taken"
       THEN Return(p) /\ UNCHANGED group
       ELSE /\ group' = [group EXCEPT ![r] = IF @ = "open" THEN "cancelled" ELSE @]
            /\ Step(p, "takeback")
    /\ UNCHANGED <<courseVars, orderVars, members, hooks, doubt>>

(* Mutant of AnnulerLost: a lost answer is taken for a success.            *)
AnnulerLostOk(p) ==
    LET r == req[p].ref IN
    /\ At(p, "annuler")
    /\ \/ UNCHANGED group
       \/ group[r] = "open" /\ group' = [group EXCEPT ![r] = "cancelled"]
    /\ Step(p, "takeback")
    /\ UNCHANGED <<courseVars, orderVars, members, hooks, doubt>>

(* The answer is lost, or any other status: the take-back is refused.      *)
AnnulerLost(p) ==
    LET r == req[p].ref IN
    /\ At(p, "annuler")
    /\ \/ UNCHANGED group
       \/ group[r] = "open" /\ group' = [group EXCEPT ![r] = "cancelled"]
    /\ Return(p)
    /\ UNCHANGED <<courseVars, orderVars, members, hooks, doubt>>

(* Mutant of TakeBackWrite: the course keeps its reference.                *)
TakeBackSameReference(p) ==
    /\ At(p, "takeback")
    /\ SetService(req[p].lot, "CHICKEN_NATION")
    /\ escalated' = [escalated EXCEPT ![req[p].course] = FALSE]
    /\ Return(p)
    /\ UNCHANGED <<statut, reference, course_id, delivery, courier, status, turboVars, doubt>>

(* Orders and course come back; the reference is changed, since Turbo will *)
(* ignore the old one for ever.  CourseOffers then seeks a livreur.        *)
TakeBackWrite(p) ==
    LET c == req[p].course IN
    /\ At(p, "takeback")
    /\ SetService(req[p].lot, "CHICKEN_NATION")
    /\ escalated' = [escalated EXCEPT ![c] = FALSE]
    /\ \E r \in Ref : Fresh(r) /\ reference' = [reference EXCEPT ![c] = r]
    /\ Return(p)
    /\ UNCHANGED <<statut, course_id, delivery, courier, status, turboVars, doubt>>

-----------------------------------------------------------------------------
(* relancerCourseAnnulee *)

RelanceRead(p, c) ==
    LET relancables == {o \in Orders(c) : delivery[o] = "CANCELLED" /\ status[o] = "READY"} IN
    /\ "relance" \in Ops
    /\ relancables # {}
    /\ Begin(p, "relance", c, AllTurbo(relancables), relancables)
    /\ UNCHANGED <<courseVars, orderVars, turboVars, doubt>>

(* A new course, still empty, with a reference of its own.                 *)
RelanceCreate(p) ==
    /\ At(p, "relance")
    /\ \E n \in Course, r \in Ref :
          /\ statut[n] = "ABSENT"
          /\ Fresh(r)
          /\ statut' = [statut EXCEPT ![n] = "PENDING_ASSIGNMENT"]
          /\ reference' = [reference EXCEPT ![n] = r]
          /\ Goto(p, [req[p] EXCEPT !.step = "move", !.course = n, !.source = req[p].course])
    /\ UNCHANGED <<escalated, orderVars, turboVars, doubt>>

(* Mutant of RelanceMove: the empty course is not deleted when the claim   *)
(* is lost.                                                                *)
RelanceMoveNoDelete(p) ==
    LET r == req[p] IN
    /\ At(p, "move")
    /\ IF \A o \in r.lot : course_id[o] = r.source /\ delivery[o] = "CANCELLED"
       THEN /\ course_id' = [o \in Order |-> IF o \in r.lot THEN r.course ELSE course_id[o]]
            /\ delivery'  = [o \in Order |-> IF o \in r.lot THEN "PENDING" ELSE delivery[o]]
            /\ courier'   = [o \in Order |-> o \notin r.lot /\ courier[o]]
            /\ IF r.native THEN Step(p, "claim") ELSE Return(p)
       ELSE Return(p) /\ UNCHANGED <<course_id, delivery, courier>>
    /\ UNCHANGED <<courseVars, service, status, turboVars, doubt>>

(* Every delivery is claimed on its course and its statut, or none is.     *)
RelanceMove(p) ==
    LET r == req[p] IN
    /\ At(p, "move")
    /\ IF \A o \in r.lot : course_id[o] = r.source /\ delivery[o] = "CANCELLED"
       THEN /\ course_id' = [o \in Order |-> IF o \in r.lot THEN r.course ELSE course_id[o]]
            /\ delivery'  = [o \in Order |-> IF o \in r.lot THEN "PENDING" ELSE delivery[o]]
            /\ courier'   = [o \in Order |-> o \notin r.lot /\ courier[o]]
            /\ IF r.native THEN Step(p, "claim") ELSE Return(p)
       ELSE Step(p, "delete") /\ UNCHANGED <<course_id, delivery, courier>>
    /\ UNCHANGED <<courseVars, service, status, turboVars, doubt>>

RelanceDelete(p) ==
    /\ At(p, "delete")
    /\ statut' = [statut EXCEPT ![req[p].course] = "DELETED"]
    /\ Return(p)
    /\ UNCHANGED <<escalated, reference, orderVars, turboVars, doubt>>

-----------------------------------------------------------------------------
(* Webhooks *)

(* resolveDelivery and isStaleForCourse: a webhook that names another      *)
(* reference than the course the delivery is on now is ignored.            *)
Current(o, r) == course_id[o] # NONE /\ reference[course_id[o]] = r

Consume(h) == hooks' = IF Replay THEN hooks ELSE hooks \ {h}

AssignedRead(p, h) ==
    /\ h.kind = "assigned"
    /\ Free(p)
    /\ Consume(h)
    /\ IF Current(h.order, h.ref)
       THEN Goto(p, [Idle EXCEPT !.step = "assigned", !.order = h.order,
                                 !.course = course_id[h.order]])
       ELSE UNCHANGED req
    /\ UNCHANGED <<courseVars, orderVars, group, members, doubt>>

AssignedWrite(p) ==
    /\ At(p, "assigned")
    /\ courier' = [courier EXCEPT ![req[p].order] = TRUE]
    /\ Step(p, "advance")
    /\ UNCHANGED <<courseVars, course_id, delivery, service, status, turboVars, doubt>>

(* advanceCourse(ACCEPTED): only forwards, by a read and then an update.   *)
AdvanceRead(p) ==
    /\ At(p, "advance")
    /\ IF statut[req[p].course] = "PENDING_ASSIGNMENT" THEN Step(p, "advance_write") ELSE Return(p)
    /\ UNCHANGED <<courseVars, orderVars, turboVars, doubt>>

AdvanceWrite(p) ==
    /\ At(p, "advance_write")
    /\ statut' = [statut EXCEPT ![req[p].course] = "ACCEPTED"]
    /\ Return(p)
    /\ UNCHANGED <<escalated, reference, orderVars, turboVars, doubt>>

(* cancelled, scope of one order: the delivery is read with its course.    *)
DroppedRead(p, h) ==
    /\ h.kind = "cancelled" /\ h.order # NONE
    /\ Free(p)
    /\ Consume(h)
    /\ IF Current(h.order, h.ref)
       THEN Goto(p, [Idle EXCEPT !.step = "dropped", !.order = h.order,
                                 !.course = course_id[h.order]])
       ELSE UNCHANGED req
    /\ UNCHANGED <<courseVars, orderVars, group, members, doubt>>

(* Claim on the statut of the delivery, not on its course.                 *)
DroppedWrite(p) ==
    LET o == req[p].order IN
    /\ At(p, "dropped")
    /\ IF delivery[o] = "PENDING"
       THEN delivery' = [delivery EXCEPT ![o] = "CANCELLED"] /\ Step(p, "left")
       ELSE Return(p) /\ UNCHANGED delivery
    /\ UNCHANGED <<courseVars, course_id, courier, service, status, turboVars, doubt>>

(* cancelled, scope of the group: the course is found by its reference.    *)
GroupDroppedRead(p, h) ==
    /\ h.kind = "cancelled" /\ h.order = NONE
    /\ Free(p)
    /\ Consume(h)
    /\ \/ \E c \in Course :
             /\ reference[c] = h.ref
             /\ Goto(p, [Idle EXCEPT !.step = "dropped_group", !.course = c])
       \/ (\A c \in Course : reference[c] # h.ref) /\ UNCHANGED req
    /\ UNCHANGED <<courseVars, orderVars, group, members, doubt>>

CancelActive(c) == delivery' = [o \in Order |-> IF o \in Active(c) THEN "CANCELLED" ELSE delivery[o]]

GroupDroppedWrite(p) ==
    /\ At(p, "dropped_group")
    /\ CancelActive(req[p].course)
    /\ Step(p, "left")
    /\ UNCHANGED <<courseVars, course_id, courier, service, status, turboVars, doubt>>

(* cancelCourseIfNoDeliveryLeft: a count, then a claim.                    *)
Left(p) ==
    /\ At(p, "left")
    /\ IF Active(req[p].course) = {} THEN Step(p, "cancel_course") ELSE Return(p)
    /\ UNCHANGED <<courseVars, orderVars, turboVars, doubt>>

CancelEmptied(p) ==
    LET c == req[p].course IN
    /\ At(p, "cancel_course")
    /\ statut' = [statut EXCEPT ![c] = IF @ \in Terminal \cup NoRow THEN @ ELSE "CANCELLED"]
    /\ Return(p)
    /\ UNCHANGED <<escalated, reference, orderVars, turboVars, doubt>>

-----------------------------------------------------------------------------
(* The rest of the back end, as far as it touches this state *)

(* cancelCourse.  Its update of the orders finds none left to cancel, and  *)
(* Turbo is not told.                                                      *)
CancelRead(p, c) ==
    /\ "annule" \in Ops
    /\ statut[c] \notin Terminal \cup NoRow
    /\ Begin(p, "cancel", c, FALSE, {})
    /\ UNCHANGED <<courseVars, orderVars, turboVars, doubt>>

CancelWrite(p) ==
    /\ At(p, "cancel")
    /\ statut' = [statut EXCEPT ![req[p].course] = IF @ \in NoRow THEN @ ELSE "CANCELLED"]
    /\ CancelActive(req[p].course)
    /\ Return(p)
    /\ UNCHANGED <<escalated, reference, course_id, courier, service, status, turboVars, doubt>>

(* acceptOffer: the answer to an offer of CourseOffers, which may still be *)
(* open on a course that is subcontracted or cancelled.                    *)
InternalAccept(c) ==
    /\ statut[c] \in {"PENDING_ASSIGNMENT", "CANCELLED"}
    /\ statut' = [statut EXCEPT ![c] = "ACCEPTED"]
    /\ UNCHANGED <<escalated, reference, orderVars, turboVars, req, doubt>>

(* OrderService.updateStatus: an order is cancelled by hand.               *)
CancelOrder(o) ==
    /\ "commande" \in Ops
    /\ status[o] = "READY"
    /\ status' = [status EXCEPT ![o] = "CANCELLED"]
    /\ UNCHANGED <<courseVars, course_id, delivery, courier, service, turboVars, req, doubt>>

(* A backend stops; bound: one request is lost in a behaviour.             *)
Crash(p) ==
    /\ CanCrash
    /\ \A c \in Course : "crash" \notin doubt[c]
    /\ ~Free(p)
    /\ doubt' = [doubt EXCEPT ![req[p].course] = @ \cup {"crash"}]
    /\ Return(p)
    /\ UNCHANGED <<courseVars, orderVars, turboVars>>

-----------------------------------------------------------------------------
(* Turbo *)

TurboTake(r) ==
    /\ group[r] = "open"
    /\ group' = [group EXCEPT ![r] = "taken"]
    /\ hooks' = hooks \cup {[kind |-> "assigned", ref |-> r, order |-> o] : o \in members[r]}
    /\ UNCHANGED <<courseVars, orderVars, members, req, doubt>>

TurboCancel(r) ==
    /\ "group" \in TurboDrops
    /\ Live(r)
    /\ group' = [group EXCEPT ![r] = "cancelled"]
    /\ hooks' = hooks \cup {[kind |-> "cancelled", ref |-> r, order |-> NONE]}
    /\ UNCHANGED <<courseVars, orderVars, members, req, doubt>>

TurboDrop(r, o) ==
    /\ "order" \in TurboDrops
    /\ Live(r)
    /\ o \in members[r]
    /\ members' = [members EXCEPT ![r] = @ \ {o}]
    /\ group' = [group EXCEPT ![r] = IF members[r] = {o} THEN "cancelled" ELSE @]
    /\ hooks' = hooks \cup {[kind |-> "cancelled", ref |-> r, order |-> o]}
    /\ UNCHANGED <<courseVars, orderVars, req, doubt>>

-----------------------------------------------------------------------------
Escalate(p) == \/ Claim(p) \/ Lots(p) \/ Release(p) \/ Flip(p) \/ GroupRead(p)
               \/ PostAnswered(p) \/ PostRejected(p) \/ PostLost(p)
               \/ Doubt(p) \/ Settle(p) \/ Failed(p)
TakeBack(p) == Annuler(p) \/ AnnulerLost(p) \/ TakeBackWrite(p)
Relance(p)  == RelanceCreate(p) \/ RelanceMove(p) \/ RelanceDelete(p)
Handle(p)   == \/ AssignedWrite(p) \/ AdvanceRead(p) \/ AdvanceWrite(p) \/ DroppedWrite(p)
               \/ GroupDroppedWrite(p) \/ Left(p) \/ CancelEmptied(p)

Arrive(p) == \/ \E c \in Course, S \in SUBSET Order : Create(p, c, S)
             \/ \E c \in Course : \/ EscalateRead(p, c) \/ TakeBackRead(p, c)
                                  \/ RelanceRead(p, c) \/ CancelRead(p, c)
             \/ \E h \in hooks : AssignedRead(p, h) \/ DroppedRead(p, h) \/ GroupDroppedRead(p, h)

Turbo == \E r \in Ref : TurboTake(r) \/ TurboCancel(r) \/ \E o \in Order : TurboDrop(r, o)

Next == \/ \E p \in Req : \/ Arrive(p) \/ Escalate(p) \/ TakeBack(p) \/ Relance(p)
                          \/ Handle(p) \/ CancelWrite(p) \/ Crash(p)
        \/ \E c \in Course : InternalAccept(c)
        \/ \E o \in Order : CancelOrder(o)
        \/ Turbo

Spec == Init /\ [][Next]_vars

-----------------------------------------------------------------------------
(* Properties *)

(* Every variable has its type.                                            *)
TypeOK ==
    /\ statut    \in [Course -> {"PENDING_ASSIGNMENT", "ACCEPTED", "CANCELLED"} \cup NoRow]
    /\ escalated \in [Course -> BOOLEAN]
    /\ reference \in [Course -> Ref \cup {NONE}]
    /\ course_id \in [Order -> Course \cup {NONE}]
    /\ delivery  \in [Order -> {"PENDING", "CANCELLED"}]
    /\ courier   \in [Order -> BOOLEAN]
    /\ service   \in [Order -> {"CHICKEN_NATION", "TURBO"}]
    /\ status    \in [Order -> {"READY", "CANCELLED"}]
    /\ group     \in [Ref -> {"none", "open", "taken", "cancelled"}]
    /\ members   \in [Ref -> SUBSET Order]
    /\ hooks     \in SUBSET Hook
    /\ req       \in [Req -> Request]
    /\ doubt     \in [Course -> SUBSET {"bell", "crash"}]

(* An order that is in a live group at Turbo is nobody else's: it is       *)
(* Turbo's, on a subcontracted course whose reference is the group's, so   *)
(* that the internal search leaves it alone and the group's webhooks are   *)
(* not taken for stale ones (escalateToTurbo, revenirEnInterne).           *)
GroupIsFollowed ==
    \A r \in Ref, o \in Order : Live(r) /\ o \in members[r] =>
        /\ Current(o, r)
        /\ escalated[course_id[o]]
        /\ service[o] = "TURBO"

(* A reference Turbo has cancelled is never posted again: the post would   *)
(* be accepted as a replay and no livreur would ever come                  *)
(* (revenirEnInterne, step 3; relancerCourseAnnulee).                      *)
NoDeadReference == \A p \in Req : At(p, "post") => group[req[p].ref] # "cancelled"

(* A course is not left with Turbo when Turbo does not have it: unless a   *)
(* request is at work, or the staff was told to check, a subcontracted     *)
(* course that waits for its livreur has a group at Turbo                  *)
(* (escalateToTurbo: "on ne perd jamais la commande").                     *)
NoSilentStranding ==
    (\A p \in Req : Free(p)) =>
        \A c \in Course : statut[c] = "PENDING_ASSIGNMENT" /\ escalated[c] /\ "bell" \notin doubt[c]
                             => group[reference[c]] # "none"

(* Two operators who relaunch the same course do not leave an empty course *)
(* behind: at rest, a course that seeks a livreur carries a delivery,      *)
(* unless a backend stopped in the middle (relancerCourseAnnulee).         *)
NoGhostCourse ==
    (\A p \in Req : Free(p)) =>
        \A c \in Course : statut[c] = "PENDING_ASSIGNMENT" /\ "crash" \notin doubt[c]
                             => Orders(c) # {}

=============================================================================
