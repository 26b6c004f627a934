---------------------------- MODULE CourseOffers ----------------------------
(***************************************************************************)
(* Dispatch of courses to the internal deliverers ("livreurs"):            *)
(* CourseOfferService, the offer half of CourseActionService, and the      *)
(* crons of CourseTask that drive them.                                    *)
(*                                                                         *)
(* The tables Course and CourseOfferAttempt live in one PostgreSQL shared  *)
(* by two backend instances.  A request or a cron run is a sequence of     *)
(* statements separated by awaits: every statement (or $transaction) is    *)
(* one action here, and what a request has read and still uses is kept in  *)
(* req[p], so that the statements of any two requests interleave freely.   *)
(*                                                                         *)
(* Abstracted: the ranking of candidates (any livreur the query does not   *)
(* exclude may come out first, or none), and the wall clock (each offer    *)
(* and each waiting course ages through the thresholds the code compares   *)
(* it with).  Courses are those of the internal fleet; what Turbo does     *)
(* with a subcontracted one is the business of TurboEscalation.            *)
(***************************************************************************)
EXTENDS Naturals, FiniteSets

CONSTANTS
    Course,       \* ids of courses
    Livreur,      \* internal deliverers
    Offer,        \* primary keys of CourseOfferAttempt
    Req,          \* concurrent executions (HTTP requests, cron runs) of both backends
    NONE,         \* SQL null
    MaxRefusals,  \* course.max_refusal_count
    TurboAfter,   \* course.turbo_fallback_after_min, in ticks
    AlertAfter,   \* course.no_deliverer_alert_after_min, in ticks
    MaxWait,      \* course.no_deliverer_max_wait_min, in ticks
    AdminOps,     \* back-office operations the instance exercises
    CanCrash      \* may a backend stop in the middle of a request?

ASSUME NoneAssumption == NONE \notin Course \cup Livreur \cup Offer
ASSUME WaitAssumption == /\ {MaxRefusals, TurboAfter, AlertAfter, MaxWait} \subseteq Nat
                         /\ MaxWait >= 1
ASSUME SwitchAssumption == /\ AdminOps \subseteq {"force", "turbo", "relance"}
                           /\ CanCrash \in BOOLEAN

VARIABLES
    statut,       \* Course.statut ("ABSENT": no such row yet)
    livreur,      \* Course.deliverer_id
    refusals,     \* Course.refusal_count
    escalated,    \* Course.turbo_escalated_at is set
    attente,      \* waiting time since Course.created_at
    alerted,      \* Course.no_deliverer_alerted_at is set
    row,          \* the table CourseOfferAttempt
    req,          \* requests in flight
    bells,        \* history: "no deliverer" bells rung for the course
    pushes        \* history: reminders pushed for the offer

courseVars == <<statut, livreur, refusals, escalated, attente, alerted>>
vars == <<statut, livreur, refusals, escalated, attente, alerted, row, req, bells, pushes>>

-----------------------------------------------------------------------------
(* Data *)

CourseStatut == {"ABSENT", "PENDING_ASSIGNMENT", "ACCEPTED", "CANCELLED", "EXPIRED"}
Terminal     == {"COMPLETED", "CANCELLED", "EXPIRED"}
OfferStatus  == {"FREE", "PENDING", "ACCEPTED", "REFUSED", "EXPIRED"}

(* Seconds since the offer was sent, cut at the two reminder thresholds    *)
(* (30 s, 60 s) and at expires_at (120 s by default).                      *)
EXPIRY == 3
Ages   == 0..EXPIRY

Row == [course: Course \cup {NONE}, livreur: Livreur \cup {NONE},
        status: OfferStatus, age: Ages, reminders: 0..2]

FreeRow == [course |-> NONE, livreur |-> NONE, status |-> "FREE", age |-> 0, reminders |-> 0]

(* How many reminder thresholds an offer of this age has passed.           *)
Dus(age) == IF age = 0 THEN 0 ELSE IF age = 1 THEN 1 ELSE 2

Steps == {"idle", "accept", "refuse", "refuse_count", "expire", "expire_count", "remind",
          "next_course", "next_pending", "next_expire", "next_pick", "next_offer",
          "retry", "retry_alert", "claim", "turbo", "relance", "cancel"}

(* Local variables of a request: the step it is at, its course, livreur    *)
(* and offer, a number it has read, the offers and the courses its loop    *)
(* still holds, and for the retry cron what its query saw of them.         *)
Request == [step: Steps, loop: {"none", "expire", "retry"},
            course: Course \cup {NONE}, livreur: Livreur \cup {NONE}, offer: Offer \cup {NONE},
            lu: Nat, lot: SUBSET Offer, todo: SUBSET Course,
            murs: SUBSET Course, bascule: SUBSET Course, alerte: SUBSET Course]

Idle == [step |-> "idle", loop |-> "none", course |-> NONE, livreur |-> NONE, offer |-> NONE,
         lu |-> 0, lot |-> {}, todo |-> {}, murs |-> {}, bascule |-> {}, alerte |-> {}]

IsPending(o, c)  == row[o].status = "PENDING" /\ row[o].course = c
IsLive(o)        == row[o].status = "PENDING" /\ row[o].age < EXPIRY
LiveOffer(c)     == \E o \in Offer : IsPending(o, c) /\ IsLive(o)
PendingPair(c, d) == \E o \in Offer : IsPending(o, c) /\ row[o].livreur = d
Tried(c)         == {row[o].livreur : o \in {x \in Offer : row[x].course = c}}

-----------------------------------------------------------------------------
(* Control of a request *)

Free(p)    == req[p].step = "idle"
At(p, s)   == req[p].step = s
Goto(p, r) == req' = [req EXCEPT ![p] = r]
Step(p, s) == Goto(p, [req[p] EXCEPT !.step = s])

(* End of the treatment of one course: the cron loops take the next one,   *)
(* a request returns.                                                      *)
After(r) == IF r.todo = {} THEN Idle
            ELSE [r EXCEPT !.step = IF r.loop = "expire" THEN "expire_count" ELSE "retry",
                           !.course = NONE, !.livreur = NONE, !.offer = NONE, !.lu = 0]
Return(p) == Goto(p, After(req[p]))

Begin(p, s, c) == /\ Free(p)
                  /\ Goto(p, [Idle EXCEPT !.step = s, !.course = c])

-----------------------------------------------------------------------------
(* Tables *)

(* A settled offer: its age and its reminders are never read again, so     *)
(* they are forgotten with it.                                             *)
Settled(o, s)  == [row[o] EXCEPT !.status = s, !.age = 0, !.reminders = 0]
SetOffer(o, s) == /\ row' = [row EXCEPT ![o] = Settled(o, s)]
                  /\ pushes' = [pushes EXCEPT ![o] = 0]

(* The create of offerToDeliverer: the check of the transaction and the    *)
(* partial unique index together refuse a second PENDING row of the pair.  *)
CreateOffer(c, d) ==
    IF PendingPair(c, d)
    THEN UNCHANGED row
    ELSE \E o \in Offer :
            /\ row[o].status = "FREE"
            /\ row' = [row EXCEPT ![o] = [course |-> c, livreur |-> d, status |-> "PENDING",
                                          age |-> 0, reminders |-> 0]]

-----------------------------------------------------------------------------
Init ==
    /\ statut    = [c \in Course |-> "ABSENT"]
    /\ livreur   = [c \in Course |-> NONE]
    /\ refusals  = [c \in Course |-> 0]
    /\ escalated = [c \in Course |-> FALSE]
    /\ attente   = [c \in Course |-> 0]
    /\ alerted   = [c \in Course |-> FALSE]
    /\ row       = [o \in Offer |-> FreeRow]
    /\ req       = [p \in Req |-> Idle]
    /\ bells     = [c \in Course |-> 0]
    /\ pushes    = [o \in Offer |-> 0]

(* createFromReadyOrders: the course is inserted, then a livreur is sought.*)
Create(p, c) ==
    /\ statut[c] = "ABSENT"
    /\ statut' = [statut EXCEPT ![c] = "PENDING_ASSIGNMENT"]
    /\ Begin(p, "next_course", c)
    /\ UNCHANGED <<livreur, refusals, escalated, attente, alerted, row, bells, pushes>>

-----------------------------------------------------------------------------
(* offerNextDeliverer *)

(* Read the course; nothing to do unless it still awaits a livreur.        *)
NextCourse(p) ==
    LET c == req[p].course IN
    /\ At(p, "next_course")
    /\ IF statut[c] = "PENDING_ASSIGNMENT"
       THEN Goto(p, [req[p] EXCEPT !.step = "next_pending", !.lu = refusals[c]])
       ELSE Return(p)
    /\ UNCHANGED <<courseVars, row, bells, pushes>>

(* Look for a live PENDING offer; then compare the refusals read before    *)
(* with the ceiling.                                                       *)
NextPending(p) ==
    /\ At(p, "next_pending")
    /\ IF LiveOffer(req[p].course) THEN Return(p)
       ELSE Step(p, IF req[p].lu >= MaxRefusals THEN "next_expire" ELSE "next_pick")
    /\ UNCHANGED <<courseVars, row, bells, pushes>>

(* Too many refusals: the update to EXPIRED has no condition on statut.    *)
NextExpire(p) ==
    /\ At(p, "next_expire")
    /\ statut' = [statut EXCEPT ![req[p].course] = "EXPIRED"]
    /\ Return(p)
    /\ UNCHANGED <<livreur, refusals, escalated, attente, alerted, row, bells, pushes>>

(* Exclude whoever was offered this course already; the best of the others *)
(* is found, or nobody and the course stays as it is.                      *)
NextPick(p) ==
    /\ At(p, "next_pick")
    /\ \/ Return(p)
       \/ \E d \in Livreur \ Tried(req[p].course) :
             Goto(p, [req[p] EXCEPT !.step = "next_offer", !.livreur = d])
    /\ UNCHANGED <<courseVars, row, bells, pushes>>

NextOffer(p) ==
    /\ At(p, "next_offer")
    /\ CreateOffer(req[p].course, req[p].livreur)
    /\ Return(p)
    /\ UNCHANGED <<courseVars, bells, pushes>>

-----------------------------------------------------------------------------
(* The livreur answers *)

AcceptRead(p, o) ==
    /\ IsLive(o)
    /\ Free(p)
    /\ Goto(p, [Idle EXCEPT !.step = "accept", !.course = row[o].course,
                            !.livreur = row[o].livreur, !.offer = o])
    /\ UNCHANGED <<courseVars, row, bells, pushes>>

(* Both updates are by primary key, whatever the offer and the course have *)
(* become; an offer row deleted meanwhile aborts the transaction.          *)
AcceptWrite(p) ==
    LET r == req[p] IN
    /\ At(p, "accept")
    /\ IF row[r.offer].status = "FREE"
       THEN UNCHANGED <<statut, livreur, row, pushes>>
       ELSE /\ SetOffer(r.offer, "ACCEPTED")
            /\ statut'  = [statut EXCEPT ![r.course] = "ACCEPTED"]
            /\ livreur' = [livreur EXCEPT ![r.course] = r.livreur]
    /\ Return(p)
    /\ UNCHANGED <<refusals, escalated, attente, alerted, bells>>

(* A refusal is admitted on any PENDING offer, expired or not.             *)
RefuseRead(p, o) ==
    /\ row[o].status = "PENDING"
    /\ Free(p)
    /\ Goto(p, [Idle EXCEPT !.step = "refuse", !.course = row[o].course, !.offer = o])
    /\ UNCHANGED <<courseVars, row, bells, pushes>>

RefuseWrite(p) ==
    /\ At(p, "refuse")
    /\ IF row[req[p].offer].status = "FREE"
       THEN Return(p) /\ UNCHANGED <<row, pushes>>
       ELSE Step(p, "refuse_count") /\ SetOffer(req[p].offer, "REFUSED")
    /\ UNCHANGED <<courseVars, bells>>

(* refusal_count is only compared with the ceiling, so it stops there.     *)
CountRefusal(c) ==
    /\ refusals' = [refusals EXCEPT ![c] = IF @ < MaxRefusals THEN @ + 1 ELSE @]
    /\ UNCHANGED <<statut, livreur, escalated, attente, alerted, row, bells, pushes>>

RefuseCount(p) ==
    /\ At(p, "refuse_count")
    /\ CountRefusal(req[p].course)
    /\ Step(p, "next_course")

-----------------------------------------------------------------------------
(* Cron expirePendingOffers (every 10 s on each backend) *)

(* Mutant of ExpireRead: only the courses still waiting are looked at.     *)
ExpireReadWaiting(p) ==
    LET lot == {o \in Offer : /\ row[o].status = "PENDING" /\ row[o].age = EXPIRY
                              /\ statut[row[o].course] = "PENDING_ASSIGNMENT"} IN
    /\ lot # {}
    /\ Free(p)
    /\ Goto(p, [Idle EXCEPT !.step = "expire", !.loop = "expire", !.lot = lot,
                            !.todo = {row[o].course : o \in lot}])
    /\ UNCHANGED <<courseVars, row, bells, pushes>>

ExpireRead(p) ==
    LET lot == {o \in Offer : row[o].status = "PENDING" /\ row[o].age = EXPIRY} IN
    /\ lot # {}
    /\ Free(p)
    /\ Goto(p, [Idle EXCEPT !.step = "expire", !.loop = "expire", !.lot = lot,
                            !.todo = {row[o].course : o \in lot}])
    /\ UNCHANGED <<courseVars, row, bells, pushes>>

(* updateMany by id: an offer answered since the read is overwritten.      *)
ExpireWrite(p) ==
    /\ At(p, "expire")
    /\ row' = [o \in Offer |-> IF o \in req[p].lot /\ row[o].status # "FREE"
                               THEN Settled(o, "EXPIRED") ELSE row[o]]
    /\ pushes' = [o \in Offer |-> IF o \in req[p].lot THEN 0 ELSE pushes[o]]
    /\ Goto(p, [req[p] EXCEPT !.step = "expire_count", !.lot = {}])
    /\ UNCHANGED <<courseVars, bells>>

ExpireCount(p) ==
    /\ At(p, "expire_count")
    /\ \E c \in req[p].todo :
          /\ CountRefusal(c)
          /\ Goto(p, [req[p] EXCEPT !.step = "next_course", !.course = c, !.todo = @ \ {c}])

-----------------------------------------------------------------------------
(* Cron remindPendingOffers (every 10 s on each backend), one offer of its *)
(* snapshot at a time: its iterations share nothing.                       *)

RemindRead(p, o) ==
    /\ IsLive(o)
    /\ Dus(row[o].age) > row[o].reminders
    /\ Free(p)
    /\ Goto(p, [Idle EXCEPT !.step = "remind", !.offer = o, !.lu = row[o].reminders,
                            !.lot = {x \in {o} : row[x].age >= 2}])
    /\ UNCHANGED <<courseVars, row, bells, pushes>>

(* Mutants of RemindClaim: the claim is not conditioned on the value read, *)
(* which is written (1) or incremented (2).                                *)
RemindClaimAny(p) ==
    LET o == req[p].offer IN
    /\ At(p, "remind")
    /\ IF row[o].status = "PENDING"
       THEN /\ row' = [row EXCEPT ![o].reminders = IF o \in req[p].lot THEN 2 ELSE 1]
            /\ pushes' = [pushes EXCEPT ![o] = @ + 1]
       ELSE UNCHANGED <<row, pushes>>
    /\ Goto(p, Idle)
    /\ UNCHANGED <<courseVars, bells>>

RemindClaimIncrement(p) ==
    LET o == req[p].offer IN
    /\ At(p, "remind")
    /\ IF row[o].status = "PENDING"
       THEN /\ row' = [row EXCEPT ![o].reminders = @ + 1]
            /\ pushes' = [pushes EXCEPT ![o] = @ + 1]
       ELSE UNCHANGED <<row, pushes>>
    /\ Goto(p, Idle)
    /\ UNCHANGED <<courseVars, bells>>

(* Atomic claim on reminders_sent: only its winner pushes.                 *)
RemindClaim(p) ==
    LET o == req[p].offer IN
    /\ At(p, "remind")
    /\ IF /\ row[o].status = "PENDING"
          /\ row[o].reminders = req[p].lu
       THEN /\ row' = [row EXCEPT ![o].reminders = IF o \in req[p].lot THEN 2 ELSE 1]
            /\ pushes' = [pushes EXCEPT ![o] = @ + 1]
       ELSE UNCHANGED <<row, pushes>>
    /\ Goto(p, Idle)
    /\ UNCHANGED <<courseVars, bells>>

-----------------------------------------------------------------------------
(* Cron retryUnassignedCourses (every 30 s on each backend) *)

(* Mutant of Unassigned: a course that has been offered once is forgotten. *)
NeverOffered(c) == /\ statut[c] = "PENDING_ASSIGNMENT"
                   /\ ~escalated[c]
                   /\ Tried(c) = {}

Unassigned(c) == /\ statut[c] = "PENDING_ASSIGNMENT"
                 /\ ~escalated[c]
                 /\ ~LiveOffer(c)

RetryRead(p) ==
    LET waiting == {c \in Course : Unassigned(c)} IN
    /\ waiting # {}
    /\ Free(p)
    /\ Goto(p, [Idle EXCEPT !.step = "retry", !.loop = "retry", !.todo = waiting,
                   !.murs    = {c \in waiting : attente[c] >= MaxWait},
                   !.bascule = {c \in waiting : attente[c] >= TurboAfter},
                   !.alerte  = {c \in waiting : attente[c] >= AlertAfter /\ ~alerted[c]}])
    /\ UNCHANGED <<courseVars, row, bells, pushes>>

(* Mutant of RetryExpire: the update is not conditioned on statut.         *)
RetryExpireAny(p) ==
    /\ At(p, "retry")
    /\ \E c \in req[p].todo \cap req[p].murs :
          /\ statut' = [statut EXCEPT ![c] = "EXPIRED"]
          /\ Goto(p, After([req[p] EXCEPT !.todo = @ \ {c}]))
    /\ UNCHANGED <<livreur, refusals, escalated, attente, alerted, row, bells, pushes>>

(* Anti-zombie ceiling: expiry is a claim conditioned on statut.           *)
RetryExpire(p) ==
    /\ At(p, "retry")
    /\ \E c \in req[p].todo \cap req[p].murs :
          /\ statut' = [statut EXCEPT ![c] = IF @ = "PENDING_ASSIGNMENT" THEN "EXPIRED" ELSE @]
          /\ Goto(p, After([req[p] EXCEPT !.todo = @ \ {c}]))
    /\ UNCHANGED <<livreur, refusals, escalated, attente, alerted, row, bells, pushes>>

(* Otherwise the external fleet is tried first, once the wait is long.     *)
RetryTake(p) ==
    /\ At(p, "retry")
    /\ \E c \in req[p].todo \ req[p].murs :
          Goto(p, [req[p] EXCEPT !.step = IF c \in req[p].bascule THEN "claim" ELSE "retry_alert",
                                 !.course = c, !.todo = @ \ {c}])
    /\ UNCHANGED <<courseVars, row, bells, pushes>>

(* Mutant of RetryAlert: the bell is decided on what the query had read.   *)
RetryAlertStale(p) ==
    LET c == req[p].course
        rings == c \in req[p].alerte IN
    /\ At(p, "retry_alert")
    /\ alerted' = [alerted EXCEPT ![c] = @ \/ rings]
    /\ bells'   = [bells EXCEPT ![c] = IF rings THEN @ + 1 ELSE @]
    /\ Step(p, "next_course")
    /\ UNCHANGED <<statut, livreur, refusals, escalated, attente, row, pushes>>

(* The bell of the staff, by an atomic claim, then a new search.           *)
RetryAlert(p) ==
    LET c == req[p].course
        rings == c \in req[p].alerte /\ ~alerted[c] IN
    /\ At(p, "retry_alert")
    /\ alerted' = [alerted EXCEPT ![c] = @ \/ rings]
    /\ bells'   = [bells EXCEPT ![c] = IF rings THEN @ + 1 ELSE @]
    /\ Step(p, "next_course")
    /\ UNCHANGED <<statut, livreur, refusals, escalated, attente, row, pushes>>

-----------------------------------------------------------------------------
(* escalateToTurbo, as the internal dispatch sees it *)

(* basculerVersTurbo: the back office does not wait for the delay.         *)
TurboRead(p, c) ==
    /\ "turbo" \in AdminOps
    /\ statut[c] = "PENDING_ASSIGNMENT"
    /\ ~escalated[c]
    /\ Begin(p, "claim", c)
    /\ UNCHANGED <<courseVars, row, bells, pushes>>

(* What follows an escalation that did not take place.                     *)
AfterRefusal(p) == IF req[p].loop = "retry" THEN Step(p, "retry_alert") ELSE Return(p)

(* Mutant of TurboClaim: the claim is not conditioned on the column.       *)
TurboClaimAny(p) ==
    LET c == req[p].course IN
    /\ At(p, "claim")
    /\ IF statut[c] = "PENDING_ASSIGNMENT"
       THEN /\ escalated' = [escalated EXCEPT ![c] = TRUE]
            /\ Step(p, "turbo")
       ELSE AfterRefusal(p) /\ UNCHANGED escalated
    /\ UNCHANGED <<statut, livreur, refusals, attente, alerted, row, bells, pushes>>

TurboClaim(p) ==
    LET c == req[p].course IN
    /\ At(p, "claim")
    /\ IF statut[c] = "PENDING_ASSIGNMENT" /\ ~escalated[c]
       THEN /\ escalated' = [escalated EXCEPT ![c] = TRUE]
            /\ Step(p, "turbo")
       ELSE AfterRefusal(p) /\ UNCHANGED escalated
    /\ UNCHANGED <<statut, livreur, refusals, attente, alerted, row, bells, pushes>>

(* Turbo took the group, or may have taken it: the claim is kept.          *)
TurboKept(p) ==
    /\ At(p, "turbo")
    /\ Return(p)
    /\ UNCHANGED <<courseVars, row, bells, pushes>>

(* Turbo answered an error: the claim is released.                         *)
TurboFailed(p) ==
    /\ At(p, "turbo")
    /\ escalated' = [escalated EXCEPT ![req[p].course] = FALSE]
    /\ AfterRefusal(p)
    /\ UNCHANGED <<statut, livreur, refusals, attente, alerted, row, bells, pushes>>

-----------------------------------------------------------------------------
(* Other back-office operations *)

(* force-assign: offerToDeliverer with forceResend, on any course.         *)
ForceAssign(c, d) ==
    /\ "force" \in AdminOps
    /\ statut[c] # "ABSENT"
    /\ CreateOffer(c, d)
    /\ UNCHANGED <<courseVars, req, bells, pushes>>

(* retryExpiredCourse: the attempts are deleted, the search starts afresh. *)
RelanceRead(p, c) ==
    /\ "relance" \in AdminOps
    /\ statut[c] = "EXPIRED"
    /\ Begin(p, "relance", c)
    /\ UNCHANGED <<courseVars, row, bells, pushes>>

RelanceWrite(p) ==
    LET c == req[p].course IN
    /\ At(p, "relance")
    /\ row' = [o \in Offer |-> IF row[o].course = c THEN FreeRow ELSE row[o]]
    /\ pushes' = [o \in Offer |-> IF row[o].course = c THEN 0 ELSE pushes[o]]
    /\ statut' = [statut EXCEPT ![c] = "PENDING_ASSIGNMENT"]
    /\ refusals' = [refusals EXCEPT ![c] = 0]
    /\ Step(p, "next_course")
    /\ UNCHANGED <<livreur, escalated, attente, alerted, bells>>

(* cancelCourse, by an admin, the livreur or the auto-cancel cron.  The    *)
(* PENDING offers of the course are left as they are.                      *)
CancelRead(p, c) ==
    /\ statut[c] \notin Terminal \cup {"ABSENT"}
    /\ Begin(p, "cancel", c)
    /\ UNCHANGED <<courseVars, row, bells, pushes>>

CancelWrite(p) ==
    /\ At(p, "cancel")
    /\ statut' = [statut EXCEPT ![req[p].course] = "CANCELLED"]
    /\ Return(p)
    /\ UNCHANGED <<livreur, refusals, escalated, attente, alerted, row, bells, pushes>>

-----------------------------------------------------------------------------
(* Environment *)

AgeOffer(o) ==
    /\ IsLive(o)
    /\ row' = [row EXCEPT ![o].age = @ + 1]
    /\ UNCHANGED <<courseVars, req, bells, pushes>>

AgeCourse(c) ==
    /\ statut[c] = "PENDING_ASSIGNMENT"
    /\ attente[c] < MaxWait
    /\ attente' = [attente EXCEPT ![c] = @ + 1]
    /\ UNCHANGED <<statut, livreur, refusals, escalated, alerted, row, req, bells, pushes>>

(* A backend stops: the statements a request had not run are lost.         *)
Crash(p) ==
    /\ CanCrash
    /\ ~Free(p)
    /\ Goto(p, Idle)
    /\ UNCHANGED <<courseVars, row, bells, pushes>>

-----------------------------------------------------------------------------
OfferNext(p) == \/ NextCourse(p) \/ NextPending(p) \/ NextExpire(p)
                \/ NextPick(p) \/ NextOffer(p)

(* The continuation of a request that is in flight.                        *)
Continue(p) == \/ OfferNext(p)
               \/ AcceptWrite(p) \/ RefuseWrite(p) \/ RefuseCount(p)
               \/ ExpireWrite(p) \/ ExpireCount(p) \/ RemindClaim(p)
               \/ RetryExpire(p) \/ RetryTake(p) \/ RetryAlert(p)
               \/ TurboClaim(p) \/ TurboKept(p) \/ TurboFailed(p)
               \/ RelanceWrite(p) \/ CancelWrite(p)

(* The arrival of a request.                                               *)
Arrive(p) == \/ \E c \in Course : \/ Create(p, c) \/ TurboRead(p, c)
                                  \/ RelanceRead(p, c) \/ CancelRead(p, c)
             \/ \E o \in Offer : \/ AcceptRead(p, o) \/ RefuseRead(p, o) \/ RemindRead(p, o)

Cron(p) == ExpireRead(p) \/ RetryRead(p)

Environment == \/ \E o \in Offer : AgeOffer(o)
               \/ \E c \in Course : AgeCourse(c)
               \/ \E p \in Req : Crash(p)
               \/ \E c \in Course, d \in Livreur : ForceAssign(c, d)

Next == \/ \E p \in Req : Continue(p) \/ Arrive(p) \/ Cron(p)
        \/ Environment

Spec == Init /\ [][Next]_vars

(* Time passes, a backend in flight goes on, and each cron fires again and *)
(* again: a busy slot of Req only models another execution, it does not    *)
(* hold a timer back, hence strong fairness for the crons.                 *)
Fairness == /\ \A o \in Offer : WF_vars(AgeOffer(o))
            /\ \A c \in Course : WF_vars(AgeCourse(c))
            /\ \A p \in Req : WF_vars(Continue(p))
            /\ \A p \in Req : SF_vars(ExpireRead(p)) /\ SF_vars(RetryRead(p))

LiveSpec == Spec /\ Fairness

-----------------------------------------------------------------------------
(* Properties *)

(* Every variable has its type.                                            *)
TypeOK ==
    /\ statut    \in [Course -> CourseStatut]
    /\ livreur   \in [Course -> Livreur \cup {NONE}]
    /\ refusals  \in [Course -> 0..MaxRefusals]
    /\ escalated \in [Course -> BOOLEAN]
    /\ attente   \in [Course -> 0..MaxWait]
    /\ alerted   \in [Course -> BOOLEAN]
    /\ row       \in [Offer -> Row]
    /\ req       \in [Req -> Request]
    /\ bells     \in [Course -> Nat]
    /\ pushes    \in [Offer -> Nat]

(* At most one PENDING offer per (course, livreur), whatever mix of crons, *)
(* refusals and force-assigns creates offers (offerToDeliverer and the     *)
(* index CourseOfferAttempt_pending_unique).                               *)
OnePendingPerPair ==
    \A o1, o2 \in Offer :
        (/\ row[o1].status = "PENDING" /\ row[o2].status = "PENDING"
         /\ row[o1].course = row[o2].course /\ row[o1].livreur = row[o2].livreur) => o1 = o2

(* A reminder is never pushed twice, although both backends run the cron:  *)
(* each push has raised reminders_sent (remindPendingOffers).              *)
RemindedOnce == \A o \in Offer : pushes[o] <= row[o].reminders

(* The staff hears of a course without livreur once, although both         *)
(* backends run the retry cron (retryUnassignedCourses, step 3).           *)
AlertedOnce == \A c \in Course : bells[c] = IF alerted[c] THEN 1 ELSE 0

(* Only one execution at a time has a course in hand for Turbo, and while  *)
(* it waits for Turbo's answer nobody releases its claim                   *)
(* (escalateToTurbo: "un seul backend sous-traite").                       *)
EscalationExclusive ==
    \A p \in Req : At(p, "turbo") =>
        /\ escalated[req[p].course]
        /\ \A q \in Req : At(q, "turbo") /\ req[q].course = req[p].course => q = p

(* An accepted course is thrown back to EXPIRED by the ceiling of refusals *)
(* only, whose update is not conditioned: the anti-zombie ceiling of the   *)
(* retry cron may meet an acceptance, it does not overwrite it ("un update *)
(* non conditionne ecraserait une course entre-temps acceptee").           *)
CeilingSparesAccepted ==
    [][\A c \in Course : statut[c] = "ACCEPTED" /\ statut'[c] = "EXPIRED"
                              => \E p \in Req : NextExpire(p)]_vars

(* A course without offer that is not subcontracted does not wait forever: *)
(* it is accepted, cancelled, expired or handed to Turbo.                  *)
WaitingIsResolved ==
    \A c \in Course : (statut[c] = "PENDING_ASSIGNMENT" /\ ~escalated[c])
                         ~> (statut[c] # "PENDING_ASSIGNMENT" \/ escalated[c])

(* An offer does not stay PENDING: it is answered or expired, even when    *)
(* the livreur never opens his application.                                *)
OfferIsSettled == \A o \in Offer : row[o].status = "PENDING" ~> row[o].status # "PENDING"
-----------------------------------------------------------------------------
(* What comments of the source say, and the interleavings refute *)

(* Never two livreurs on one course: one that Turbo has in hand is not     *)
(* given to an internal livreur as well.                                   *)
NeverTwoFleets ==
    \A c \in Course : (escalated[c] /\ \A p \in Req : ~(At(p, "turbo") /\ req[p].course = c))
                          => statut[c] # "ACCEPTED"
=============================================================================
