--------------------------- MODULE CourseGrouping ---------------------------
(***************************************************************************)
(* Grouping of the READY orders of one restaurant into courses:            *)
(* CourseGroupingService, its listener on the order events and its two     *)
(* crons.  An order that becomes READY joins an open batch or opens one;   *)
(* the flush cron turns a batch into a course (createFromReadyOrders); the *)
(* rebalance cron moves deliveries between courses nobody has picked up.   *)
(*                                                                         *)
(* Every SQL statement is one action, and a request keeps what it has read *)
(* in req[p], so handlers interleave between statements as the async code  *)
(* of one or several backends does.  Addresses are points of a line: being *)
(* within max_detour_meters is then no equivalence, as on a map.           *)
(***************************************************************************)
EXTENDS Integers, FiniteSets

CONSTANTS
    Order,      \* orders to deliver, of one restaurant
    MaxBatch,   \* bound: rows of CourseBatch
    MaxCourse,  \* bound: rows of Course
    Req,        \* concurrent executions
    NONE,       \* SQL null, and an address without coordinates
    Fleet,      \* services the orders are created with
    Place,      \* where the destinations are, NONE among them or not
    Detour,     \* max_detour_meters, in units of Place
    MaxOrders,  \* max_orders_per_course
    Ops,        \* what else happens in the instance
    CanCrash    \* may a backend stop in the middle of a request?

ASSUME BoundAssumption == {MaxBatch, MaxCourse, MaxOrders} \subseteq Nat \ {0}
ASSUME FleetAssumption == Fleet \subseteq {"CHICKEN_NATION", "TURBO"}
ASSUME PlaceAssumption == Place \ {NONE} \subseteq Int /\ Detour \in Nat
ASSUME SwitchAssumption == /\ Ops \subseteq {"again", "rebalance", "turbo", "pickup", "annule"}
                           /\ CanCrash \in BOOLEAN

Batch  == 1 .. MaxBatch
Course == 1 .. MaxCourse     \* in the order of created_at

ASSUME NoneAssumption == NONE \notin Int \cup Order

VARIABLES
    status,     \* Order.status
    service,    \* Order.delivery_service
    address,    \* Order.address, as parseOrderLatLng reads it
    batch_id,   \* Order.batch_id
    course_id,  \* Delivery.course_id of the order (NONE: no delivery)
    batch,      \* CourseBatch.status
    age,        \* CourseBatch: created_at and expires_at against the clock
    ttl,        \* CourseBatch: was expires_at set from the whole window?
    statut,     \* Course.statut (ADJUSTABLE: the three before the pick-up)
    escalated,  \* Course.turbo_escalated_at is set
    req         \* requests in flight

orderVars  == <<status, service, address, batch_id, course_id>>
batchVars  == <<batch, age, ttl>>
courseVars == <<statut, escalated>>
vars == <<status, service, address, batch_id, course_id, batch, age, ttl, statut,
          escalated, req>>

-----------------------------------------------------------------------------
(* Data *)

Steps == {"idle", "group", "candidate", "attach", "open", "flush", "expire", "create",
          "insert", "mark", "transfer", "merge"}

(* Local variables of a request: the ids of flushMatureBatches still to    *)
(* do, the deliveries rebalanceActiveCourses has in memory, the pair of    *)
(* courses it is at.                                                       *)
Request == [step: Steps, order: Order \cup {NONE}, batch: Batch \cup {NONE},
            course: Course \cup {NONE}, lot: SUBSET Order, todo: SUBSET Batch,
            held: UNION {[C -> SUBSET Order] : C \in SUBSET Course},
            target: Course \cup {NONE}]

Idle == [step |-> "idle", order |-> NONE, batch |-> NONE, course |-> NONE, lot |-> {},
         todo |-> {}, held |-> <<>>, target |-> NONE]

Batched(b)    == {o \in Order : batch_id[o] = b}
Deliveries(c) == {o \in Order : course_id[o] = c}
Eligible(S)   == {o \in S : status[o] = "READY" /\ course_id[o] = NONE}
Located(o)    == address[o] # NONE
Far(o, q)     == /\ Located(o) /\ Located(q)
                 /\ address[o] - address[q] > Detour \/ address[q] - address[o] > Detour

(* Mutant of IsCompatible: the fleet is not looked at.                     *)
IsCompatibleAnyFleet(S, o) ==
    /\ Cardinality(S) < MaxOrders
    /\ Located(o)
    /\ \A q \in S : status[q] = "READY" => ~Far(o, q)

(* isCompatible: the ceiling counts every order of the batch, the fleet    *)
(* and the distance only those still READY.                                *)
IsCompatible(S, o) ==
    /\ Cardinality(S) < MaxOrders
    /\ Located(o)
    /\ \A q \in S : status[q] = "READY" => service[q] = service[o] /\ ~Far(o, q)

(* canTransferDelivery, for the orders S of the target                     *)
CanTransfer(S, o) ==
    /\ Located(o)
    /\ \A q \in S : service[q] = service[o] /\ ~Far(o, q)

-----------------------------------------------------------------------------
(* Control of a request *)

At(p, s)   == req[p].step = s
Goto(p, r) == req' = [req EXCEPT ![p] = r]
Step(p, s) == Goto(p, [req[p] EXCEPT !.step = s])
Return(p)  == Goto(p, Idle)

(* The loop of flushMatureBatches goes on with the next id.                *)
NextBatch(p, todo) ==
    Goto(p, IF todo = {} THEN Idle ELSE [Idle EXCEPT !.step = "flush", !.todo = todo])

-----------------------------------------------------------------------------
Init ==
    /\ status    = [o \in Order |-> "IN_PROGRESS"]
    /\ service   \in [Order -> Fleet]
    /\ address   \in [Order -> Place]
    /\ batch_id  = [o \in Order |-> NONE]
    /\ course_id = [o \in Order |-> NONE]
    /\ batch     = [b \in Batch |-> "ABSENT"]
    /\ age       = [b \in Batch |-> "young"]
    /\ ttl       = [b \in Batch |-> "short"]
    /\ statut    = [c \in Course |-> "ABSENT"]
    /\ escalated = [c \in Course |-> FALSE]
    /\ req       = [p \in Req |-> Idle]

(* updateStatus to READY, whose event starts tryGroupOrder.  The validation *)
(* accepts READY again, so the event may repeat.                           *)
MarkReady(p, o) ==
    /\ At(p, "idle")
    /\ status[o] = "IN_PROGRESS" \/ (status[o] = "READY" /\ "again" \in Ops)
    /\ status' = [status EXCEPT ![o] = "READY"]
    /\ Goto(p, [Idle EXCEPT !.step = "group", !.order = o])
    /\ UNCHANGED <<service, address, batch_id, course_id, batchVars, courseVars>>

(* tryGroupOrder reads the order.                                          *)
GroupRead(p) ==
    /\ At(p, "group")
    /\ LET o == req[p].order IN
       IF status[o] = "READY" /\ batch_id[o] = NONE THEN Step(p, "candidate") ELSE Return(p)
    /\ UNCHANGED <<orderVars, batchVars, courseVars>>

(* findFirst returns any open batch; an incompatible one is not followed   *)
(* by another try.                                                         *)
Candidate(p) ==
    /\ At(p, "candidate")
    /\ LET o    == req[p].order
           Open == {b \in Batch : batch[b] = "PENDING" /\ age[b] # "expired"}
       IN  \/ \E b \in Open :
                IF IsCompatible(Batched(b), o)
                THEN Goto(p, [req[p] EXCEPT !.step = "attach", !.batch = b])
                ELSE Step(p, "open")
           \/ Open = {} /\ Step(p, "open")
    /\ UNCHANGED <<orderVars, batchVars, courseVars>>

Attach(p) ==
    /\ At(p, "attach")
    /\ batch_id' = [batch_id EXCEPT ![req[p].order] = req[p].batch]
    /\ Return(p)
    /\ UNCHANGED <<status, service, address, course_id, batchVars, courseVars>>

(* hasCompatibleOrderInProgress: it decides the window only, so its read   *)
(* is folded into the insert of the batch.                                 *)
LookAhead(o) ==
    /\ Located(o)
    /\ \E q \in Order \ {o} : /\ status[q] = "IN_PROGRESS" /\ course_id[q] = NONE
                              /\ Located(q) /\ ~Far(o, q)

NewBatch(p) ==
    /\ At(p, "open")
    /\ \E b \in Batch :
         /\ batch[b] = "ABSENT" /\ \A a \in 1 .. b - 1 : batch[a] # "ABSENT"
         /\ batch'    = [batch EXCEPT ![b] = "PENDING"]
         /\ ttl'      = [ttl EXCEPT ![b] = IF LookAhead(req[p].order) THEN "long" ELSE "short"]
         /\ batch_id' = [batch_id EXCEPT ![req[p].order] = b]
    /\ Return(p)
    /\ UNCHANGED <<status, service, address, course_id, age, courseVars>>

-----------------------------------------------------------------------------
(* flushMatureBatches and flushBatch *)

(* Mutant of Mature: a full batch does not wait (the early flush).         *)
MatureFull(b) ==
    /\ batch[b] = "PENDING"
    /\ \/ age[b] = "expired"
       \/ Cardinality({o \in Batched(b) : status[o] = "READY"}) >= MaxOrders

Mature(b) ==
    /\ batch[b] = "PENDING"
    /\ age[b] # "young"
    /\ \/ age[b] = "expired"
       \/ Cardinality({o \in Batched(b) : status[o] = "READY"}) >= MaxOrders

FlushRead(p) ==
    /\ At(p, "idle")
    /\ \E b \in Batch : Mature(b)
    /\ Goto(p, [Idle EXCEPT !.step = "flush", !.todo = {b \in Batch : Mature(b)}])
    /\ UNCHANGED <<orderVars, batchVars, courseVars>>

(* Mutant of BatchRead: a batch without eligible order is passed over.     *)
BatchReadPassOver(p) ==
    /\ At(p, "flush")
    /\ \E b \in req[p].todo :
         LET lot == Eligible(Batched(b))
             r   == [req[p] EXCEPT !.todo = @ \ {b}, !.batch = b, !.lot = lot]
         IN  IF batch[b] # "PENDING" \/ lot = {} THEN NextBatch(p, r.todo)
             ELSE Goto(p, [r EXCEPT !.step = "create"])
    /\ UNCHANGED <<orderVars, batchVars, courseVars>>

(* flushBatch reads a batch of the list again, with its eligible orders.   *)
BatchRead(p) ==
    /\ At(p, "flush")
    /\ \E b \in req[p].todo :
         LET lot == Eligible(Batched(b))
             r   == [req[p] EXCEPT !.todo = @ \ {b}, !.batch = b, !.lot = lot]
         IN  CASE batch[b] # "PENDING" -> NextBatch(p, r.todo)
               [] lot = {}             -> Goto(p, [r EXCEPT !.step = "expire"])
               [] OTHER                -> Goto(p, [r EXCEPT !.step = "create"])
    /\ UNCHANGED <<orderVars, batchVars, courseVars>>

(* Mutant of BatchExpire: the status of a course is written.               *)
BatchExpireCancelled(p) ==
    /\ At(p, "expire")
    /\ batch' = [batch EXCEPT ![req[p].batch] = "CANCELLED"]
    /\ NextBatch(p, req[p].todo)
    /\ UNCHANGED <<orderVars, age, ttl, courseVars>>

BatchExpire(p) ==
    /\ At(p, "expire")
    /\ batch' = [batch EXCEPT ![req[p].batch] = "EXPIRED"]
    /\ NextBatch(p, req[p].todo)
    /\ UNCHANGED <<orderVars, age, ttl, courseVars>>

(* createFromReadyOrders reads the orders once more; with none left it     *)
(* throws, and the cron goes on with the next batch.                       *)
CreateRead(p) ==
    /\ At(p, "create")
    /\ LET lot == Eligible(req[p].lot) IN
       IF lot = {} THEN NextBatch(p, req[p].todo)
       ELSE Goto(p, [req[p] EXCEPT !.step = "insert", !.lot = lot])
    /\ UNCHANGED <<orderVars, batchVars, courseVars>>

(* Mutant of CreateInsert: Delivery.order_id is not unique.                *)
CreateInsertAgain(p) ==
    /\ At(p, "insert")
    /\ \E c \in Course :
         /\ statut[c] = "ABSENT" /\ \A d \in 1 .. c - 1 : statut[d] # "ABSENT"
         /\ statut' = [statut EXCEPT ![c] = "ADJUSTABLE"]
         /\ course_id' = [o \in Order |-> IF o \in req[p].lot THEN c ELSE course_id[o]]
         /\ Goto(p, [req[p] EXCEPT !.step = "mark", !.course = c, !.lot = {}])
    /\ UNCHANGED <<status, service, address, batch_id, batchVars, escalated>>

(* One insert for the course and its deliveries: Delivery.order_id is      *)
(* unique, so an order delivered elsewhere in between fails the whole.     *)
(* The search of a livreur that follows before the batch is marked is that *)
(* of CourseOffers and TurboEscalation.                                    *)
CreateInsert(p) ==
    /\ At(p, "insert")
    /\ IF \E o \in req[p].lot : course_id[o] # NONE
       THEN NextBatch(p, req[p].todo) /\ UNCHANGED <<course_id, statut>>
       ELSE \E c \in Course :
              /\ statut[c] = "ABSENT" /\ \A d \in 1 .. c - 1 : statut[d] # "ABSENT"
              /\ statut' = [statut EXCEPT ![c] = "ADJUSTABLE"]
              /\ course_id' = [o \in Order |-> IF o \in req[p].lot THEN c ELSE course_id[o]]
              /\ Goto(p, [req[p] EXCEPT !.step = "mark", !.course = c, !.lot = {}])
    /\ UNCHANGED <<status, service, address, batch_id, batchVars, escalated>>

BatchFlushed(p) ==
    /\ At(p, "mark")
    /\ batch' = [batch EXCEPT ![req[p].batch] = "FLUSHED"]
    /\ NextBatch(p, req[p].todo)
    /\ UNCHANGED <<orderVars, age, ttl, courseVars>>

-----------------------------------------------------------------------------
(* rebalanceActiveCourses: nested loops over targets and, for each, the    *)
(* younger courses.  A pair that has nothing to transfer is skipped, which *)
(* changes nothing; the target may have become empty in memory.            *)

Transferable(held, i, j) == {o \in held[j] : CanTransfer(held[i], o)}

(* Mutant of Useful: the ceiling of the target is off by one.              *)
UsefulUpToCeiling(held) == {t \in (DOMAIN held) \X (DOMAIN held) :
                    /\ t[1] < t[2]
                    /\ Cardinality(held[t[1]]) <= MaxOrders
                    /\ Transferable(held, t[1], t[2]) # {}}

Useful(held) == {t \in (DOMAIN held) \X (DOMAIN held) :
                    /\ t[1] < t[2]
                    /\ Cardinality(held[t[1]]) < MaxOrders
                    /\ Transferable(held, t[1], t[2]) # {}}

Before(t, u) == t[1] < u[1] \/ (t[1] = u[1] /\ t[2] < u[2])

NextPair(p, held, t) ==
    LET Later == {u \in Useful(held) : Before(t, u)}
    IN  IF Later = {} THEN Return(p)
        ELSE LET u == CHOOSE u \in Later : \A w \in Later \ {u} : Before(u, w)
             IN  Goto(p, [Idle EXCEPT !.step = "transfer", !.held = held, !.target = u[1],
                                      !.course = u[2], !.lot = Transferable(held, u[1], u[2])])

(* Mutant of RebalanceRead: the courses with Turbo are read too.           *)
RebalanceReadAll(p) ==
    /\ At(p, "idle")
    /\ "rebalance" \in Ops
    /\ LET held == [c \in {c \in Course : statut[c] = "ADJUSTABLE"} |-> Deliveries(c)]
       IN  Useful(held) # {} /\ NextPair(p, held, <<0, 0>>)
    /\ UNCHANGED <<orderVars, batchVars, courseVars>>

RebalanceRead(p) ==
    /\ At(p, "idle")
    /\ "rebalance" \in Ops
    /\ LET held == [c \in {c \in Course : statut[c] = "ADJUSTABLE" /\ ~escalated[c]}
                       |-> Deliveries(c)]
       IN  Useful(held) # {} /\ NextPair(p, held, <<0, 0>>)
    /\ UNCHANGED <<orderVars, batchVars, courseVars>>

(* transferDelivery, by the id of the delivery: nothing is read again but  *)
(* the sequence numbers, left out here.                                    *)
Transfer(p) ==
    /\ At(p, "transfer")
    /\ \E o \in req[p].lot :
         LET i    == req[p].target
             j    == req[p].course
             held == [req[p].held EXCEPT ![i] = @ \cup {o}, ![j] = @ \ {o}]
             lot  == req[p].lot \ {o}
         IN  /\ course_id' = [course_id EXCEPT ![o] = i]
             /\ IF lot # {} /\ Cardinality(held[i]) < MaxOrders
                THEN Goto(p, [req[p] EXCEPT !.held = held, !.lot = lot])
                ELSE IF held[j] = {}
                THEN Goto(p, [req[p] EXCEPT !.step = "merge", !.held = held, !.lot = {}])
                ELSE NextPair(p, held, <<i, j>>)
    /\ UNCHANGED <<status, service, address, batch_id, batchVars, courseVars>>

(* markCourseMerged, by the id of the course                               *)
Merge(p) ==
    /\ At(p, "merge")
    /\ statut' = [statut EXCEPT ![req[p].course] = "CANCELLED"]
    /\ NextPair(p, req[p].held, <<req[p].target, req[p].course>>)
    /\ UNCHANGED <<orderVars, batchVars, escalated>>

-----------------------------------------------------------------------------
(* What else happens to the orders and the courses, one statement each     *)

(* updateStatus to CANCELLED by an administrator: the delivery stays.      *)
CancelOrder(p, o) ==
    /\ At(p, "idle")
    /\ "annule" \in Ops
    /\ status[o] \in {"IN_PROGRESS", "READY"}
    /\ status' = [status EXCEPT ![o] = "CANCELLED"]
    /\ UNCHANGED <<service, address, batch_id, course_id, batchVars, courseVars, req>>

(* markPickedUp: every order of the course, whatever its status.           *)
PickUp(p, c) ==
    /\ At(p, "idle")
    /\ "pickup" \in Ops
    /\ statut[c] = "ADJUSTABLE"
    /\ statut' = [statut EXCEPT ![c] = "IN_DELIVERY"]
    /\ status' = [o \in Order |-> IF course_id[o] = c THEN "PICKED_UP" ELSE status[o]]
    /\ UNCHANGED <<service, address, batch_id, course_id, batchVars, escalated, req>>

(* escalateToTurbo claims the course and gives its orders to Turbo; the    *)
(* steps in between are those of TurboEscalation.                          *)
Subcontract(p, c) ==
    /\ At(p, "idle")
    /\ "turbo" \in Ops
    /\ statut[c] = "ADJUSTABLE" /\ ~escalated[c]
    /\ escalated' = [escalated EXCEPT ![c] = TRUE]
    /\ service' = [o \in Order |-> IF course_id[o] = c THEN "TURBO" ELSE service[o]]
    /\ UNCHANGED <<status, address, batch_id, course_id, batchVars, statut, req>>

(* revenirEnInterne                                                        *)
TakeBack(p, c) ==
    /\ At(p, "idle")
    /\ "turbo" \in Ops
    /\ statut[c] = "ADJUSTABLE" /\ escalated[c]
    /\ escalated' = [escalated EXCEPT ![c] = FALSE]
    /\ service' = [o \in Order |-> IF course_id[o] = c THEN "CHICKEN_NATION" ELSE service[o]]
    /\ UNCHANGED <<status, address, batch_id, course_id, batchVars, statut, req>>

(* The clock: batch_min_wait_seconds, then the rest of the window          *)
Tick(b) ==
    /\ batch[b] = "PENDING"
    /\ age[b] # "expired"
    /\ age' = [age EXCEPT ![b] = IF @ = "young" /\ ttl[b] = "long" THEN "ripe" ELSE "expired"]
    /\ UNCHANGED <<orderVars, batch, ttl, courseVars, req>>

Crash(p) ==
    /\ CanCrash
    /\ ~At(p, "idle")
    /\ Return(p)
    /\ UNCHANGED <<orderVars, batchVars, courseVars>>

-----------------------------------------------------------------------------
Handle(p) == GroupRead(p) \/ Candidate(p) \/ Attach(p) \/ NewBatch(p)
Flush(p)  == \/ BatchRead(p) \/ BatchExpire(p)
             \/ CreateRead(p) \/ CreateInsert(p) \/ BatchFlushed(p)
Rebalance(p) == Transfer(p) \/ Merge(p)

Next ==
    \/ \E p \in Req : \/ Handle(p) \/ Flush(p) \/ Rebalance(p)
                      \/ FlushRead(p) \/ RebalanceRead(p) \/ Crash(p)
    \/ \E p \in Req, o \in Order : MarkReady(p, o) \/ CancelOrder(p, o)
    \/ \E p \in Req, c \in Course : PickUp(p, c) \/ Subcontract(p, c) \/ TakeBack(p, c)
    \/ \E b \in Batch : Tick(b)

Spec == Init /\ [][Next]_vars

(* What is started ends unless its backend stops, the clock moves, and the *)
(* flush cron runs every ten seconds: backends may stop, but not each time *)
(* at the same statement.  The kitchen, the operators and the rebalancing  *)
(* owe nothing.                                                            *)
Fairness ==
    /\ \A p \in Req : WF_vars(Handle(p)) /\ WF_vars(Flush(p)) /\ WF_vars(Rebalance(p))
    /\ SF_vars(\E p \in Req : FlushRead(p))
    /\ SF_vars(\E p \in Req : BatchRead(p))
    /\ SF_vars(\E p \in Req : BatchExpire(p))
    /\ SF_vars(\E p \in Req : CreateRead(p))
    /\ SF_vars(\E p \in Req : CreateInsert(p))
    /\ SF_vars(\E p \in Req : BatchFlushed(p))
    /\ \A b \in Batch : WF_vars(Tick(b))

LiveSpec == Spec /\ Fairness

-----------------------------------------------------------------------------
(* Properties *)

TypeOK ==
    /\ status    \in [Order -> {"IN_PROGRESS", "READY", "PICKED_UP", "CANCELLED"}]
    /\ service   \in [Order -> {"CHICKEN_NATION", "TURBO"}]
    /\ address   \in [Order -> Place]
    /\ batch_id  \in [Order -> Batch \cup {NONE}]
    /\ course_id \in [Order -> Course \cup {NONE}]
    /\ batch     \in [Batch -> {"ABSENT", "PENDING", "FLUSHED", "EXPIRED"}]
    /\ age       \in [Batch -> {"young", "ripe", "expired"}]
    /\ ttl       \in [Batch -> {"short", "long"}]
    /\ statut    \in [Course -> {"ABSENT", "ADJUSTABLE", "IN_DELIVERY", "CANCELLED"}]
    /\ escalated \in [Course -> BOOLEAN]
    /\ req       \in [Req -> Request]

(* A course goes out with one fleet: it is carried by one internal livreur *)
(* or sent to Turbo, never both (isCompatible, canTransferDelivery).       *)
FleetsUnmixed ==
    \A c \in Course : statut[c] = "ADJUSTABLE" =>
        \A o, q \in Deliveries(c) : service[o] = service[q]

(* However batches and transfers succeed one another, a course keeps to    *)
(* max_orders_per_course and no two of its destinations are further apart  *)
(* than max_detour_meters.                                                 *)
WithinLimits ==
    \A c \in Course : statut[c] = "ADJUSTABLE" =>
        /\ Cardinality(Deliveries(c)) <= MaxOrders
        /\ \A o, q \in Deliveries(c) : ~Far(o, q)

(* The rebalancing neither adds to nor takes from a course that is with    *)
(* Turbo: their group must stay the same as our course.                    *)
SubcontractedUntouched ==
    [][\A c \in Course : escalated[c] => Deliveries(c)' = Deliveries(c)]_vars

(* A course anybody can be offered has something to deliver: concurrent    *)
(* flushes of one batch cannot leave a course whose orders went elsewhere. *)
NoEmptyCourse ==
    \A c \in Course : statut[c] = "ADJUSTABLE" =>
        Deliveries(c) # {} \/ \E p \in Req : At(p, "merge") /\ req[p].course = c

(* No batch is closed before batch_min_wait_seconds, full or not.          *)
MinWaitRespected ==
    [][\A b \in Batch : batch[b] = "PENDING" /\ batch'[b] # "PENDING" => age[b] # "young"]_vars

(* A batch does not stay open for ever: whatever races it, the cron closes *)
(* it once its window is over, with a course or without.                   *)
BatchIsClosed ==
    \A b \in Batch : batch[b] = "PENDING" ~> batch[b] # "PENDING"

=============================================================================
