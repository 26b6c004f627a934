----------------------- MODULE TurboEscalation_proofs -----------------------
(***************************************************************************)
(* Proofs about TurboEscalation, from what every execution keeps to what   *)
(* needs requests that do not overlap.                                     *)
(*                                                                         *)
(* Every execution, with crashes and repeated webhooks: IInv (what a       *)
(* request in flight holds, one reference per course) and Tracked (a       *)
(* subcontracted course is Turbo's, a request's or the staff's concern).   *)
(*                                                                         *)
(* NoStaleDrop: Carried, for NoGhostCourse.  A webhook about one order     *)
(* reads its course, then acts on it; a relaunch in between moves the      *)
(* order, and the webhook then cancels a delivery of the new course.       *)
(*                                                                         *)
(* Exclusive: ClaimInv, for NoDeadReference.  A take-back reads the        *)
(* reference before it cancels it at Turbo; two escalations that cross     *)
(* its update post the new reference twice.                                *)
(*                                                                         *)
(* Exclusive without relaunch: LotInv, for GroupIsFollowed.  The           *)
(* cancellation of a course tells Turbo nothing, so a relaunched course    *)
(* leaves a group behind it.                                               *)
(***************************************************************************)
EXTENDS TurboEscalation, TLAPS

(* What a request in flight holds at each of its steps.                    *)
ReqInv(r) ==
    /\ r.step # "idle" => r.course \in Course /\ statut[r.course] # "ABSENT"
    /\ r.step \in {"assigned", "dropped"} => r.order \in Order
    /\ r.step = "post" => r.ref \in Ref
    /\ r.step \in {"relance", "move"} => r.lot # {}
    /\ r.step \in {"annuler", "takeback"} => "takeback" \in Ops
    /\ r.step \in {"relance", "move", "delete"} => "relance" \in Ops
    /\ r.step = "dropped" => "order" \in TurboDrops /\ course_id[r.order] # NONE

(* A course has a reference from its creation, and no other course has it. *)
RefInv ==
    \A c \in Course :
        /\ statut[c] = "ABSENT" => reference[c] = NONE /\ ~escalated[c]
        /\ statut[c] # "ABSENT" => reference[c] \in Ref
        /\ \A d \in Course \ {c} : reference[c] = reference[d] => reference[c] = NONE

OrderInv ==
    \A o \in Order : IF course_id[o] = NONE THEN delivery[o] = "PENDING"
                                            ELSE statut[course_id[o]] # "ABSENT"

HookInv == \A h \in hooks : IF h.kind = "assigned" THEN h.order \in Order
                                                   ELSE h.order # NONE => "order" \in TurboDrops

Reqs == \A p \in Req : ReqInv(req[p])

IInv == TypeOK /\ RefInv /\ OrderInv /\ HookInv /\ Reqs

(* A request will settle what became of the claim on a course.             *)
AtWork(p, c) ==
    /\ req[p].course = c
    /\ \/ req[p].step \in {"lots", "release", "flip", "group", "failed", "doubt"}
       \/ req[p].step = "post" /\ req[p].ref = reference[c]

Tracked ==
    \A c \in Course : escalated[c] /\ doubt[c] = {} =>
        group[reference[c]] # "none" \/ \E p \in Req : AtWork(p, c)

(* A request will settle what becomes of a course without deliveries.      *)
Closing(p, c) == /\ req[p].course = c
                 /\ req[p].step \in {"move", "delete", "left", "cancel_course"}

Carried ==
    \A c \in Course : statut[c] = "PENDING_ASSIGNMENT" /\ "crash" \notin doubt[c] =>
        Active(c) # {} \/ \E p \in Req : Closing(p, c)

DropsCurrent == \A p \in Req : At(p, "dropped") => course_id[req[p].order] = req[p].course

(* A request that has claimed a course: it has posted nothing yet, or      *)
(* Turbo has just answered.                                                *)
Claims == {"lots", "release", "flip", "group", "post", "failed"}
Holds  == Claims \cup {"settle"}

(* One request at most holds the claim of a course, and Turbo knows        *)
(* nothing of a course that is not subcontracted or not posted yet.        *)
ClaimInv ==
    /\ \A c \in Course : statut[c] # "ABSENT" /\ ~escalated[c] => group[reference[c]] = "none"
    /\ \A p \in Req :
         /\ req[p].step \in Claims => group[reference[req[p].course]] = "none"
         /\ req[p].step = "post" => req[p].ref = reference[req[p].course]
         /\ req[p].step \in Holds =>
              /\ escalated[req[p].course]
              /\ \A q \in Req \ {p} : req[q].step \in Holds => req[q].course # req[p].course

(* The orders a request has read are still those of its course, and those  *)
(* it has posted are Turbo's.                                              *)
LotSteps == {"flip", "group", "post", "failed", "settle", "annuler", "takeback"}

LotReq(r) ==
    /\ r.step \in LotSteps => r.lot \subseteq Orders(r.course)
    /\ r.step = "post" => \A o \in r.sent : course_id[o] = r.course /\ service[o] = "TURBO"
    /\ r.step = "settle" /\ Live(reference[r.course]) => members[reference[r.course]] \subseteq r.sent
    /\ r.step \in {"annuler", "takeback"} => r.ref = reference[r.course]
    /\ r.step = "takeback" => ~Live(reference[r.course])

LotInv == \A p \in Req : LotReq(req[p])

One == \E p : Req = {p}

(* No take-back runs beside another request.                               *)
Exclusive == "takeback" \notin Ops \/ One

(* No order changes course under a webhook that has just read it.          *)
NoStaleDrop == "order" \notin TurboDrops \/ "relance" \notin Ops \/ One

-----------------------------------------------------------------------------
(* Lemmas on requests *)

(* A course that exists never stops having existed, and an order that is   *)
(* on a course stays on one.                                               *)
Stays == /\ \A c \in Course : statut[c] # "ABSENT" => statut'[c] # "ABSENT"
         /\ \A o \in Order : course_id[o] # NONE => course_id'[o] # NONE

LEMMA IdleReq == Idle \in Request /\ ReqInv(Idle) /\ ReqInv(Idle)'
  BY DEF Idle, Request, Steps, ReqInv

LEMMA ReqStays ==
  ASSUME NEW r, ReqInv(r), Stays
  PROVE  ReqInv(r)'
  BY DEF ReqInv, Stays

LEMMA GotoReq ==
  ASSUME TypeOK, Reqs, Stays, NEW p \in Req, NEW r \in Request, ReqInv(r)', Goto(p, r)
  PROVE  req' \in [Req -> Request] /\ Reqs' /\ req'[p] = r
  <1>1. req' = [req EXCEPT ![p] = r] /\ req \in [Req -> Request]
    BY DEF TypeOK, Goto
  <1>2. ASSUME NEW q \in Req PROVE ReqInv(req[q])'
    <2>1. CASE q = p
      BY <1>1, <2>1 DEF ReqInv
    <2>2. CASE q # p
      <3>1. PICK x : x = req[q]
        OBVIOUS
      <3>2. ReqInv(x)'
        BY <3>1, ReqStays DEF Reqs
      <3>3. req'[q] = x
        BY <1>1, <2>2, <3>1
      <3> QED BY <3>2, <3>3 DEF ReqInv
    <2> QED BY <2>1, <2>2
  <1> QED BY <1>1, <1>2 DEF Reqs

LEMMA ReturnReq ==
  ASSUME TypeOK, Reqs, Stays, NEW p \in Req, Return(p)
  PROVE  req' \in [Req -> Request] /\ Reqs'
  BY IdleReq, GotoReq DEF Return

LEMMA SameReq ==
  ASSUME TypeOK, Reqs, Stays, UNCHANGED req
  PROVE  req' \in [Req -> Request] /\ Reqs'
  <1>1. ASSUME NEW q \in Req PROVE ReqInv(req[q])'
    <2>1. PICK x : x = req[q]
      OBVIOUS
    <2>2. ReqInv(x)'
      BY <2>1, ReqStays DEF Reqs
    <2> QED BY <2>1, <2>2 DEF ReqInv
  <1> QED BY <1>1 DEF Reqs, TypeOK

(* The statements that write none of what these parts speak of.            *)
LEMMA Elsewhere ==
  ASSUME IInv, UNCHANGED <<courseVars, course_id, delivery, hooks>>
  PROVE  RefInv' /\ OrderInv' /\ HookInv' /\ Stays
  BY DEF IInv, RefInv, OrderInv, HookInv, courseVars, Stays

LEMMA ServiceType ==
  ASSUME TypeOK, NEW S, NEW s \in {"CHICKEN_NATION", "TURBO"}, SetService(S, s)
  PROVE  service' \in [Order -> {"CHICKEN_NATION", "TURBO"}]
  BY DEF TypeOK, SetService


(* A step whose request needs nothing but its course.                      *)
Plain == {"claim", "lots", "release", "flip", "group", "settle", "failed", "doubt", "advance",
          "advance_write", "left", "cancel_course", "cancel", "dropped_group"}

LEMMA StepReq ==
  ASSUME TypeOK, Reqs, Stays, NEW p \in Req, NEW s \in Plain, ~Free(p), Step(p, s)
  PROVE  req' \in [Req -> Request] /\ Reqs'
  <1>1. PICK x : x = req[p]
    OBVIOUS
  <1>2. x \in Request /\ ReqInv(x)' /\ x.step # "idle"
    BY <1>1, ReqStays DEF TypeOK, Reqs, Free
  <1>3. PICK r : r = [x EXCEPT !.step = s]
    OBVIOUS
  <1>4. r \in Request /\ ReqInv(r)'
    BY <1>2, <1>3 DEF Request, Steps, Plain, ReqInv
  <1>5. Goto(p, r)
    BY <1>1, <1>3 DEF Step
  <1> QED BY <1>4, <1>5, GotoReq

LEMMA BeginReq ==
  ASSUME TypeOK, Reqs, Stays, NEW p \in Req, NEW s \in Plain \cup {"relance"}, NEW c \in Course,
         NEW native \in BOOLEAN, NEW lot \in SUBSET Order, Begin(p, s, c, native, lot),
         statut'[c] # "ABSENT", s = "relance" => lot # {} /\ "relance" \in Ops
  PROVE  req' \in [Req -> Request] /\ Reqs'
  <1>1. PICK r : r = [Idle EXCEPT !.step = s, !.course = c, !.native = native, !.lot = lot]
    OBVIOUS
  <1>2. r \in Request /\ ReqInv(r)'
    BY <1>1 DEF Idle, Request, Steps, Plain, ReqInv
  <1> QED BY <1>1, <1>2, GotoReq DEF Begin

-----------------------------------------------------------------------------
(* Every execution *)

LEMMA InitIInv == Init => IInv
  <1> SUFFICES ASSUME Init PROVE IInv
    OBVIOUS
  <1>1. TypeOK /\ Reqs
    BY IdleReq DEF Init, TypeOK, NoRow, Reqs
  <1> QED BY <1>1 DEF IInv, Init, RefInv, OrderInv, HookInv

LEMMA CreateIInv ==
  ASSUME IInv, NEW p \in Req, NEW c \in Course, NEW S \in SUBSET Order, Create(p, c, S)
  PROVE  IInv'
  <1>1. PICK r \in Ref : Fresh(r) /\ reference' = [reference EXCEPT ![c] = r]
    BY DEF Create
  <1>2. /\ statut[c] = "ABSENT"
        /\ statut' = [statut EXCEPT ![c] = "PENDING_ASSIGNMENT"]
        /\ course_id' = [o \in Order |-> IF o \in S THEN c ELSE course_id[o]]
        /\ \A o \in S : course_id[o] = NONE
        /\ UNCHANGED <<escalated, delivery, courier, service, status, group, members, hooks, doubt>>
    BY DEF Create, turboVars
  <1>3. Stays /\ TypeOK /\ Reqs
    BY <1>2, NoneAssumption DEF Stays, IInv, TypeOK
  <1>4. req' \in [Req -> Request] /\ Reqs'
    <2>1. CASE AllTurbo(S)
      <3>1. PICK n \in BOOLEAN : Begin(p, "claim", c, n, {}) /\ statut'[c] # "ABSENT"
        BY <2>1, <1>2, <1>3 DEF Create, TypeOK
      <3> QED BY <3>1, <1>3, BeginReq DEF Plain
    <2>2. CASE ~AllTurbo(S)
      BY <2>2, <1>3, SameReq DEF Create
    <2> QED BY <2>1, <2>2
  <1>5. TypeOK'
    BY <1>1, <1>2, <1>3, <1>4 DEF TypeOK
  <1>6. RefInv'
    BY <1>1, <1>2, NoneAssumption DEF IInv, RefInv, TypeOK, Fresh
  <1>7. OrderInv' /\ HookInv'
    BY <1>2, NoneAssumption DEF IInv, OrderInv, HookInv, TypeOK
  <1> QED BY <1>4, <1>5, <1>6, <1>7 DEF IInv

(* escalateToTurbo *)
LEMMA EscalateIInv ==
  ASSUME IInv, NEW p \in Req, Escalate(p) \/ \E c \in Course : EscalateRead(p, c)
  PROVE  IInv'
  <1>1. Stays
    BY DEF Stays, Escalate, EscalateRead, Claim, Lots, Release, Flip, GroupRead, PostAnswered, PostRejected,
           PostLost, Doubt, Settle, Failed, courseVars, orderVars
  <1>2. TypeOK /\ Reqs
    BY DEF IInv
  <1>3. PICK x : x = req[p]
    OBVIOUS
  <1>4. x \in Request /\ ReqInv(x) /\ ReqInv(x)'
    BY <1>1, <1>2, <1>3, ReqStays DEF TypeOK, Reqs
  <1>5. ASSUME NEW c \in Course, EscalateRead(p, c) PROVE IInv'
    <2>1. RefInv' /\ OrderInv' /\ HookInv'
      BY <1>5, Elsewhere DEF EscalateRead, orderVars, turboVars
    <2>2. PICK n \in BOOLEAN : Begin(p, "claim", c, n, {}) /\ statut'[c] # "ABSENT"
      BY <1>5 DEF EscalateRead, courseVars
    <2>3. req' \in [Req -> Request] /\ Reqs'
      BY <2>2, <1>1, <1>2, BeginReq DEF Plain
    <2> QED BY <2>1, <2>3, <1>2, <1>5 DEF IInv, TypeOK, EscalateRead, courseVars, orderVars, turboVars
  <1>6. CASE Claim(p)
    <2>1. RefInv' /\ OrderInv' /\ HookInv'
      BY <1>6 DEF Claim, IInv, RefInv, OrderInv, HookInv, TypeOK, orderVars, turboVars
    <2>2. req' \in [Req -> Request] /\ Reqs'
      BY <1>6, <1>1, <1>2, StepReq, ReturnReq DEF Claim, Plain, At, Free
    <2> QED BY <2>1, <2>2, <1>2, <1>6 DEF IInv, TypeOK, Claim, orderVars, turboVars
  <1>7. CASE Lots(p)
    <2>1. RefInv' /\ OrderInv' /\ HookInv'
      BY <1>7, Elsewhere DEF Lots, orderVars, turboVars
    <2>2. PICK r : r = [x EXCEPT !.step = IF Active(x.course) = {} THEN "release" ELSE "flip",
                                 !.lot = Active(x.course)]
      OBVIOUS
    <2>3. r \in Request /\ ReqInv(r)'
      <3>1. x.step # "idle" /\ Active(x.course) \in SUBSET Order
        BY <1>7, <1>3 DEF Lots, At, Active, Orders
      <3>2. PICK s \in {"release", "flip"} : r = [x EXCEPT !.step = s, !.lot = Active(x.course)]
        BY <2>2
      <3>3. r \in Request
        BY <1>4, <3>1, <3>2 DEF Request, Steps
      <3>4. r.step = s /\ r.course = x.course
        BY <1>4, <3>2 DEF Request
      <3>5. r.course \in Course /\ statut'[r.course] # "ABSENT"
        BY <1>4, <3>1, <3>4 DEF ReqInv
      <3> QED BY <3>3, <3>4, <3>5 DEF ReqInv
    <2>4. req' \in [Req -> Request] /\ Reqs'
      BY <2>2, <2>3, <1>1, <1>2, <1>3, <1>7, GotoReq DEF Lots
    <2> QED BY <2>1, <2>4, <1>2, <1>7 DEF IInv, TypeOK, Lots, courseVars, orderVars, turboVars
  <1>8. CASE Release(p)
    <2>1. RefInv' /\ OrderInv' /\ HookInv'
      BY <1>8 DEF Release, IInv, RefInv, OrderInv, HookInv, TypeOK, orderVars, turboVars
    <2>2. req' \in [Req -> Request] /\ Reqs'
      BY <1>8, <1>1, <1>2, ReturnReq DEF Release
    <2> QED BY <2>1, <2>2, <1>2, <1>8 DEF IInv, TypeOK, Release, orderVars, turboVars
  <1>9. CASE Flip(p)
    <2>1. RefInv' /\ OrderInv' /\ HookInv'
      BY <1>9, Elsewhere DEF Flip, turboVars
    <2>2. req' \in [Req -> Request] /\ Reqs'
      BY <1>9, <1>1, <1>2, StepReq DEF Flip, Plain, At, Free
    <2>3. service' \in [Order -> {"CHICKEN_NATION", "TURBO"}]
      BY <1>9, <1>2, ServiceType DEF Flip
    <2> QED BY <2>1, <2>2, <2>3, <1>2, <1>9 DEF IInv, TypeOK, Flip, courseVars, turboVars
  <1>10. CASE GroupRead(p)
    <2>1. RefInv' /\ OrderInv' /\ HookInv'
      BY <1>10, Elsewhere DEF GroupRead, orderVars, turboVars
    <2>2. PICK S : S = {o \in Orders(x.course) : status[o] = "READY" /\ service[o] = "TURBO"}
      OBVIOUS
    <2>3. PICK r : /\ r = (IF S = {} THEN [x EXCEPT !.step = "failed"]
                           ELSE [x EXCEPT !.step = "post", !.ref = reference[x.course], !.sent = S])
                   /\ Goto(p, r)
      BY <1>3, <1>10, <2>2 DEF GroupRead
    <2>4. x.course \in Course /\ reference[x.course] \in Ref
      BY <1>3, <1>4, <1>10 DEF GroupRead, At, ReqInv, IInv, RefInv
    <2>5. r \in Request /\ ReqInv(r)'
      BY <2>2, <2>3, <2>4, <1>4, <1>10, <1>3 DEF Request, Steps, ReqInv, Orders, GroupRead, At
    <2>6. req' \in [Req -> Request] /\ Reqs'
      BY <2>3, <2>5, <1>1, <1>2, GotoReq
    <2> QED BY <2>1, <2>6, <1>2, <1>10 DEF IInv, TypeOK, GroupRead, courseVars, orderVars, turboVars
  <1>11. CASE PostAnswered(p) \/ PostRejected(p) \/ PostLost(p)
    <2>1. RefInv' /\ OrderInv' /\ HookInv'
      BY <1>11, Elsewhere DEF PostAnswered, PostRejected, PostLost, orderVars, turboVars
    <2>2. req' \in [Req -> Request] /\ Reqs'
      BY <1>11, <1>1, <1>2, StepReq DEF PostAnswered, PostRejected, PostLost, Plain, At, Free
    <2>3. Receive(x.ref, x.sent) \/ UNCHANGED <<group, members>>
      BY <1>3, <1>11 DEF PostAnswered, PostRejected, PostLost, turboVars
    <2>4. /\ group' \in [Ref -> {"none", "open", "taken", "cancelled"}]
          /\ members' \in [Ref -> SUBSET Order]
      <3>1. x.sent \in SUBSET Order
        BY <1>4 DEF Request
      <3>2. PICK r, S : r = x.ref /\ S = x.sent
        OBVIOUS
      <3> QED BY <3>1, <3>2, <2>3, <1>2 DEF Receive, TypeOK
    <2> QED BY <2>1, <2>2, <2>4, <1>2, <1>11
            DEF IInv, TypeOK, PostAnswered, PostRejected, PostLost, courseVars, orderVars, turboVars
  <1>12. CASE Doubt(p)
    <2>1. RefInv' /\ OrderInv' /\ HookInv'
      BY <1>12, Elsewhere DEF Doubt, orderVars, turboVars
    <2>2. req' \in [Req -> Request] /\ Reqs'
      BY <1>12, <1>1, <1>2, ReturnReq DEF Doubt
    <2> QED BY <2>1, <2>2, <1>2, <1>12 DEF IInv, TypeOK, Doubt, courseVars, orderVars, turboVars
  <1>13. CASE Settle(p)
    <2>1. RefInv' /\ OrderInv' /\ HookInv'
      BY <1>13, Elsewhere DEF Settle, turboVars
    <2>2. req' \in [Req -> Request] /\ Reqs'
      BY <1>13, <1>1, <1>2, ReturnReq DEF Settle
    <2>3. service' \in [Order -> {"CHICKEN_NATION", "TURBO"}]
      BY <1>13, <1>2, ServiceType DEF Settle
    <2> QED BY <2>1, <2>2, <2>3, <1>2, <1>13 DEF IInv, TypeOK, Settle, courseVars, turboVars
  <1>14. CASE Failed(p)
    <2>1. RefInv' /\ OrderInv' /\ HookInv'
      BY <1>14 DEF Failed, IInv, RefInv, OrderInv, HookInv, TypeOK, turboVars
    <2>2. req' \in [Req -> Request] /\ Reqs'
      BY <1>14, <1>1, <1>2, ReturnReq DEF Failed
    <2>3. service' \in [Order -> {"CHICKEN_NATION", "TURBO"}]
      BY <1>14, <1>2, ServiceType DEF Failed
    <2> QED BY <2>1, <2>2, <2>3, <1>2, <1>14 DEF IInv, TypeOK, Failed, turboVars
  <1> QED BY <1>5, <1>6, <1>7, <1>8, <1>9, <1>10, <1>11, <1>12, <1>13, <1>14 DEF Escalate


(* revenirEnInterne *)
LEMMA TakeBackIInv ==
  ASSUME IInv, NEW p \in Req, TakeBack(p) \/ \E c \in Course : TakeBackRead(p, c)
  PROVE  IInv'
  <1>1. Stays
    BY DEF Stays, TakeBack, TakeBackRead, Annuler, AnnulerLost, TakeBackWrite, courseVars, orderVars
  <1>2. TypeOK /\ Reqs
    BY DEF IInv
  <1>3. PICK x : x = req[p]
    OBVIOUS
  <1>4. x \in Request /\ ReqInv(x) /\ ReqInv(x)'
    BY <1>1, <1>2, <1>3, ReqStays DEF TypeOK, Reqs
  <1>5. ASSUME NEW c \in Course, TakeBackRead(p, c) PROVE IInv'
    <2>1. RefInv' /\ OrderInv' /\ HookInv'
      BY <1>5, Elsewhere DEF TakeBackRead, orderVars, turboVars
    <2>2. PICK r : r = [Idle EXCEPT !.step = "annuler", !.course = c, !.lot = Orders(c),
                                    !.ref = reference[c]]
      OBVIOUS
    <2>3. statut'[c] # "ABSENT" /\ reference[c] \in Ref \cup {NONE} /\ "takeback" \in Ops
      BY <1>5, <1>2 DEF TakeBackRead, courseVars, TypeOK
    <2>4. r \in Request /\ ReqInv(r)'
      BY <2>2, <2>3 DEF Request, Steps, ReqInv, Orders, Idle
    <2>5. req' \in [Req -> Request] /\ Reqs'
      BY <2>2, <2>4, <1>1, <1>2, <1>5, GotoReq DEF TakeBackRead
    <2> QED BY <2>1, <2>5, <1>2, <1>5 DEF IInv, TypeOK, TakeBackRead, courseVars, orderVars, turboVars
  <1>6. CASE Annuler(p)
    <2>1. RefInv' /\ OrderInv' /\ HookInv'
      BY <1>6, Elsewhere DEF Annuler, orderVars
    <2>2. PICK r : r = [x EXCEPT !.step = "takeback"]
      OBVIOUS
    <2>3. r \in Request /\ ReqInv(r)'
      BY <2>2, <1>3, <1>4, <1>6 DEF Request, Steps, ReqInv, Annuler, At
    <2>4. req' \in [Req -> Request] /\ Reqs'
      BY <2>2, <2>3, <1>1, <1>2, <1>3, <1>6, GotoReq, ReturnReq DEF Annuler, Step
    <2>5. group' \in [Ref -> {"none", "open", "taken", "cancelled"}]
      BY <1>2, <1>6 DEF TypeOK, Annuler
    <2> QED BY <2>1, <2>4, <2>5, <1>2, <1>6 DEF IInv, TypeOK, Annuler, courseVars, orderVars
  <1>7. CASE AnnulerLost(p)
    <2>1. RefInv' /\ OrderInv' /\ HookInv'
      BY <1>7, Elsewhere DEF AnnulerLost, orderVars
    <2>2. req' \in [Req -> Request] /\ Reqs'
      BY <1>7, <1>1, <1>2, ReturnReq DEF AnnulerLost
    <2>3. group' \in [Ref -> {"none", "open", "taken", "cancelled"}]
      BY <1>2, <1>7 DEF TypeOK, AnnulerLost
    <2> QED BY <2>1, <2>2, <2>3, <1>2, <1>7 DEF IInv, TypeOK, AnnulerLost, courseVars, orderVars
  <1>8. CASE TakeBackWrite(p)
    <2>1. PICK r \in Ref : Fresh(r) /\ reference' = [reference EXCEPT ![x.course] = r]
      BY <1>3, <1>8 DEF TakeBackWrite
    <2>2. /\ escalated' = [escalated EXCEPT ![x.course] = FALSE]
          /\ x.course \in Course /\ statut[x.course] # "ABSENT"
          /\ UNCHANGED <<statut, course_id, delivery, hooks>>
      BY <1>3, <1>4, <1>8 DEF TakeBackWrite, ReqInv, At, turboVars
    <2>3. RefInv'
      BY <2>1, <2>2, <1>2, NoneAssumption DEF IInv, RefInv, TypeOK, Fresh
    <2>4. OrderInv' /\ HookInv'
      BY <2>2 DEF IInv, OrderInv, HookInv
    <2>5. req' \in [Req -> Request] /\ Reqs'
      BY <1>8, <1>1, <1>2, ReturnReq DEF TakeBackWrite
    <2>6. service' \in [Order -> {"CHICKEN_NATION", "TURBO"}]
      BY <1>8, <1>2, ServiceType DEF TakeBackWrite
    <2> QED BY <2>1, <2>2, <2>3, <2>4, <2>5, <2>6, <1>2, <1>8 DEF IInv, TypeOK, TakeBackWrite, turboVars
  <1> QED BY <1>5, <1>6, <1>7, <1>8 DEF TakeBack

(* relancerCourseAnnulee *)
LEMMA RelanceIInv ==
  ASSUME IInv, NEW p \in Req, Relance(p) \/ \E c \in Course : RelanceRead(p, c)
  PROVE  IInv'
  <1>1. Stays /\ TypeOK /\ Reqs
    <2>1. TypeOK /\ Reqs /\ ReqInv(req[p])
      BY DEF IInv, Reqs
    <2>2. CASE RelanceMove(p)
      BY <2>1, <2>2, NoneAssumption DEF Stays, RelanceMove, courseVars, TypeOK, Request, ReqInv, At
    <2> QED BY <2>1, <2>2 DEF Stays, Relance, RelanceRead, RelanceCreate, RelanceDelete, courseVars, orderVars, TypeOK
  <1>2. PICK x : x = req[p]
    OBVIOUS
  <1>3. x \in Request /\ ReqInv(x) /\ ReqInv(x)'
    BY <1>1, <1>2, ReqStays DEF TypeOK, Reqs
  <1>4. ASSUME NEW c \in Course, RelanceRead(p, c) PROVE IInv'
    <2>1. RefInv' /\ OrderInv' /\ HookInv'
      BY <1>4, Elsewhere DEF RelanceRead, orderVars, turboVars
    <2>2. PICK n \in BOOLEAN, lot \in SUBSET Order :
             Begin(p, "relance", c, n, lot) /\ lot # {} /\ lot \subseteq Orders(c)
      BY <1>4 DEF RelanceRead, Orders, AllTurbo
    <2>3. "relance" \in Ops /\ statut'[c] # "ABSENT"
      <3>1. PICK o \in Order : course_id[o] = c
        BY <2>2 DEF Orders
      <3> QED BY <3>1, <1>4, NoneAssumption DEF RelanceRead, IInv, OrderInv, courseVars
    <2>4. PICK r : r = [Idle EXCEPT !.step = "relance", !.course = c, !.native = n, !.lot = lot]
      OBVIOUS
    <2>5. r \in Request /\ ReqInv(r)'
      BY <2>2, <2>3, <2>4 DEF Idle, Request, Steps, ReqInv
    <2>6. req' \in [Req -> Request] /\ Reqs'
      BY <2>2, <2>4, <2>5, <1>1, GotoReq DEF Begin
    <2> QED BY <2>1, <2>6, <1>1, <1>4 DEF IInv, TypeOK, RelanceRead, courseVars, orderVars, turboVars
  <1>5. CASE RelanceCreate(p)
    <2>1. PICK n \in Course, f \in Ref :
             /\ statut[n] = "ABSENT"
             /\ Fresh(f)
             /\ statut' = [statut EXCEPT ![n] = "PENDING_ASSIGNMENT"]
             /\ reference' = [reference EXCEPT ![n] = f]
             /\ Goto(p, [x EXCEPT !.step = "move", !.course = n, !.source = x.course])
      BY <1>2, <1>5 DEF RelanceCreate
    <2>2. RefInv'
      BY <2>1, <1>1, <1>5, NoneAssumption DEF IInv, RefInv, TypeOK, Fresh, RelanceCreate
    <2>3. OrderInv' /\ HookInv'
      BY <2>1, <1>1, <1>5 DEF IInv, OrderInv, HookInv, TypeOK, RelanceCreate, orderVars, turboVars
    <2>4. PICK r : r = [x EXCEPT !.step = "move", !.course = n, !.source = x.course]
      OBVIOUS
    <2>5. r \in Request /\ ReqInv(r)'
      <3>1. x \in Request /\ x.step = "relance" /\ ReqInv(x)
        BY <1>1, <1>2, <1>3, <1>5 DEF RelanceCreate, At, TypeOK
      <3>2. r \in Request /\ r.step = "move" /\ r.course = n /\ r.lot = x.lot
        BY <2>4, <3>1 DEF Request, Steps
      <3>3. statut'[n] # "ABSENT"
        BY <2>1, <1>1 DEF TypeOK
      <3> QED BY <3>1, <3>2, <3>3 DEF ReqInv
    <2>6. req' \in [Req -> Request] /\ Reqs'
      BY <2>1, <2>4, <2>5, <1>1, GotoReq
    <2> QED BY <2>1, <2>2, <2>3, <2>6, <1>1, <1>5 DEF IInv, TypeOK, RelanceCreate, orderVars, turboVars
  <1>6. CASE RelanceMove(p)
    <2>1. /\ x.course \in Course /\ statut[x.course] # "ABSENT" /\ "relance" \in Ops
          /\ x.step = "move"
          /\ UNCHANGED <<courseVars, service, status, turboVars, doubt>>
      BY <1>2, <1>3, <1>6 DEF RelanceMove, ReqInv, At
    <2>2. /\ course_id' \in [Order -> Course \cup {NONE}]
          /\ delivery' \in [Order -> {"PENDING", "CANCELLED"}]
      BY <2>1, <1>1, <1>2, <1>6 DEF RelanceMove, TypeOK
    <2>9. courier' \in [Order -> BOOLEAN]
      <3>1. courier' = [o \in Order |-> o \notin x.lot /\ courier[o]] \/ courier' = courier
        BY <1>2, <1>6 DEF RelanceMove
      <3>2. \A o \in Order : (o \notin x.lot /\ courier[o]) \in BOOLEAN
        OBVIOUS
      <3> QED BY <3>1, <3>2, <1>1, Zenon DEF TypeOK
    <2>3. RefInv' /\ HookInv'
      BY <2>1 DEF IInv, RefInv, HookInv, courseVars, turboVars
    <2>4. OrderInv'
      BY <2>1, <1>1, <1>2, <1>6, NoneAssumption DEF RelanceMove, IInv, OrderInv, TypeOK, courseVars
    <2>5. PICK r : r = [x EXCEPT !.step = "delete"]
      OBVIOUS
    <2>6. r \in Request /\ ReqInv(r)'
      BY <2>1, <2>5, <1>3 DEF Request, Steps, ReqInv
    <2>7. Goto(p, r) \/ Step(p, "claim") \/ Return(p)
      BY <2>5, <1>2, <1>6 DEF RelanceMove, Step
    <2>8. req' \in [Req -> Request] /\ Reqs'
      BY <2>1, <2>6, <2>7, <1>1, <1>2, GotoReq, ReturnReq, StepReq DEF Plain, Free
    <2> QED BY <2>1, <2>2, <2>3, <2>4, <2>8, <2>9, <1>1 DEF IInv, TypeOK, courseVars, turboVars
  <1>7. CASE RelanceDelete(p)
    <2>1. RefInv' /\ OrderInv' /\ HookInv'
      BY <1>1, <1>2, <1>3, <1>7
         DEF RelanceDelete, IInv, RefInv, OrderInv, HookInv, TypeOK, orderVars, turboVars, ReqInv, At
    <2>2. req' \in [Req -> Request] /\ Reqs'
      BY <1>7, <1>1, ReturnReq DEF RelanceDelete
    <2> QED BY <2>1, <2>2, <1>1, <1>7 DEF IInv, TypeOK, RelanceDelete, orderVars, turboVars, NoRow
  <1> QED BY <1>4, <1>5, <1>6, <1>7 DEF Relance


(* The webhooks *)
LEMMA HookReadIInv ==
  ASSUME IInv, NEW p \in Req, NEW h \in hooks,
         AssignedRead(p, h) \/ DroppedRead(p, h) \/ GroupDroppedRead(p, h)
  PROVE  IInv'
  <1>1. /\ TypeOK /\ Reqs /\ HookInv
        /\ hooks' = hooks \/ hooks' = hooks \ {h}
        /\ UNCHANGED <<courseVars, orderVars, group, members, doubt>>
    BY DEF IInv, AssignedRead, DroppedRead, GroupDroppedRead, Consume
  <1>2. Stays /\ RefInv' /\ OrderInv' /\ HookInv'
    BY <1>1 DEF Stays, IInv, RefInv, OrderInv, HookInv, courseVars, orderVars
  <1>3. req' \in [Req -> Request] /\ Reqs'
    <2>1. ASSUME NEW o \in Order, NEW r \in Ref, Current(o, r)
          PROVE  course_id[o] \in Course /\ statut[course_id[o]] # "ABSENT"
      BY <2>1, <1>1 DEF Current, TypeOK, IInv, OrderInv
    <2>2. h.ref \in Ref /\ h.order \in Order \cup {NONE}
      BY <1>1 DEF TypeOK, Hook
    <2>3. CASE UNCHANGED req
      BY <2>3, <1>1, <1>2, SameReq
    <2>4. CASE AssignedRead(p, h) /\ ~UNCHANGED req
      <3>1. h.order \in Order /\ Current(h.order, h.ref)
        BY <2>4, <1>1 DEF AssignedRead, HookInv
      <3>2. PICK r : r = [Idle EXCEPT !.step = "assigned", !.order = h.order,
                                      !.course = course_id[h.order]]
        OBVIOUS
      <3>3. r \in Request /\ ReqInv(r)'
        BY <3>1, <3>2, <2>1, <2>2, <1>1 DEF Idle, Request, Steps, ReqInv, courseVars
      <3> QED BY <3>1, <3>2, <3>3, <2>4, <1>1, <1>2, GotoReq DEF AssignedRead
    <2>5. CASE DroppedRead(p, h) /\ ~UNCHANGED req
      <3>1. h.order \in Order /\ Current(h.order, h.ref) /\ "order" \in TurboDrops
        BY <2>5, <2>2, <1>1 DEF DroppedRead, HookInv
      <3>2. PICK r : r = [Idle EXCEPT !.step = "dropped", !.order = h.order,
                                      !.course = course_id[h.order]]
        OBVIOUS
      <3>3. r \in Request /\ ReqInv(r)'
        BY <3>1, <3>2, <2>1, <2>2, <1>1 DEF Idle, Request, Steps, ReqInv, courseVars, orderVars, Current
      <3> QED BY <3>1, <3>2, <3>3, <2>5, <1>1, <1>2, GotoReq DEF DroppedRead
    <2>6. CASE GroupDroppedRead(p, h) /\ ~UNCHANGED req
      <3>1. PICK c \in Course : /\ reference[c] = h.ref
                                /\ Goto(p, [Idle EXCEPT !.step = "dropped_group", !.course = c])
        BY <2>6 DEF GroupDroppedRead
      <3>2. statut[c] # "ABSENT"
        BY <3>1, <2>2, NoneAssumption DEF IInv, RefInv
      <3>3. PICK r : r = [Idle EXCEPT !.step = "dropped_group", !.course = c]
        OBVIOUS
      <3>4. r \in Request /\ ReqInv(r)'
        BY <3>1, <3>2, <3>3, <1>1 DEF Idle, Request, Steps, ReqInv, courseVars
      <3> QED BY <3>1, <3>3, <3>4, <1>1, <1>2, GotoReq
    <2> QED BY <2>3, <2>4, <2>5, <2>6
  <1> QED BY <1>1, <1>2, <1>3 DEF IInv, TypeOK, courseVars, orderVars

LEMMA HandleIInv ==
  ASSUME IInv, NEW p \in Req, Handle(p)
  PROVE  IInv'
  <1>1. PICK x : x = req[p]
    OBVIOUS
  <1>2. /\ TypeOK /\ Reqs /\ x \in Request /\ ReqInv(x)
        /\ x.step # "idle" => x.course \in Course /\ statut[x.course] # "ABSENT"
        /\ x.step \in {"assigned", "dropped"} => x.order \in Order
        /\ x.step = "dropped" => course_id[x.order] # NONE
    BY <1>1 DEF TypeOK, Reqs, IInv, ReqInv
  <1>3. Stays
    BY <1>2
       DEF Stays, Handle, AssignedWrite, AdvanceRead, AdvanceWrite, DroppedWrite, GroupDroppedWrite, Left,
           CancelEmptied, courseVars, orderVars, TypeOK, Terminal, NoRow
  <1>4. req' \in [Req -> Request] /\ Reqs'
    <2>1. PICK s \in {"advance", "advance_write", "left", "cancel_course"} : Step(p, s) \/ Return(p)
      BY DEF Handle, AssignedWrite, AdvanceRead, AdvanceWrite, DroppedWrite, GroupDroppedWrite, Left,
             CancelEmptied
    <2>2. ~Free(p)
      BY DEF Handle, AssignedWrite, AdvanceRead, AdvanceWrite, DroppedWrite, GroupDroppedWrite, Left,
             CancelEmptied, At, Free
    <2> QED BY <2>1, <2>2, <1>2, <1>3, StepReq, ReturnReq DEF Plain
  <1>5. CASE AssignedWrite(p)
    <2>1. courier' \in [Order -> BOOLEAN]
      BY <1>2, <1>5 DEF TypeOK, AssignedWrite
    <2>2. RefInv' /\ OrderInv' /\ HookInv'
      BY <1>5, Elsewhere DEF AssignedWrite, turboVars
    <2> QED BY <2>1, <2>2, <1>2, <1>4, <1>5 DEF IInv, TypeOK, AssignedWrite, courseVars, turboVars
  <1>6. CASE AdvanceRead(p) \/ Left(p)
    <2>1. RefInv' /\ OrderInv' /\ HookInv'
      BY <1>6, Elsewhere DEF AdvanceRead, Left, orderVars, turboVars
    <2> QED BY <2>1, <1>2, <1>4, <1>6 DEF IInv, TypeOK, AdvanceRead, Left, courseVars, orderVars, turboVars
  <1>7. CASE AdvanceWrite(p) \/ CancelEmptied(p)
    <2>1. /\ x.course \in Course /\ statut[x.course] # "ABSENT"
          /\ \E s \in {"ACCEPTED", "CANCELLED", statut[x.course]} :
                statut' = [statut EXCEPT ![x.course] = s]
          /\ UNCHANGED <<escalated, reference, orderVars, turboVars, doubt>>
      BY <1>1, <1>2, <1>7 DEF AdvanceWrite, CancelEmptied, At
    <2>2. RefInv' /\ OrderInv' /\ HookInv'
      BY <2>1, <1>2 DEF IInv, RefInv, OrderInv, HookInv, TypeOK, orderVars, turboVars
    <2>3. TypeOK'
      BY <2>1, <1>2, <1>4 DEF TypeOK, NoRow, orderVars, turboVars
    <2> QED BY <2>2, <2>3, <1>4 DEF IInv
  <1>8. CASE DroppedWrite(p) \/ GroupDroppedWrite(p)
    <2>1. /\ \A o \in Order : delivery'[o] # delivery[o] => course_id[o] # NONE
          /\ delivery' \in [Order -> {"PENDING", "CANCELLED"}]
          /\ UNCHANGED <<courseVars, course_id, courier, service, status, turboVars, doubt>>
      BY <1>1, <1>2, <1>8, NoneAssumption
         DEF DroppedWrite, GroupDroppedWrite, At, TypeOK, CancelActive, Active, Orders
    <2>2. RefInv' /\ HookInv'
      BY <2>1 DEF IInv, RefInv, HookInv, courseVars, turboVars
    <2>3. OrderInv'
      BY <2>1, <1>2 DEF IInv, OrderInv, courseVars
    <2> QED BY <2>1, <2>2, <2>3, <1>2, <1>4 DEF IInv, TypeOK, courseVars, turboVars
  <1> QED BY <1>5, <1>6, <1>7, <1>8 DEF Handle


LEMMA RestIInv ==
  ASSUME IInv, NEW p \in Req, CancelWrite(p) \/ Crash(p) \/ \E c \in Course : CancelRead(p, c)
  PROVE  IInv'
  <1>1. PICK x : x = req[p]
    OBVIOUS
  <1>2. /\ TypeOK /\ Reqs
        /\ x.step # "idle" => x.course \in Course /\ statut[x.course] # "ABSENT"
    BY <1>1 DEF Reqs, IInv, ReqInv
  <1>3. CASE CancelWrite(p)
    <2>1. /\ x.course \in Course /\ statut[x.course] # "ABSENT"
          /\ \E s \in {"CANCELLED", statut[x.course]} : statut' = [statut EXCEPT ![x.course] = s]
          /\ \A o \in Order : delivery'[o] # delivery[o] => course_id[o] # NONE
          /\ delivery' \in [Order -> {"PENDING", "CANCELLED"}]
          /\ Return(p)
          /\ UNCHANGED <<escalated, reference, course_id, courier, service, status, turboVars, doubt>>
      BY <1>1, <1>2, <1>3, NoneAssumption DEF CancelWrite, At, CancelActive, Active, Orders, TypeOK
    <2>2. RefInv' /\ OrderInv' /\ HookInv' /\ Stays
      BY <2>1, <1>2 DEF IInv, RefInv, OrderInv, HookInv, TypeOK, turboVars, Stays
    <2>3. req' \in [Req -> Request] /\ Reqs'
      BY <2>1, <2>2, <1>2, ReturnReq
    <2> QED BY <2>1, <2>2, <2>3, <1>2 DEF IInv, TypeOK, turboVars
  <1>4. CASE Crash(p)
    <2>1. RefInv' /\ OrderInv' /\ HookInv' /\ Stays
      BY <1>4, Elsewhere DEF Crash, orderVars, turboVars
    <2>2. req' \in [Req -> Request] /\ Reqs'
      BY <2>1, <1>2, <1>4, ReturnReq DEF Crash
    <2> QED BY <2>1, <2>2, <1>2, <1>4 DEF IInv, TypeOK, Crash, courseVars, orderVars, turboVars
  <1>5. ASSUME NEW c \in Course, CancelRead(p, c) PROVE IInv'
    <2>1. RefInv' /\ OrderInv' /\ HookInv' /\ Stays
      BY <1>5, Elsewhere DEF CancelRead, orderVars, turboVars
    <2>2. PICK n \in BOOLEAN, lot \in SUBSET Order :
             Begin(p, "cancel", c, n, lot) /\ statut'[c] # "ABSENT"
      <3>1. Begin(p, "cancel", c, FALSE, {}) /\ statut'[c] # "ABSENT"
        BY <1>5 DEF CancelRead, courseVars, NoRow
      <3>2. {} \in SUBSET Order /\ FALSE \in BOOLEAN
        OBVIOUS
      <3> QED BY <3>1, <3>2
    <2>3. req' \in [Req -> Request] /\ Reqs'
      BY <2>1, <2>2, <1>2, BeginReq DEF Plain
    <2> QED BY <2>1, <2>3, <1>2, <1>5 DEF IInv, TypeOK, CancelRead, courseVars, orderVars, turboVars
  <1> QED BY <1>3, <1>4, <1>5

(* The cashier and Turbo *)
LEMMA OutsideIInv ==
  ASSUME IInv, (\E c \in Course : InternalAccept(c)) \/ (\E o \in Order : CancelOrder(o)) \/ Turbo
  PROVE  IInv'
  <1>1. TypeOK /\ Reqs /\ UNCHANGED req
    BY DEF IInv, InternalAccept, CancelOrder, Turbo, TurboTake, TurboCancel, TurboDrop
  <1>2. ASSUME NEW c \in Course, InternalAccept(c) PROVE IInv'
    <2>1. RefInv' /\ OrderInv' /\ HookInv' /\ Stays
      BY <1>1, <1>2 DEF InternalAccept, IInv, RefInv, OrderInv, HookInv, Stays, TypeOK, orderVars, turboVars
    <2> QED BY <2>1, <1>1, <1>2, SameReq DEF IInv, TypeOK, InternalAccept, orderVars, turboVars
  <1>3. ASSUME NEW o \in Order, CancelOrder(o) PROVE IInv'
    <2>1. RefInv' /\ OrderInv' /\ HookInv' /\ Stays
      BY <1>3, Elsewhere DEF CancelOrder, turboVars
    <2> QED BY <2>1, <1>1, <1>3, SameReq DEF IInv, TypeOK, CancelOrder, courseVars, turboVars
  <1>4. CASE Turbo
    <2>1. PICK r \in Ref : TurboTake(r) \/ TurboCancel(r) \/ \E o \in Order : TurboDrop(r, o)
      BY <1>4 DEF Turbo
    <2>2. /\ UNCHANGED <<courseVars, orderVars, req, doubt>>
          /\ group' \in [Ref -> {"none", "open", "taken", "cancelled"}]
          /\ members' \in [Ref -> SUBSET Order]
      BY <2>1, <1>1 DEF TurboTake, TurboCancel, TurboDrop, TypeOK
    <2>3. hooks' \in SUBSET Hook /\ HookInv'
      <3>1. CASE TurboTake(r)
        <4>1. ASSUME NEW o \in members[r]
              PROVE  [kind |-> "assigned", ref |-> r, order |-> o] \in Hook /\ o \in Order
          BY <1>1 DEF TypeOK, Hook
        <4>2. hooks' = hooks \cup {[kind |-> "assigned", ref |-> r, order |-> o] : o \in members[r]}
          BY <3>1 DEF TurboTake
        <4> QED BY <4>1, <4>2, <1>1 DEF TypeOK, HookInv, IInv
      <3>2. CASE TurboCancel(r)
        <4>1. [kind |-> "cancelled", ref |-> r, order |-> NONE] \in Hook
          BY DEF Hook
        <4> QED BY <4>1, <3>2, <1>1 DEF TurboCancel, TypeOK, HookInv, IInv
      <3>3. ASSUME NEW o \in Order, TurboDrop(r, o) PROVE hooks' \in SUBSET Hook /\ HookInv'
        <4>1. [kind |-> "cancelled", ref |-> r, order |-> o] \in Hook
          BY DEF Hook
        <4> QED BY <4>1, <3>3, <1>1 DEF TurboDrop, TypeOK, HookInv, IInv
      <3> QED BY <2>1, <3>1, <3>2, <3>3
    <2>4. RefInv' /\ OrderInv' /\ Stays
      BY <2>2 DEF IInv, RefInv, OrderInv, courseVars, orderVars, Stays
    <2> QED BY <2>2, <2>3, <2>4, <1>1, SameReq DEF IInv, TypeOK, courseVars, orderVars
  <1> QED BY <1>2, <1>3, <1>4

LEMMA NextIInv == IInv /\ [Next]_vars => IInv'
  <1> SUFFICES ASSUME IInv, [Next]_vars PROVE IInv'
    OBVIOUS
  <1>1. CASE UNCHANGED vars
    <2>1. RefInv' /\ OrderInv' /\ HookInv' /\ Stays
      BY <1>1, Elsewhere DEF vars, courseVars
    <2> QED BY <2>1, <1>1, SameReq DEF vars, IInv, TypeOK
  <1>2. ASSUME NEW p \in Req, Arrive(p) PROVE IInv'
    BY <1>2, CreateIInv, EscalateIInv, TakeBackIInv, RelanceIInv, HookReadIInv, RestIInv DEF Arrive
  <1>3. ASSUME NEW p \in Req, Escalate(p) \/ TakeBack(p) \/ Relance(p) PROVE IInv'
    BY <1>3, EscalateIInv, TakeBackIInv, RelanceIInv
  <1>4. ASSUME NEW p \in Req, Handle(p) \/ CancelWrite(p) \/ Crash(p) PROVE IInv'
    BY <1>4, HandleIInv, RestIInv
  <1> QED BY <1>1, <1>2, <1>3, <1>4, OutsideIInv DEF Next

(* Whatever requests interleave, backends stop and webhooks are repeated,  *)
(* a request in flight works on a course that exists, and no two courses   *)
(* share a reference (CourseHelper.generateReference).                     *)
THEOREM Inductive == Spec => []IInv
  BY InitIInv, NextIInv, PTL DEF Spec

(* Every variable keeps its type (CourseOfferService, TurboService).       *)
THEOREM TypeCorrect == Spec => []TypeOK
  <1>1. IInv => TypeOK
    BY DEF IInv
  <1> QED BY <1>1, Inductive, PTL


-----------------------------------------------------------------------------
(* What the system does not lose track of *)

(* The steps of AtWork.                                                    *)
Tracking == {"lots", "release", "flip", "group", "failed", "doubt", "post"}

(* A reference Turbo has seen stays seen.                                  *)
Seen == \A r \in Ref : group[r] # "none" => group'[r] # "none"

Others(p) == \A q \in Req \ {p} : req'[q] = req[q]

LEMMA OnlyOne ==
  ASSUME TypeOK, NEW p \in Req, NEW r, Goto(p, r)
  PROVE  Others(p) /\ req'[p] = r
  BY DEF TypeOK, Goto, Others

LEMMA NextSeen ==
  ASSUME IInv, [Next]_vars
  PROVE  Seen
  <1>1. TypeOK
    BY DEF IInv
  <1>2. CASE UNCHANGED group
    BY <1>2 DEF Seen
  <1>3. ASSUME NEW p \in Req, PostAnswered(p) \/ PostLost(p) PROVE Seen
    BY <1>1, <1>3 DEF PostAnswered, PostLost, Receive, Seen, TypeOK
  <1>4. ASSUME NEW p \in Req, Annuler(p) \/ AnnulerLost(p) PROVE Seen
    BY <1>1, <1>4 DEF Annuler, AnnulerLost, Seen, TypeOK
  <1>5. CASE Turbo
    BY <1>1, <1>5 DEF Turbo, TurboTake, TurboCancel, TurboDrop, Seen, TypeOK, Live
  <1>6. UNCHANGED group \/ Turbo \/ \E p \in Req : \/ PostAnswered(p) \/ PostLost(p)
                                                  \/ Annuler(p) \/ AnnulerLost(p)
    <2>1. ASSUME NEW p \in Req, Arrive(p) PROVE UNCHANGED group
      BY <2>1 DEF Arrive, Create, EscalateRead, TakeBackRead, RelanceRead, CancelRead, AssignedRead,
                  DroppedRead, GroupDroppedRead, turboVars
    <2>2. ASSUME NEW p \in Req, Handle(p) \/ CancelWrite(p) \/ Crash(p) \/ Relance(p)
          PROVE  UNCHANGED group
      BY <2>2 DEF Handle, AssignedWrite, AdvanceRead, AdvanceWrite, DroppedWrite, GroupDroppedWrite, Left,
                  CancelEmptied, CancelWrite, Crash, Relance, RelanceCreate, RelanceMove, RelanceDelete,
                  turboVars
    <2>3. ASSUME NEW p \in Req, Escalate(p), ~PostAnswered(p), ~PostLost(p) PROVE UNCHANGED group
      BY <2>3 DEF Escalate, Claim, Lots, Release, Flip, GroupRead, PostRejected, Doubt, Settle, Failed,
                  turboVars
    <2>4. ASSUME NEW p \in Req, TakeBackWrite(p) PROVE UNCHANGED group
      BY <2>4 DEF TakeBackWrite, turboVars
    <2>5. ASSUME (\E c \in Course : InternalAccept(c)) \/ (\E o \in Order : CancelOrder(o)) \/ UNCHANGED vars
          PROVE  UNCHANGED group
      BY <2>5 DEF InternalAccept, CancelOrder, vars, turboVars
    <2> QED BY <2>1, <2>2, <2>3, <2>4, <2>5 DEF Next, TakeBack
  <1> QED BY <1>2, <1>3, <1>4, <1>5, <1>6

LEMMA TrackedKept ==
  ASSUME IInv, Tracked, Seen, NEW p \in Req, Others(p),
         \A c \in Course : escalated'[c] /\ doubt'[c] = {} =>
            \/ AtWork(p, c)'
            \/ /\ escalated[c] /\ doubt[c] = {} /\ reference'[c] = reference[c]
               /\ ~AtWork(p, c) \/ group'[reference[c]] # "none"
  PROVE  Tracked'
  <1> SUFFICES ASSUME NEW c \in Course, escalated'[c], doubt'[c] = {}, ~AtWork(p, c)'
               PROVE  group'[reference'[c]] # "none" \/ \E q \in Req : AtWork(q, c)'
    BY DEF Tracked
  <1>1. /\ escalated[c] /\ doubt[c] = {} /\ reference'[c] = reference[c]
        /\ ~AtWork(p, c) \/ group'[reference[c]] # "none"
    OBVIOUS
  <1>2. reference[c] \in Ref
    BY <1>1 DEF IInv, RefInv
  <1>3. CASE group[reference[c]] # "none"
    BY <1>1, <1>2, <1>3 DEF Seen
  <1>4. ASSUME NEW q \in Req, AtWork(q, c), ~AtWork(p, c) PROVE AtWork(q, c)'
    BY <1>1, <1>4 DEF AtWork, Others
  <1> QED BY <1>1, <1>3, <1>4 DEF Tracked

(* Where the request that runs is not AtWork on any course.                *)
LEMMA TrackedQuiet ==
  ASSUME IInv, Tracked, Seen, NEW p \in Req, Others(p), req[p].step \notin Tracking,
         UNCHANGED <<escalated, reference, doubt>>
  PROVE  Tracked'
  BY TrackedKept DEF AtWork, Tracking

LEMMA NextTracked == IInv /\ Tracked /\ [Next]_vars => Tracked'
  <1> SUFFICES ASSUME IInv, Tracked, [Next]_vars PROVE Tracked'
    OBVIOUS
  <1>1. TypeOK /\ Reqs /\ Seen
    BY NextSeen DEF IInv
  <1>2. ASSUME UNCHANGED <<escalated, reference, doubt, req>> PROVE Tracked'
    <2>1. ASSUME NEW c \in Course, escalated[c] PROVE reference[c] \in Ref
      BY <2>1 DEF IInv, RefInv
    <2> QED BY <1>1, <1>2, <2>1 DEF Tracked, Seen, AtWork
  <1>3. ASSUME NEW p \in Req, NEW c \in Course, NEW S \in SUBSET Order, Create(p, c, S) PROVE Tracked'
    <2>1. statut[c] = "ABSENT" /\ ~escalated[c] /\ UNCHANGED <<escalated, doubt>>
      BY <1>3 DEF Create, IInv, RefInv
    <2>2. \A d \in Course \ {c} : reference'[d] = reference[d]
      BY <1>1, <1>3 DEF Create, TypeOK
    <2>3. Others(p) /\ req[p].step = "idle"
      BY <1>1, <1>3, OnlyOne DEF Create, Begin, Others, Free
    <2> QED BY <2>1, <2>2, <2>3, <1>1, TrackedKept DEF AtWork
  <1>4. ASSUME NEW p \in Req, NEW c \in Course,
               EscalateRead(p, c) \/ TakeBackRead(p, c) \/ RelanceRead(p, c) \/ CancelRead(p, c)
        PROVE  Tracked'
    <2>1. req[p].step = "idle" /\ Others(p) /\ UNCHANGED <<escalated, reference, doubt>>
      BY <1>1, <1>4, OnlyOne DEF EscalateRead, TakeBackRead, RelanceRead, CancelRead, Begin, Free, courseVars
    <2> QED BY <2>1, <1>1, TrackedQuiet DEF Tracking
  <1>5. ASSUME NEW p \in Req, NEW h \in hooks,
               AssignedRead(p, h) \/ DroppedRead(p, h) \/ GroupDroppedRead(p, h)
        PROVE  Tracked'
    <2>1. req[p].step = "idle" /\ Others(p) /\ UNCHANGED <<escalated, reference, doubt>>
      BY <1>1, <1>5, OnlyOne DEF AssignedRead, DroppedRead, GroupDroppedRead, Free, courseVars, Others
    <2> QED BY <2>1, <1>1, TrackedQuiet DEF Tracking
  <1>6. ASSUME NEW p \in Req, Handle(p) \/ CancelWrite(p) \/ RelanceMove(p) \/ RelanceDelete(p)
                              \/ Annuler(p) \/ AnnulerLost(p)
        PROVE  Tracked'
    <2>1. Others(p)
      <3>1. PICK r : Goto(p, r)
        BY <1>6 DEF Handle, AssignedWrite, AdvanceRead, AdvanceWrite, DroppedWrite, GroupDroppedWrite, Left,
                    CancelEmptied, CancelWrite, RelanceMove, RelanceDelete, Annuler, AnnulerLost, Step, Return
      <3> QED BY <3>1, <1>1, OnlyOne
    <2>2. req[p].step \notin Tracking /\ UNCHANGED <<escalated, reference, doubt>>
      BY <1>6 DEF Handle, AssignedWrite, AdvanceRead, AdvanceWrite, DroppedWrite, GroupDroppedWrite, Left,
                  CancelEmptied, CancelWrite, RelanceMove, RelanceDelete, Annuler, AnnulerLost, At, Tracking,
                  courseVars
    <2> QED BY <2>1, <2>2, <1>1, TrackedQuiet
  <1>7. ASSUME NEW p \in Req, RelanceCreate(p) PROVE Tracked'
    <2>1. PICK n \in Course, f \in Ref :
             /\ statut[n] = "ABSENT"
             /\ reference' = [reference EXCEPT ![n] = f]
             /\ Goto(p, [req[p] EXCEPT !.step = "move", !.course = n, !.source = req[p].course])
      BY <1>7 DEF RelanceCreate
    <2>2. /\ ~escalated[n] /\ UNCHANGED <<escalated, doubt>> /\ req[p].step = "relance"
          /\ \A d \in Course \ {n} : reference'[d] = reference[d]
      BY <2>1, <1>1, <1>7 DEF RelanceCreate, IInv, RefInv, At, TypeOK
    <2>3. Others(p)
      BY <2>1, <1>1, OnlyOne
    <2> QED BY <2>2, <2>3, <1>1, TrackedKept DEF AtWork
  <1>8. ASSUME NEW p \in Req, Escalate(p) \/ TakeBackWrite(p) \/ Crash(p) PROVE Tracked'
    <2>1. PICK c : c = req[p].course
      OBVIOUS
    <2>2. c \in Course
      BY <2>1, <1>1, <1>8
         DEF Reqs, ReqInv, Escalate, Claim, Lots, Release, Flip, GroupRead, PostAnswered, PostRejected,
             PostLost, Doubt, Settle, Failed, TakeBackWrite, Crash, At, Free
    <2>3. PICK x : x = req[p]
      OBVIOUS
    <2>4. x \in Request /\ (x.step = "post" => x.ref \in Ref) /\ req \in [Req -> Request]
      BY <2>3, <1>1 DEF TypeOK, Reqs, ReqInv
    <2>5. PICK r : Goto(p, r)
      BY <1>8 DEF Escalate, Claim, Lots, Release, Flip, GroupRead, PostAnswered, PostRejected,
             PostLost, Doubt, Settle, Failed, TakeBackWrite, Crash, Step, Return
    <2>6. Others(p) /\ req' = [req EXCEPT ![p] = r]
      BY <2>5, <1>1, OnlyOne DEF Goto
    <2>7. \A d \in Course \ {c} : /\ ~AtWork(p, d)
                                  /\ escalated'[d] = escalated[d] /\ doubt'[d] = doubt[d]
                                  /\ reference'[d] = reference[d]
      BY <2>1, <2>2, <1>1, <1>8
         DEF Escalate, Claim, Lots, Release, Flip, GroupRead, PostAnswered, PostRejected, PostLost, Doubt,
             Settle, Failed, TakeBackWrite, Crash, AtWork, TypeOK, courseVars
    <2>8. escalated'[c] /\ doubt'[c] = {} =>
            \/ AtWork(p, c)'
            \/ /\ escalated[c] /\ doubt[c] = {} /\ reference'[c] = reference[c]
               /\ ~AtWork(p, c) \/ group'[reference[c]] # "none"
      <3>1. CASE Claim(p)
        <4>1. CASE Step(p, "lots")
          BY <4>1, <2>1, <2>3, <2>4 DEF AtWork, Goto, Step, Request
        <4>2. CASE ~Step(p, "lots")
          BY <4>2, <3>1 DEF Claim, AtWork, At
        <4> QED BY <4>1, <4>2
      <3>8. CASE Lots(p)
        <4>1. PICK s \in {"release", "flip"}, lot \in SUBSET Order :
                  Goto(p, [x EXCEPT !.step = s, !.lot = lot])
          BY <3>8, <2>3 DEF Lots, Active, Orders
        <4> QED BY <4>1, <2>1, <2>3, <2>4 DEF AtWork, Goto, Request
      <3>9. CASE PostRejected(p)
        BY <3>9, <2>1, <2>3, <2>4 DEF PostRejected, AtWork, At, Goto, Step, Request, courseVars
      <3>2. CASE Release(p) \/ Failed(p) \/ TakeBackWrite(p)
        BY <3>2, <2>1, <2>2, <1>1 DEF Release, Failed, TakeBackWrite, TypeOK
      <3>3. CASE Flip(p) \/ Settle(p)
        BY <3>3, <2>1, <2>2, <2>3, <2>4
           DEF Flip, Settle, AtWork, At, courseVars, Goto, Step, Return, Request
      <3>4. CASE GroupRead(p)
        BY <3>4, <2>1, <2>2, <2>3, <2>4 DEF GroupRead, AtWork, At, courseVars, Goto, Request
      <3>5. CASE PostAnswered(p)
        <4>1. UNCHANGED <<escalated, reference, doubt>> /\ x.ref \in Ref /\ req[p].step = "post"
          BY <3>5, <2>3, <2>4 DEF PostAnswered, At, courseVars
        <4>2. group'[x.ref] # "none"
          BY <4>1, <3>5, <2>3, <1>1 DEF PostAnswered, Receive, TypeOK
        <4>3. ~AtWork(p, c) \/ group'[reference[c]] # "none"
          BY <4>1, <4>2, <2>3 DEF AtWork
        <4>4. escalated' = escalated /\ doubt' = doubt /\ reference' = reference
          BY <4>1
        <4> QED BY <4>3, <4>4, Zenon
      <3>6. CASE PostLost(p)
        BY <3>6, <2>1, <2>2, <2>3, <2>4 DEF PostLost, AtWork, At, courseVars, Goto, Step, Request
      <3>7. CASE Doubt(p) \/ Crash(p)
        <4>1. PICK d : doubt' = [doubt EXCEPT ![c] = @ \cup {d}]
          BY <3>7, <2>1 DEF Doubt, Crash
        <4>2. d \in doubt'[c]
          BY <4>1, <2>2, <1>1 DEF TypeOK
        <4> QED BY <4>2
      <3> QED BY <3>1, <3>2, <3>3, <3>4, <3>5, <3>6, <3>7, <3>8, <3>9, <1>8 DEF Escalate
    <2> QED BY <2>2, <2>6, <2>7, <2>8, <1>1, TrackedKept
  <1>9. CASE Turbo \/ (\E c \in Course : InternalAccept(c)) \/ (\E o \in Order : CancelOrder(o))
             \/ UNCHANGED vars
    <2>1. UNCHANGED <<escalated, reference, doubt, req>>
      BY <1>9 DEF Turbo, TurboTake, TurboCancel, TurboDrop, InternalAccept, CancelOrder, vars, courseVars
    <2> QED BY <2>1, <1>2
  <1> QED BY <1>3, <1>4, <1>5, <1>6, <1>7, <1>8, <1>9 DEF Next, Arrive, TakeBack, Relance


(* A subcontracted course that Turbo does not have is in the hands of a    *)
(* request, or the staff was told to check, or a backend stopped: however  *)
(* many requests there are, take-backs and relaunches among them           *)
(* (escalateToTurbo: "on ne perd jamais la commande").                     *)
THEOREM NothingLost == Spec => []Tracked
  <1>1. Init => Tracked
    BY DEF Init, Tracked
  <1> QED BY <1>1, NextTracked, Inductive, PTL DEF Spec

(* No course is left with Turbo unbeknown to Turbo and to the staff by     *)
(* requests that overlap at will, as long as none is cut short.            *)
THEOREM NoStranding ==
  ASSUME ~CanCrash
  PROVE  Spec => []NoSilentStranding
  <1> DEFINE NoCrash == \A c \in Course : "crash" \notin doubt[c]
  <1>1. Init => NoCrash
    BY DEF Init
  <1>2. IInv /\ NoCrash /\ [Next]_vars => NoCrash'
    <2> SUFFICES ASSUME IInv, NoCrash, [Next]_vars PROVE NoCrash'
      OBVIOUS
    <2>1. CASE \E p \in Req : Doubt(p)
      BY <2>1 DEF Doubt, IInv, TypeOK
    <2>2. CASE ~\E p \in Req : Doubt(p)
      <3>1. UNCHANGED doubt
        <4>1. ASSUME NEW p \in Req, Arrive(p) PROVE UNCHANGED doubt
          BY <4>1 DEF Arrive, Create, EscalateRead, TakeBackRead, RelanceRead, CancelRead, AssignedRead,
                      DroppedRead, GroupDroppedRead
        <4>2. ASSUME NEW p \in Req, Escalate(p) PROVE UNCHANGED doubt
          BY <4>2, <2>2 DEF Escalate, Claim, Lots, Release, Flip, GroupRead, PostAnswered, PostRejected,
                            PostLost, Settle, Failed
        <4>3. ASSUME NEW p \in Req, TakeBack(p) \/ Relance(p) \/ Handle(p) \/ CancelWrite(p)
              PROVE  UNCHANGED doubt
          BY <4>3 DEF TakeBack, Annuler, AnnulerLost, TakeBackWrite, Relance, RelanceCreate, RelanceMove,
                      RelanceDelete, Handle, AssignedWrite, AdvanceRead, AdvanceWrite, DroppedWrite,
                      GroupDroppedWrite, Left, CancelEmptied, CancelWrite
        <4>4. ASSUME Turbo \/ (\E c \in Course : InternalAccept(c)) \/ (\E o \in Order : CancelOrder(o))
                           \/ UNCHANGED vars
              PROVE  UNCHANGED doubt
          BY <4>4 DEF Turbo, TurboTake, TurboCancel, TurboDrop, InternalAccept, CancelOrder, vars
        <4> QED BY <4>1, <4>2, <4>3, <4>4 DEF Next, Crash
      <3> QED BY <3>1
    <2> QED BY <2>1, <2>2
  <1>3. IInv /\ Tracked /\ NoCrash => NoSilentStranding
    <2> SUFFICES ASSUME IInv, Tracked, NoCrash, \A p \in Req : Free(p), NEW c \in Course,
                        escalated[c], "bell" \notin doubt[c]
                 PROVE  group[reference[c]] # "none"
      BY DEF NoSilentStranding
    <2>1. doubt[c] = {}
      BY DEF IInv, TypeOK
    <2>2. \A p \in Req : ~AtWork(p, c)
      BY DEF AtWork, Free
    <2> QED BY <2>1, <2>2 DEF Tracked
  <1> QED BY <1>1, <1>2, <1>3, NothingLost, Inductive, PTL DEF Spec


-----------------------------------------------------------------------------
(* No course without deliveries *)

LEMMA NextDropsCurrent ==
  ASSUME NoStaleDrop
  PROVE  IInv /\ DropsCurrent /\ [Next]_vars => DropsCurrent'
  <1> SUFFICES ASSUME IInv, DropsCurrent, [Next]_vars, NEW q \in Req, At(q, "dropped")'
               PROVE  course_id'[req'[q].order] = req'[q].course
    BY DEF DropsCurrent
  <1>1. TypeOK /\ Reqs
    BY DEF IInv
  <1>2. ASSUME UNCHANGED course_id, req'[q] = req[q] PROVE course_id'[req'[q].order] = req'[q].course
    BY <1>2 DEF DropsCurrent, At
  <1>3. ASSUME req'[q] = req[q]
        PROVE  req[q].order \in Order /\ course_id[req[q].order] # NONE /\ "order" \in TurboDrops
    BY <1>1, <1>3 DEF At, Reqs, ReqInv
  <1>4. ASSUME NEW p \in Req, NEW c \in Course, NEW S \in SUBSET Order, Create(p, c, S)
        PROVE  course_id'[req'[q].order] = req'[q].course
    <2>1. req'[q] = req[q]
      <3>1. CASE UNCHANGED req
        BY <3>1
      <3>2. CASE Begin(p, "claim", c, TRUE, {})
        <4>1. PICK r : r = [Idle EXCEPT !.step = "claim", !.course = c, !.native = TRUE, !.lot = {}]
          OBVIOUS
        <4>2. r.step = "claim" /\ req' = [req EXCEPT ![p] = r]
          BY <3>2, <4>1 DEF Begin, Goto, Idle
        <4> QED BY <1>1, <4>2 DEF At, TypeOK
      <3> QED BY <1>4, <3>1, <3>2 DEF Create
    <2>2. req[q].order \notin S
      BY <2>1, <1>3, <1>4 DEF Create
    <2> QED BY <2>1, <2>2, <1>3, <1>4 DEF Create, DropsCurrent, At
  <1>5. ASSUME NEW p \in Req, RelanceMove(p) PROVE course_id'[req'[q].order] = req'[q].course
    <2>1. PICK x : x = req[p]
      OBVIOUS
    <2>2. x \in Request /\ x.step = "move" /\ "relance" \in Ops
      BY <2>1, <1>1, <1>5 DEF RelanceMove, At, Reqs, ReqInv, TypeOK
    <2>3. req'[p].step # "dropped"
      BY <2>1, <2>2, <1>1, <1>5 DEF RelanceMove, Step, Return, Goto, Idle, TypeOK, Request
    <2>4. p # q
      BY <2>3 DEF At
    <2>5. req'[q] = req[q]
      BY <2>4, <1>1, <1>5 DEF RelanceMove, Step, Return, Goto, TypeOK
    <2> QED BY <2>2, <2>4, <2>5, <1>3 DEF NoStaleDrop, One
  <1>6. ASSUME NEW p \in Req, NEW h \in hooks,
               AssignedRead(p, h) \/ DroppedRead(p, h) \/ GroupDroppedRead(p, h)
        PROVE  course_id'[req'[q].order] = req'[q].course
    <2>1. UNCHANGED course_id
      BY <1>6 DEF AssignedRead, DroppedRead, GroupDroppedRead, orderVars
    <2>2. CASE req'[q] = req[q]
      BY <2>1, <2>2, <1>2
    <2>3. CASE req'[q] # req[q]
      <3>1. p = q /\ req'[p].step = "dropped" /\ req' # req
        BY <2>3, <1>1, <1>6, OnlyOne DEF AssignedRead, DroppedRead, GroupDroppedRead, At, Others
      <3>3. Goto(p, [Idle EXCEPT !.step = "dropped", !.order = h.order, !.course = course_id[h.order]])
        <4>1. ASSUME AssignedRead(p, h) PROVE FALSE
          <5>1. PICK r : r = [Idle EXCEPT !.step = "assigned", !.order = h.order,
                                          !.course = course_id[h.order]]
            OBVIOUS
          <5>2. Goto(p, r) /\ r.step = "assigned"
            BY <5>1, <4>1, <3>1 DEF AssignedRead, Idle
          <5> QED BY <5>2, <3>1, <1>1, OnlyOne
        <4>2. ASSUME GroupDroppedRead(p, h) PROVE FALSE
          <5>1. PICK c \in Course : Goto(p, [Idle EXCEPT !.step = "dropped_group", !.course = c])
            BY <4>2, <3>1 DEF GroupDroppedRead
          <5>3. PICK r : r = [Idle EXCEPT !.step = "dropped_group", !.course = c] /\ Goto(p, r)
            BY <5>1
          <5>2. r.step = "dropped_group"
            BY <5>3 DEF Idle
          <5> QED BY <5>3, <5>2, <3>1, <1>1, OnlyOne
        <4> QED BY <4>1, <4>2, <3>1, <1>6 DEF DroppedRead
      <3>4. req'[q].order = h.order /\ req'[q].course = course_id[h.order]
        BY <3>1, <3>3, <1>1 DEF Goto, Idle, TypeOK
      <3> QED BY <3>4, <2>1
    <2> QED BY <2>2, <2>3
  <1>7. ASSUME NEW p \in Req, NEW r, Goto(p, r), r.step # "dropped", UNCHANGED course_id
        PROVE  course_id'[req'[q].order] = req'[q].course
    <2>1. p # q
      BY <1>1, <1>7, OnlyOne DEF At
    <2> QED BY <2>1, <1>1, <1>2, <1>7, OnlyOne DEF Others
  <1>8. ASSUME NEW p \in Req, NEW c \in Course,
               EscalateRead(p, c) \/ TakeBackRead(p, c) \/ RelanceRead(p, c) \/ CancelRead(p, c)
        PROVE  course_id'[req'[q].order] = req'[q].course
    <2>1. UNCHANGED course_id
      BY <1>8 DEF EscalateRead, TakeBackRead, RelanceRead, CancelRead, orderVars
    <2>2. PICK r : Goto(p, r) /\ r.step # "dropped"
      <3>1. CASE TakeBackRead(p, c)
        <4>1. PICK r : r = [Idle EXCEPT !.step = "annuler", !.course = c, !.lot = Orders(c),
                                        !.ref = reference[c]]
          OBVIOUS
        <4>2. Goto(p, r) /\ r.step = "annuler"
          BY <4>1, <3>1 DEF TakeBackRead, Idle
        <4> QED BY <4>2
      <3>2. CASE ~TakeBackRead(p, c)
        <4>1. PICK s \in {"claim", "relance", "cancel"} : \E n, lot : Begin(p, s, c, n, lot)
          BY <3>2, <1>8 DEF EscalateRead, RelanceRead, CancelRead
        <4>2. PICK n, lot : Begin(p, s, c, n, lot)
          BY <4>1
        <4>3. PICK r : r = [Idle EXCEPT !.step = s, !.course = c, !.native = n, !.lot = lot]
          OBVIOUS
        <4>4. Goto(p, r) /\ r.step = s
          BY <4>2, <4>3 DEF Begin, Idle
        <4> QED BY <4>4
      <3> QED BY <3>1, <3>2
    <2> QED BY <2>1, <2>2, <1>7
  <1>9. ASSUME NEW p \in Req, Escalate(p) \/ TakeBack(p) \/ RelanceCreate(p) \/ RelanceDelete(p)
                              \/ Handle(p) \/ CancelWrite(p) \/ Crash(p)
        PROVE  course_id'[req'[q].order] = req'[q].course
    <2>1. UNCHANGED course_id
      BY <1>9 DEF Escalate, Claim, Lots, Release, Flip, GroupRead, PostAnswered, PostRejected, PostLost,
                  Doubt, Settle, Failed, TakeBack, Annuler, AnnulerLost, TakeBackWrite, RelanceCreate,
                  RelanceDelete, Handle, AssignedWrite, AdvanceRead, AdvanceWrite, DroppedWrite,
                  GroupDroppedWrite, Left, CancelEmptied, CancelWrite, Crash, orderVars
    <2>2. PICK x : x = req[p] /\ x \in Request
      BY <1>1 DEF TypeOK
    <2>3. \/ Return(p)
          \/ \E s \in Steps \ {"dropped"} : Step(p, s)
          \/ \E s \in {"release", "flip"}, lot \in SUBSET Order : Goto(p, [x EXCEPT !.step = s, !.lot = lot])
          \/ \E f, S : Goto(p, [x EXCEPT !.step = "post", !.ref = f, !.sent = S])
          \/ \E c, d : Goto(p, [x EXCEPT !.step = "move", !.course = c, !.source = d])
      BY <2>2, <1>9
         DEF Escalate, Claim, Lots, Release, Flip, GroupRead, PostAnswered, PostRejected, PostLost,
             Doubt, Settle, Failed, TakeBack, Annuler, AnnulerLost, TakeBackWrite, RelanceCreate,
             RelanceDelete, Handle, AssignedWrite, AdvanceRead, AdvanceWrite, DroppedWrite,
             GroupDroppedWrite, Left, CancelEmptied, CancelWrite, Crash, Steps, Step, Active, Orders
    <2>4. PICK r : Goto(p, r) /\ r.step # "dropped"
      <3>1. CASE Return(p)
        BY <3>1 DEF Return, Idle
      <3>2. ASSUME NEW s \in Steps \ {"dropped"}, Step(p, s) PROVE \E r : Goto(p, r) /\ r.step # "dropped"
        <4>1. PICK r : r = [x EXCEPT !.step = s]
          OBVIOUS
        <4> QED BY <4>1, <3>2, <2>2 DEF Step, Request
      <3>3. ASSUME NEW s \in {"release", "flip"}, NEW lot \in SUBSET Order,
                   Goto(p, [x EXCEPT !.step = s, !.lot = lot])
            PROVE  \E r : Goto(p, r) /\ r.step # "dropped"
        <4>1. PICK r : r = [x EXCEPT !.step = s, !.lot = lot]
          OBVIOUS
        <4>2. r.step # "dropped"
          BY <4>1, <3>3, <2>2 DEF Request
        <4> QED BY <4>1, <4>2, <3>3
      <3>4. ASSUME NEW f, NEW S, Goto(p, [x EXCEPT !.step = "post", !.ref = f, !.sent = S])
            PROVE  \E r : Goto(p, r) /\ r.step # "dropped"
        <4>1. PICK r : r = [x EXCEPT !.step = "post", !.ref = f, !.sent = S]
          OBVIOUS
        <4>2. r.step # "dropped"
          BY <4>1, <3>4, <2>2 DEF Request
        <4> QED BY <4>1, <4>2, <3>4
      <3>5. ASSUME NEW c, NEW d, Goto(p, [x EXCEPT !.step = "move", !.course = c, !.source = d])
            PROVE  \E r : Goto(p, r) /\ r.step # "dropped"
        <4>1. PICK r : r = [x EXCEPT !.step = "move", !.course = c, !.source = d]
          OBVIOUS
        <4>2. r.step # "dropped"
          BY <4>1, <3>5, <2>2 DEF Request
        <4> QED BY <4>1, <4>2, <3>5
      <3> QED BY <3>1, <3>2, <3>3, <3>4, <3>5, <2>3
    <2> QED BY <2>1, <2>4, <1>7
  <1>10. CASE Turbo \/ (\E c \in Course : InternalAccept(c)) \/ (\E o \in Order : CancelOrder(o))
              \/ UNCHANGED vars
    <2>1. UNCHANGED <<course_id, req>>
      BY <1>10 DEF Turbo, TurboTake, TurboCancel, TurboDrop, InternalAccept, CancelOrder, vars, orderVars
    <2> QED BY <2>1, <1>2
  <1> QED BY <1>4, <1>5, <1>6, <1>8, <1>9, <1>10 DEF Next, Arrive, Relance


(* The steps of Closing.                                                   *)
Ending == {"move", "delete", "left", "cancel_course"}

LEMMA CarriedKept ==
  ASSUME Carried, NEW p \in Req, Others(p),
         \A c \in Course : statut'[c] = "PENDING_ASSIGNMENT" /\ "crash" \notin doubt'[c] =>
            \/ Active(c)' # {}
            \/ Closing(p, c)'
            \/ /\ statut[c] = "PENDING_ASSIGNMENT" /\ "crash" \notin doubt[c]
               /\ ~Closing(p, c) /\ Active(c) \subseteq Active(c)'
  PROVE  Carried'
  <1> SUFFICES ASSUME NEW c \in Course, statut'[c] = "PENDING_ASSIGNMENT", "crash" \notin doubt'[c],
                      Active(c)' = {}, ~Closing(p, c)'
               PROVE  \E q \in Req : Closing(q, c)'
    BY DEF Carried
  <1>1. /\ statut[c] = "PENDING_ASSIGNMENT" /\ "crash" \notin doubt[c]
        /\ ~Closing(p, c) /\ Active(c) = {}
    OBVIOUS
  <1>2. PICK q \in Req \ {p} : Closing(q, c)
    BY <1>1 DEF Carried
  <1> QED BY <1>2 DEF Closing, Others

(* Where nothing of this is written.                                       *)
LEMMA CarriedQuiet ==
  ASSUME Carried, NEW p \in Req, Others(p), req[p].step \notin Ending,
         UNCHANGED <<statut, course_id, delivery>>, \A c \in Course : doubt[c] \subseteq doubt'[c]
  PROVE  Carried'
  <1>1. \A c \in Course : Active(c)' = Active(c) /\ ~Closing(p, c)
    BY DEF Active, Orders, Closing, Ending
  <1> QED BY <1>1, CarriedKept

LEMMA CarriedSame ==
  ASSUME Carried, UNCHANGED <<course_id, delivery, req, doubt>>,
         \A c \in Course : statut'[c] = "PENDING_ASSIGNMENT" => statut[c] = "PENDING_ASSIGNMENT"
  PROVE  Carried'
  BY DEF Carried, Active, Orders, Closing

LEMMA NextCarried ==
  IInv /\ Carried /\ DropsCurrent /\ [Next]_vars => Carried'
  <1> SUFFICES ASSUME IInv, Carried, DropsCurrent, [Next]_vars PROVE Carried'
    OBVIOUS
  <1>1. TypeOK /\ Reqs
    BY DEF IInv
  <1>2. ASSUME NEW p \in Req, NEW r, Goto(p, r) PROVE Others(p) /\ req'[p] = r
    BY <1>1, <1>2, OnlyOne
  <1>3. ASSUME NEW p \in Req, NEW c \in Course, NEW S \in SUBSET Order, Create(p, c, S) PROVE Carried'
    <2>1. /\ statut' = [statut EXCEPT ![c] = "PENDING_ASSIGNMENT"]
          /\ course_id' = [o \in Order |-> IF o \in S THEN c ELSE course_id[o]]
          /\ S # {} /\ \A o \in S : course_id[o] = NONE
          /\ UNCHANGED <<delivery, doubt>>
          /\ req[p].step = "idle"
      BY <1>3 DEF Create, Begin, Free
    <2>2. Others(p)
      BY <1>2, <1>3 DEF Create, Begin, Others
    <2>3. Active(c)' # {}
      BY <2>1, <1>1 DEF Active, Orders, IInv, OrderInv
    <2>4. ASSUME NEW d \in Course \ {c}
          PROVE  statut'[d] = statut[d] /\ Active(d) \subseteq Active(d)' /\ ~Closing(p, d)
      BY <2>1, <1>1, NoneAssumption DEF Active, Orders, TypeOK, Closing
    <2> QED BY <2>1, <2>2, <2>3, <2>4, CarriedKept
  <1>4. ASSUME NEW p \in Req, NEW c \in Course,
               EscalateRead(p, c) \/ TakeBackRead(p, c) \/ RelanceRead(p, c) \/ CancelRead(p, c)
        PROVE  Carried'
    <2>1. Others(p)
      BY <1>2, <1>4 DEF EscalateRead, TakeBackRead, RelanceRead, CancelRead, Begin
    <2>2. UNCHANGED <<statut, course_id, delivery, doubt>> /\ req[p].step = "idle"
      BY <1>4 DEF EscalateRead, TakeBackRead, RelanceRead, CancelRead, Begin, courseVars, orderVars, Free
    <2> QED BY <2>1, <2>2, CarriedQuiet DEF Ending
  <1>5. ASSUME NEW p \in Req, NEW h \in hooks,
               AssignedRead(p, h) \/ DroppedRead(p, h) \/ GroupDroppedRead(p, h)
        PROVE  Carried'
    <2>1. Others(p)
      BY <1>2, <1>5 DEF AssignedRead, DroppedRead, GroupDroppedRead, Others
    <2>2. UNCHANGED <<statut, course_id, delivery, doubt>> /\ req[p].step = "idle"
      BY <1>5 DEF AssignedRead, DroppedRead, GroupDroppedRead, courseVars, orderVars, Free
    <2> QED BY <2>1, <2>2, CarriedQuiet DEF Ending
  <1>6. ASSUME NEW p \in Req, Escalate(p) \/ TakeBack(p) \/ AssignedWrite(p) \/ AdvanceRead(p)
        PROVE  Carried'
    <2>1. PICK r : Goto(p, r)
      BY <1>6 DEF Escalate, Claim, Lots, Release, Flip, GroupRead, PostAnswered, PostRejected, PostLost, Doubt,
                  Settle, Failed, TakeBack, Annuler, AnnulerLost, TakeBackWrite, AssignedWrite, AdvanceRead,
                  Step, Return
    <2>2. UNCHANGED <<statut, course_id, delivery>> /\ req[p].step \notin Ending
      BY <1>6 DEF Escalate, Claim, Lots, Release, Flip, GroupRead, PostAnswered, PostRejected, PostLost, Doubt,
                  Settle, Failed, TakeBack, Annuler, AnnulerLost, TakeBackWrite, AssignedWrite, AdvanceRead,
                  courseVars, orderVars, At, Ending
    <2>3. \A c \in Course : doubt[c] \subseteq doubt'[c]
      <3>1. CASE Doubt(p)
        BY <3>1, <1>1 DEF Doubt, TypeOK
      <3> QED BY <3>1, <1>6
              DEF Escalate, Claim, Lots, Release, Flip, GroupRead, PostAnswered, PostRejected, PostLost,
                  Settle, Failed, TakeBack, Annuler, AnnulerLost, TakeBackWrite, AssignedWrite, AdvanceRead
    <2> QED BY <2>1, <2>2, <2>3, <1>2, CarriedQuiet
  <1>7. ASSUME NEW p \in Req, RelanceCreate(p) PROVE Carried'
    <2>1. PICK x : x = req[p] /\ x \in Request /\ x.step = "relance"
      BY <1>1, <1>7 DEF TypeOK, RelanceCreate, At
    <2>2. PICK n \in Course :
             /\ statut' = [statut EXCEPT ![n] = "PENDING_ASSIGNMENT"]
             /\ Goto(p, [x EXCEPT !.step = "move", !.course = n, !.source = x.course])
      BY <2>1, <1>7 DEF RelanceCreate
    <2>3. PICK r : r = [x EXCEPT !.step = "move", !.course = n, !.source = x.course]
      OBVIOUS
    <2>4. r.step = "move" /\ r.course = n
      BY <2>1, <2>3 DEF Request
    <2>5. Others(p) /\ req'[p] = r
      BY <2>2, <2>3, <1>2
    <2>6. Closing(p, n)'
      BY <2>4, <2>5 DEF Closing
    <2>7. UNCHANGED <<course_id, delivery, doubt>>
      BY <1>7 DEF RelanceCreate, orderVars
    <2>8. ASSUME NEW d \in Course \ {n}
          PROVE  statut'[d] = statut[d] /\ Active(d)' = Active(d) /\ ~Closing(p, d)
      BY <2>1, <2>2, <2>7, <1>1 DEF Active, Orders, TypeOK, Closing
    <2> QED BY <2>5, <2>6, <2>7, <2>8, CarriedKept
  <1>8. ASSUME NEW p \in Req, RelanceMove(p) PROVE Carried'
    <2>1. PICK x : x = req[p] /\ x \in Request /\ x.step = "move"
      BY <1>1, <1>8 DEF TypeOK, RelanceMove, At
    <2>2. x.lot # {} /\ x.lot \subseteq Order /\ x.course \in Course
      BY <2>1, <1>1 DEF Reqs, ReqInv, Request
    <2>3. UNCHANGED <<statut, doubt>> /\ Others(p)
      BY <1>2, <1>8 DEF RelanceMove, courseVars, Step, Return
    <2>4. ASSUME NEW d \in Course PROVE d # x.course => ~Closing(p, d)
      BY <2>1 DEF Closing
    <2>5. CASE \A o \in x.lot : course_id[o] = x.source /\ delivery[o] = "CANCELLED"
      <3>1. /\ course_id' = [o \in Order |-> IF o \in x.lot THEN x.course ELSE course_id[o]]
            /\ delivery'  = [o \in Order |-> IF o \in x.lot THEN "PENDING" ELSE delivery[o]]
        BY <2>1, <2>5, <1>8 DEF RelanceMove
      <3>2. Active(x.course)' # {}
        BY <3>1, <2>2 DEF Active, Orders
      <3>3. ASSUME NEW d \in Course \ {x.course} PROVE Active(d) \subseteq Active(d)'
        BY <3>1, <2>5 DEF Active, Orders
      <3> QED BY <2>2, <2>3, <2>4, <3>2, <3>3, CarriedKept
    <2>6. CASE ~\A o \in x.lot : course_id[o] = x.source /\ delivery[o] = "CANCELLED"
      <3>1. Goto(p, [x EXCEPT !.step = "delete"]) /\ UNCHANGED <<course_id, delivery>>
        BY <2>1, <2>6, <1>8 DEF RelanceMove, Step
      <3>2. PICK r : r = [x EXCEPT !.step = "delete"]
        OBVIOUS
      <3>3. req'[p] = r /\ r.step = "delete" /\ r.course = x.course
        BY <3>1, <3>2, <2>1, <1>2 DEF Request
      <3>4. Closing(p, x.course)'
        BY <3>3 DEF Closing
      <3>5. \A d \in Course : Active(d)' = Active(d)
        BY <3>1 DEF Active, Orders
      <3> QED BY <2>3, <2>4, <3>4, <3>5, CarriedKept
    <2> QED BY <2>5, <2>6
  <1>9. ASSUME NEW p \in Req, RelanceDelete(p) \/ AdvanceWrite(p) \/ CancelEmptied(p) PROVE Carried'
    <2>1. Others(p) /\ UNCHANGED <<course_id, delivery, doubt>>
      BY <1>2, <1>9 DEF RelanceDelete, AdvanceWrite, CancelEmptied, Return, orderVars
    <2>2. PICK c : c = req[p].course
      OBVIOUS
    <2>3. ASSUME NEW d \in Course
          PROVE  /\ d = c => statut'[d] # "PENDING_ASSIGNMENT"
                 /\ d # c => statut'[d] = statut[d] /\ ~Closing(p, d)
                 /\ Active(d)' = Active(d)
      BY <2>1, <2>2, <1>1, <1>9
         DEF RelanceDelete, AdvanceWrite, CancelEmptied, TypeOK, Active, Orders, Closing, Terminal, NoRow
    <2> QED BY <2>1, <2>3, CarriedKept
  <1>10. ASSUME NEW p \in Req, Left(p) PROVE Carried'
    <2>1. PICK x : x = req[p] /\ x \in Request /\ x.step = "left"
      BY <1>1, <1>10 DEF TypeOK, Left, At
    <2>2. Others(p) /\ UNCHANGED <<statut, course_id, delivery, doubt>>
      BY <1>2, <1>10 DEF Left, Step, Return, courseVars, orderVars
    <2>3. ASSUME NEW d \in Course PROVE Active(d)' = Active(d) /\ (d # x.course => ~Closing(p, d))
      BY <2>1, <2>2 DEF Active, Orders, Closing
    <2>4. CASE Active(x.course) # {}
      BY <2>2, <2>3, <2>4, CarriedKept
    <2>5. CASE Active(x.course) = {}
      <3>1. PICK r : r = [x EXCEPT !.step = "cancel_course"] /\ Goto(p, r)
        BY <2>1, <2>5, <1>10 DEF Left, Step
      <3>2. req'[p] = r /\ r.step = "cancel_course" /\ r.course = x.course
        BY <3>1, <2>1, <1>2 DEF Request
      <3>3. Closing(p, x.course)'
        BY <3>2 DEF Closing
      <3> QED BY <2>2, <2>3, <3>3, CarriedKept
    <2> QED BY <2>4, <2>5
  <1>11. ASSUME NEW p \in Req, DroppedWrite(p) \/ GroupDroppedWrite(p) PROVE Carried'
    <2>1. PICK x : x = req[p] /\ x \in Request /\ x.step \in {"dropped", "dropped_group"}
      BY <1>1, <1>11 DEF TypeOK, DroppedWrite, GroupDroppedWrite, At
    <2>2. Others(p) /\ UNCHANGED <<statut, course_id, doubt>>
      BY <1>2, <1>11 DEF DroppedWrite, GroupDroppedWrite, Step, Return, courseVars
    <2>3. CASE UNCHANGED delivery
      BY <2>1, <2>2, <2>3, CarriedQuiet DEF Ending
    <2>4. CASE delivery' # delivery
      <3>1. /\ Step(p, "left")
            /\ \A o \in Order : delivery'[o] # delivery[o] => course_id[o] = x.course
        <4>1. CASE DroppedWrite(p)
          BY <4>1, <2>1, <2>4, <1>1 DEF DroppedWrite, DropsCurrent, TypeOK
        <4>2. CASE GroupDroppedWrite(p)
          BY <4>2, <2>1 DEF GroupDroppedWrite, CancelActive, Active, Orders
        <4> QED BY <4>1, <4>2, <1>11
      <3>2. PICK r : r = [x EXCEPT !.step = "left"] /\ Goto(p, r)
        BY <3>1, <2>1 DEF Step
      <3>3. req'[p] = r /\ r.step = "left" /\ r.course = x.course
        BY <3>2, <2>1, <1>2 DEF Request
      <3>4. Closing(p, x.course)'
        BY <3>3 DEF Closing
      <3>5. ASSUME NEW d \in Course \ {x.course} PROVE Active(d) \subseteq Active(d)' /\ ~Closing(p, d)
        BY <3>1, <2>1, <2>2 DEF Active, Orders, Closing
      <3> QED BY <2>2, <3>4, <3>5, CarriedKept
    <2> QED BY <2>3, <2>4
  <1>12. ASSUME NEW p \in Req, CancelWrite(p) PROVE Carried'
    <2>1. PICK c : c = req[p].course
      OBVIOUS
    <2>2. Others(p) /\ UNCHANGED <<course_id, doubt>> /\ CancelActive(c)
      BY <2>1, <1>2, <1>12 DEF CancelWrite, Return
    <2>3. ASSUME NEW d \in Course
          PROVE  /\ d = c => statut'[d] # "PENDING_ASSIGNMENT"
                 /\ d # c => statut'[d] = statut[d] /\ ~Closing(p, d) /\ Active(d) \subseteq Active(d)'
      BY <2>1, <2>2, <1>1, <1>12 DEF CancelWrite, CancelActive, TypeOK, Active, Orders, Closing, NoRow
    <2> QED BY <2>2, <2>3, CarriedKept
  <1>13. ASSUME NEW p \in Req, Crash(p) PROVE Carried'
    <2>1. PICK c : c = req[p].course
      OBVIOUS
    <2>2. Others(p) /\ UNCHANGED <<statut, course_id, delivery>>
      BY <1>2, <1>13 DEF Crash, Return, courseVars, orderVars
    <2>3. ASSUME NEW d \in Course
          PROVE  /\ d = c => "crash" \in doubt'[d]
                 /\ d # c => doubt'[d] = doubt[d] /\ ~Closing(p, d)
                 /\ Active(d)' = Active(d)
      BY <2>1, <2>2, <1>1, <1>13 DEF Crash, TypeOK, Active, Orders, Closing
    <2> QED BY <2>2, <2>3, CarriedKept
  <1>14. CASE Turbo \/ (\E c \in Course : InternalAccept(c)) \/ (\E o \in Order : CancelOrder(o))
              \/ UNCHANGED vars
    <2>1. UNCHANGED <<course_id, delivery, req, doubt>>
      BY <1>14 DEF Turbo, TurboTake, TurboCancel, TurboDrop, InternalAccept, CancelOrder, vars, orderVars
    <2>2. \A c \in Course : statut'[c] = "PENDING_ASSIGNMENT" => statut[c] = "PENDING_ASSIGNMENT"
      BY <1>14, <1>1
         DEF Turbo, TurboTake, TurboCancel, TurboDrop, InternalAccept, CancelOrder, vars, courseVars, TypeOK
    <2> QED BY <2>1, <2>2, CarriedSame
  <1> QED BY <1>3, <1>4, <1>5, <1>6, <1>7, <1>8, <1>9, <1>10, <1>11, <1>12, <1>13, <1>14
          DEF Next, Arrive, Relance, Handle

(* However many operators relaunch however many courses, and wherever a    *)
(* backend stops, no course that seeks a livreur is left without a         *)
(* delivery, provided no webhook about a single order overlaps a relaunch  *)
(* of it (relancerCourseAnnulee, cancelCourseIfNoDeliveryLeft).            *)
THEOREM NoGhost ==
  ASSUME NoStaleDrop
  PROVE  Spec => []NoGhostCourse
  <1>1. Init => Carried /\ DropsCurrent
    BY DEF Init, Carried, DropsCurrent, Idle, At
  <1>2. Carried => NoGhostCourse
    BY DEF Carried, NoGhostCourse, Closing, Free, Active
  <1> QED BY <1>1, <1>2, NextCarried, NextDropsCurrent, Inductive, PTL DEF Spec


-----------------------------------------------------------------------------
(* No dead reference *)

(* c is the course, if any, that the request p claims, sends, gives up or  *)
(* creates.                                                                *)
LEMMA ClaimKept ==
  ASSUME IInv, ClaimInv, NEW p \in Req, Others(p), NEW c,
         \A q \in Req \ {p} : req[q].step \in Holds => req[q].course # c,
         \A d \in Course \ {c} : /\ escalated'[d] = escalated[d] /\ reference'[d] = reference[d]
                                 /\ statut[d] = "ABSENT" => statut'[d] = "ABSENT",
         \A d \in Course \ {c} : statut[d] # "ABSENT" /\ group[reference[d]] = "none"
                                   => group'[reference[d]] = "none",
         c \in Course /\ statut'[c] # "ABSENT" /\ ~escalated'[c] => group'[reference'[c]] = "none",
         req'[p].step \in Holds => req'[p].course = c /\ escalated'[c],
         req'[p].step \in Claims => group'[reference'[c]] = "none",
         req'[p].step = "post" => req'[p].ref = reference'[c]
  PROVE  ClaimInv'
  <1>1. ASSUME NEW d \in Course, statut'[d] # "ABSENT", ~escalated'[d]
        PROVE  group'[reference'[d]] = "none"
    BY <1>1 DEF ClaimInv
  <1>2. ASSUME NEW q \in Req \ {p}, req[q].step \in Holds
        PROVE  /\ req[q].course \in Course \ {c} /\ statut[req[q].course] # "ABSENT"
               /\ escalated'[req[q].course]
               /\ req[q].step \in Claims => group'[reference'[req[q].course]] = "none"
               /\ req[q].step = "post" => req[q].ref = reference'[req[q].course]
               /\ \A k \in Req \ {p, q} : req[k].step \in Holds => req[k].course # req[q].course
    <2>1. req[q].course \in Course \ {c} /\ statut[req[q].course] # "ABSENT"
      BY <1>2 DEF IInv, Reqs, ReqInv, Holds, Claims
    <2>2. /\ escalated[req[q].course]
          /\ req[q].step \in Claims => group[reference[req[q].course]] = "none"
          /\ req[q].step = "post" => req[q].ref = reference[req[q].course]
          /\ \A k \in Req \ {p, q} : req[k].step \in Holds => req[k].course # req[q].course
      BY <1>2 DEF ClaimInv
    <2> QED BY <2>1, <2>2
  <1>3. ASSUME NEW q \in Req
        PROVE  /\ req'[q].step \in Claims => group'[reference'[req'[q].course]] = "none"
               /\ req'[q].step = "post" => req'[q].ref = reference'[req'[q].course]
               /\ req'[q].step \in Holds =>
                    /\ escalated'[req'[q].course]
                    /\ \A k \in Req \ {q} : req'[k].step \in Holds => req'[k].course # req'[q].course
    <2>1. CASE q = p
      <3>1. req'[p].step \in Claims \cup {"post"} => req'[p].step \in Holds
        BY DEF Holds, Claims
      <3>2. \A k \in Req \ {p} : req'[k].step \in Holds => req'[k].course # c
        BY DEF Others
      <3> QED BY <2>1, <3>1, <3>2
    <2>2. CASE q # p
      <3>1. req'[q] = req[q] /\ \A k \in Req \ {p} : req'[k] = req[k]
        BY <2>2 DEF Others
      <3>2. req[q].step \in Claims \cup {"post"} => req[q].step \in Holds
        BY DEF Holds, Claims
      <3>3. ASSUME req'[q].step \in Holds, NEW k \in Req \ {q}, req'[k].step \in Holds
            PROVE  req'[k].course # req'[q].course
        BY <3>1, <3>3, <2>2, <1>2
      <3>4. ASSUME req[q].step \in Holds
            PROVE  /\ req[q].step \in Claims => group'[reference'[req'[q].course]] = "none"
                   /\ req[q].step = "post" => req'[q].ref = reference'[req'[q].course]
                   /\ escalated'[req'[q].course]
        BY <3>1, <3>4, <2>2, <1>2
      <3> QED BY <3>1, <3>2, <3>3, <3>4
    <2> QED BY <2>1, <2>2
  <1> QED BY <1>1, <1>3 DEF ClaimInv

(* Where the request that runs neither holds a claim nor takes one.        *)
LEMMA ClaimQuiet ==
  ASSUME IInv, ClaimInv, NEW p \in Req, Others(p), req'[p].step \notin Holds,
         UNCHANGED <<escalated, reference>>, \A r \in Ref : group[r] = "none" => group'[r] = "none",
         \A d \in Course : statut[d] = "ABSENT" => statut'[d] = "ABSENT"
  PROVE  ClaimInv'
  <1>1. \A q \in Req : req[q].step \in Holds => req[q].course # NONE
    BY NoneAssumption DEF IInv, Reqs, ReqInv, Holds, Claims
  <1>2. \A d \in Course : statut[d] # "ABSENT" => reference[d] \in Ref
    BY DEF IInv, RefInv
  <1> QED BY <1>1, <1>2, NoneAssumption, ClaimKept DEF Holds, Claims


LEMMA ClaimSame ==
  ASSUME IInv, ClaimInv, UNCHANGED <<escalated, reference, req>>,
         \A r \in Ref : group[r] = "none" => group'[r] = "none",
         \A d \in Course : statut[d] = "ABSENT" => statut'[d] = "ABSENT"
  PROVE  ClaimInv'
  <1>1. \A d \in Course : statut[d] # "ABSENT" => reference[d] \in Ref
    BY DEF IInv, RefInv
  <1>2. \A p \in Req : req[p].step \in Claims => reference[req[p].course] \in Ref
    BY <1>1 DEF IInv, Reqs, ReqInv, Claims
  <1> QED BY <1>1, <1>2 DEF ClaimInv

(* A new course, whose reference nobody has seen.                          *)
LEMMA ClaimNew ==
  ASSUME IInv, ClaimInv, NEW p \in Req, Others(p), req'[p].step \notin Holds, NEW c \in Course,
         statut[c] = "ABSENT", UNCHANGED <<escalated, group>>,
         \A d \in Course \ {c} : reference'[d] = reference[d] /\ statut'[d] = statut[d],
         group[reference'[c]] = "none"
  PROVE  ClaimInv'
  <1>1. \A q \in Req : req[q].step \in Holds => req[q].course # c
    BY DEF IInv, Reqs, ReqInv, Holds, Claims
  <1>2. req'[p].step \notin Claims /\ req'[p].step # "post"
    BY DEF Holds, Claims
  <1> QED BY <1>1, <1>2, ClaimKept

LEMMA NextClaim ==
  ASSUME Exclusive
  PROVE  IInv /\ ClaimInv /\ [Next]_vars => ClaimInv'
  <1> SUFFICES ASSUME IInv, ClaimInv, [Next]_vars PROVE ClaimInv'
    OBVIOUS
  <1>1. TypeOK /\ Reqs /\ IInv'
    BY NextIInv DEF IInv
  <1>2. ASSUME NEW p \in Req, NEW r, Goto(p, r) PROVE Others(p) /\ req'[p] = r
    BY <1>1, <1>2, OnlyOne
  <1>3. ASSUME NEW p \in Req, NEW s, Step(p, s)
        PROVE  Others(p) /\ req'[p].step = s /\ req'[p].course = req[p].course
                         /\ req'[p].ref = req[p].ref
    <2>1. PICK r : r = [req[p] EXCEPT !.step = s]
      OBVIOUS
    <2>2. req'[p] = r /\ Others(p)
      BY <2>1, <1>2, <1>3 DEF Step
    <2>3. req[p] \in Request
      BY <1>1 DEF TypeOK
    <2> QED BY <2>1, <2>2, <2>3 DEF Request
  <1>4. ASSUME NEW p \in Req, Return(p) PROVE Others(p) /\ req'[p].step \notin Holds
    BY <1>2, <1>4 DEF Return, Idle, Holds, Claims
  <1>5. ASSUME NEW p \in Req, NEW s \in {"claim", "relance", "cancel"}, NEW c, NEW n, NEW lot,
               Begin(p, s, c, n, lot)
        PROVE  Others(p) /\ req'[p].step \notin Holds
    <2>1. PICK r : r = [Idle EXCEPT !.step = s, !.course = c, !.native = n, !.lot = lot]
      OBVIOUS
    <2>2. r.step = s
      BY <2>1 DEF Idle
    <2> QED BY <2>1, <2>2, <1>2, <1>5 DEF Begin, Holds, Claims
  <1>6. ASSUME NEW p \in Req, NEW c \in Course, NEW S \in SUBSET Order, Create(p, c, S) PROVE ClaimInv'
    <2>1. req[p].step = "idle" /\ Others(p) /\ req'[p].step \notin Holds
      <3>1. CASE AllTurbo(S)
        <4>1. PICK s : s = "claim"
          OBVIOUS
        <4>2. PICK n, lot : Begin(p, s, c, n, lot)
          <5>1. Begin(p, s, c, TRUE, {})
            BY <4>1, <3>1, <1>6 DEF Create
          <5> QED BY <5>1
        <4> QED BY <4>1, <4>2, <1>5 DEF Begin, Free
      <3>2. CASE ~AllTurbo(S)
        BY <3>2, <1>6 DEF Create, Free, Others, Holds, Claims
      <3> QED BY <3>1, <3>2
    <2>2. PICK f \in Ref : Fresh(f) /\ reference' = [reference EXCEPT ![c] = f]
      BY <1>6 DEF Create
    <2>3. /\ statut[c] = "ABSENT" /\ UNCHANGED <<escalated, group>>
          /\ \A d \in Course \ {c} : reference'[d] = reference[d] /\ statut'[d] = statut[d]
          /\ group[reference'[c]] = "none"
      BY <2>2, <1>1, <1>6 DEF Create, TypeOK, Fresh, turboVars
    <2> QED BY <2>1, <2>3, ClaimNew
  <1>7. ASSUME NEW p \in Req, RelanceCreate(p) PROVE ClaimInv'
    <2>1. PICK n \in Course, f \in Ref :
             /\ statut[n] = "ABSENT"
             /\ Fresh(f)
             /\ statut' = [statut EXCEPT ![n] = "PENDING_ASSIGNMENT"]
             /\ reference' = [reference EXCEPT ![n] = f]
             /\ Goto(p, [req[p] EXCEPT !.step = "move", !.course = n, !.source = req[p].course])
      BY <1>7 DEF RelanceCreate
    <2>2. PICK r : r = [req[p] EXCEPT !.step = "move", !.course = n, !.source = req[p].course]
      OBVIOUS
    <2>3. r.step = "move"
      BY <2>2, <1>1 DEF TypeOK, Request
    <2>4. Others(p) /\ req'[p].step \notin Holds
      BY <2>1, <2>2, <2>3, <1>2 DEF Holds, Claims
    <2>5. /\ UNCHANGED <<escalated, group>>
          /\ \A d \in Course \ {n} : reference'[d] = reference[d] /\ statut'[d] = statut[d]
          /\ group[reference'[n]] = "none"
      BY <2>1, <1>1, <1>7 DEF RelanceCreate, TypeOK, Fresh, turboVars
    <2> QED BY <2>1, <2>4, <2>5, ClaimNew
  <1>8. ASSUME NEW p \in Req, NEW c \in Course, EscalateRead(p, c) \/ RelanceRead(p, c) \/ CancelRead(p, c)
        PROVE  ClaimInv'
    <2>1. PICK s \in {"claim", "relance", "cancel"} : \E n, lot : Begin(p, s, c, n, lot)
      BY <1>8 DEF EscalateRead, RelanceRead, CancelRead
    <2>2. Others(p) /\ req'[p].step \notin Holds
      BY <2>1, <1>5
    <2>3. UNCHANGED <<courseVars, group>>
      BY <1>8 DEF EscalateRead, RelanceRead, CancelRead, turboVars
    <2> QED BY <2>2, <2>3, ClaimQuiet DEF courseVars
  <1>9. ASSUME NEW p \in Req, NEW c \in Course, TakeBackRead(p, c) PROVE ClaimInv'
    <2>1. PICK r : r = [Idle EXCEPT !.step = "annuler", !.course = c, !.lot = Orders(c),
                                    !.ref = reference[c]]
      OBVIOUS
    <2>2. r.step = "annuler"
      BY <2>1 DEF Idle
    <2>3. Others(p) /\ req'[p].step \notin Holds
      BY <2>1, <2>2, <1>2, <1>9 DEF TakeBackRead, Holds, Claims
    <2>4. UNCHANGED <<courseVars, group>>
      BY <1>9 DEF TakeBackRead, turboVars
    <2> QED BY <2>3, <2>4, ClaimQuiet DEF courseVars
  <1>10. ASSUME NEW p \in Req, NEW h \in hooks,
                AssignedRead(p, h) \/ DroppedRead(p, h) \/ GroupDroppedRead(p, h)
         PROVE  ClaimInv'
    <2>1. UNCHANGED <<courseVars, group>> /\ req[p].step = "idle"
      BY <1>10 DEF AssignedRead, DroppedRead, GroupDroppedRead, Free
    <2>2. Others(p) /\ req'[p].step \notin Holds
      <3>1. CASE UNCHANGED req
        BY <3>1, <2>1 DEF Others, Holds, Claims
      <3>2. ASSUME NEW s \in {"assigned", "dropped"}, NEW o, NEW c,
                   Goto(p, [Idle EXCEPT !.step = s, !.order = o, !.course = c])
            PROVE  Others(p) /\ req'[p].step \notin Holds
        <4>1. PICK r : r = [Idle EXCEPT !.step = s, !.order = o, !.course = c]
          OBVIOUS
        <4>2. r.step = s
          BY <4>1 DEF Idle
        <4> QED BY <4>1, <4>2, <3>2, <1>2 DEF Holds, Claims
      <3>3. ASSUME NEW c \in Course, Goto(p, [Idle EXCEPT !.step = "dropped_group", !.course = c])
            PROVE  Others(p) /\ req'[p].step \notin Holds
        <4>1. PICK r : r = [Idle EXCEPT !.step = "dropped_group", !.course = c]
          OBVIOUS
        <4>2. r.step = "dropped_group"
          BY <4>1 DEF Idle
        <4> QED BY <4>1, <4>2, <3>3, <1>2 DEF Holds, Claims
      <3> QED BY <3>1, <3>2, <3>3, <1>10 DEF AssignedRead, DroppedRead, GroupDroppedRead
    <2> QED BY <2>1, <2>2, ClaimQuiet DEF courseVars
  <1>11. ASSUME NEW p \in Req, Handle(p) \/ CancelWrite(p) \/ Crash(p) \/ RelanceMove(p) \/ RelanceDelete(p)
                               \/ Annuler(p) \/ AnnulerLost(p) \/ Doubt(p)
         PROVE  ClaimInv'
    <2>1. UNCHANGED <<escalated, reference>>
      BY <1>11 DEF Handle, AssignedWrite, AdvanceRead, AdvanceWrite, DroppedWrite, GroupDroppedWrite, Left,
                   CancelEmptied, CancelWrite, Crash, RelanceMove, RelanceDelete, Annuler, AnnulerLost,
                   Doubt, courseVars
    <2>2. Return(p) \/ \E s \in {"advance", "advance_write", "left", "cancel_course", "claim", "delete",
                                 "takeback"} : Step(p, s)
      BY <1>11 DEF Handle, AssignedWrite, AdvanceRead, AdvanceWrite, DroppedWrite, GroupDroppedWrite, Left,
                   CancelEmptied, CancelWrite, Crash, RelanceMove, RelanceDelete, Annuler, AnnulerLost, Doubt
    <2>3. Others(p) /\ req'[p].step \notin Holds
      BY <2>2, <1>3, <1>4 DEF Holds, Claims
    <2>4. \A r \in Ref : group[r] = "none" => group'[r] = "none"
      BY <1>1, <1>11
         DEF Handle, AssignedWrite, AdvanceRead, AdvanceWrite, DroppedWrite, GroupDroppedWrite, Left,
             CancelEmptied, CancelWrite, Crash, RelanceMove, RelanceDelete, Annuler, AnnulerLost, Doubt,
             turboVars, TypeOK
    <2>5. \A d \in Course : statut[d] = "ABSENT" => statut'[d] = "ABSENT"
      <3>1. ~Free(p) => statut[req[p].course] # "ABSENT"
        BY <1>1 DEF Reqs, ReqInv, Free
      <3> QED BY <3>1, <1>1, <1>11
              DEF Handle, AssignedWrite, AdvanceRead, AdvanceWrite, DroppedWrite, GroupDroppedWrite, Left,
                  CancelEmptied, CancelWrite, Crash, RelanceMove, RelanceDelete, Annuler, AnnulerLost, Doubt,
                  courseVars, TypeOK, At, Free
    <2> QED BY <2>1, <2>3, <2>4, <2>5, ClaimQuiet
  <1>12. CASE Turbo \/ (\E c \in Course : InternalAccept(c)) \/ (\E o \in Order : CancelOrder(o))
              \/ UNCHANGED vars
    <2>1. UNCHANGED <<escalated, reference, req>>
      BY <1>12 DEF Turbo, TurboTake, TurboCancel, TurboDrop, InternalAccept, CancelOrder, vars, courseVars
    <2>2. \A r \in Ref : group[r] = "none" => group'[r] = "none"
      BY <1>12, <1>1 DEF Turbo, TurboTake, TurboCancel, TurboDrop, InternalAccept, CancelOrder, vars,
                         turboVars, TypeOK, Live
    <2>3. \A d \in Course : statut[d] = "ABSENT" => statut'[d] = "ABSENT"
      BY <1>12, <1>1 DEF Turbo, TurboTake, TurboCancel, TurboDrop, InternalAccept, CancelOrder, vars,
                         courseVars, TypeOK
    <2> QED BY <2>1, <2>2, <2>3, ClaimSame
  <1>13. ASSUME NEW p \in Req, NEW c \in Course, c = req[p].course, req[p].step \in Holds,
                UNCHANGED statut,
                \A d \in Course \ {c} : escalated'[d] = escalated[d] /\ reference'[d] = reference[d],
                \A f \in Ref \ {reference[c]} : group'[f] = group[f],
                Others(p), ~escalated'[c] => group'[reference'[c]] = "none",
                req'[p].step \in Holds => req'[p].course = c /\ escalated'[c],
                req'[p].step \in Claims => group'[reference'[c]] = "none",
                req'[p].step = "post" => req'[p].ref = reference'[c]
         PROVE  ClaimInv'
    <2>1. \A q \in Req \ {p} : req[q].step \in Holds => req[q].course # c
      BY <1>13 DEF ClaimInv
    <2>2. \A d \in Course \ {c} : statut[d] # "ABSENT" /\ group[reference[d]] = "none"
                                   => group'[reference[d]] = "none"
      <3>1. ASSUME NEW d \in Course \ {c}, statut[d] # "ABSENT"
            PROVE  reference[d] \in Ref \ {reference[c]}
        BY <3>1, NoneAssumption DEF IInv, RefInv
      <3> QED BY <3>1, <1>13
    <2> QED BY <2>1, <2>2, <1>13, ClaimKept
  <1>14. ASSUME NEW p \in Req, Escalate(p), ~Claim(p), ~Doubt(p) PROVE ClaimInv'
    <2>1. PICK c : c = req[p].course
      OBVIOUS
    <2>2. req[p].step \in Holds
      BY <1>14 DEF Escalate, Lots, Release, Flip, GroupRead, PostAnswered, PostRejected, PostLost,
                   Settle, Failed, At, Holds, Claims
    <2>3. c \in Course /\ reference[c] \in Ref /\ escalated[c]
      BY <2>1, <2>2, <1>1 DEF Reqs, ReqInv, IInv, RefInv, Holds, Claims, ClaimInv
    <2>4. /\ req[p].step \in Claims => group[reference[c]] = "none"
          /\ req[p].step = "post" => req[p].ref = reference[c]
      BY <2>1 DEF ClaimInv
    <2>5. CASE Lots(p)
      <3>1. PICK s \in {"release", "flip"}, lot \in SUBSET Order :
               Goto(p, [req[p] EXCEPT !.step = s, !.lot = lot])
        BY <2>5 DEF Lots, Active, Orders
      <3>2. PICK r : r = [req[p] EXCEPT !.step = s, !.lot = lot]
        OBVIOUS
      <3>3. r.step = s /\ r.course = c
        BY <3>2, <2>1, <1>1 DEF TypeOK, Request
      <3>4. Others(p) /\ req'[p] = r
        BY <3>1, <3>2, <1>2
      <3> QED BY <3>3, <3>4, <2>1, <2>2, <2>3, <2>4, <2>5, <1>13 DEF Lots, courseVars, turboVars, At, Claims
    <2>6. CASE GroupRead(p)
      <3>1. PICK S \in SUBSET Order :
               \/ Goto(p, [req[p] EXCEPT !.step = "failed"])
               \/ Goto(p, [req[p] EXCEPT !.step = "post", !.ref = reference[c], !.sent = S])
        BY <2>1, <2>6 DEF GroupRead, Orders
      <3>2. PICK r : /\ Goto(p, r)
                     /\ \/ r = [req[p] EXCEPT !.step = "failed"]
                        \/ r = [req[p] EXCEPT !.step = "post", !.ref = reference[c], !.sent = S]
        BY <3>1
      <3>3. r.course = c /\ (r.step = "failed" \/ (r.step = "post" /\ r.ref = reference[c]))
        <4>1. req[p] \in Request
          BY <1>1 DEF TypeOK
        <4>2. CASE r = [req[p] EXCEPT !.step = "failed"]
          BY <4>1, <4>2, <2>1 DEF Request
        <4>3. CASE r = [req[p] EXCEPT !.step = "post", !.ref = reference[c], !.sent = S]
          BY <4>1, <4>3, <2>1 DEF Request
        <4> QED BY <4>2, <4>3, <3>2
      <3>4. Others(p) /\ req'[p] = r
        BY <3>2, <1>2
      <3> QED BY <3>3, <3>4, <2>1, <2>2, <2>3, <2>4, <2>6, <1>13
              DEF GroupRead, courseVars, turboVars, At, Claims
    <2>7. CASE Flip(p)
      BY <2>7, <2>1, <2>2, <2>3, <2>4, <1>3, <1>13 DEF Flip, courseVars, turboVars, At, Claims
    <2>8. CASE PostRejected(p)
      BY <2>8, <2>1, <2>2, <2>3, <2>4, <1>3, <1>13 DEF PostRejected, courseVars, turboVars, At, Claims
    <2>9. CASE PostAnswered(p) \/ PostLost(p)
      <3>1. \A f \in Ref \ {reference[c]} : group'[f] = group[f]
        BY <2>9, <2>3, <2>4, <1>1 DEF PostAnswered, PostLost, Receive, At, TypeOK
      <3>2. PICK s \in {"settle", "doubt"} : Step(p, s)
        BY <2>9 DEF PostAnswered, PostLost
      <3>3. Others(p) /\ req'[p].step = s /\ req'[p].course = c
        BY <3>2, <2>1, <1>3
      <3>4. UNCHANGED courseVars
        BY <2>9 DEF PostAnswered, PostLost
      <3> QED BY <3>1, <3>3, <3>4, <2>1, <2>2, <2>3, <1>13 DEF courseVars, Claims
    <2>10. CASE Settle(p)
      <3>1. Others(p) /\ req'[p].step \notin Holds
        BY <2>10, <1>4 DEF Settle
      <3> QED BY <3>1, <2>1, <2>2, <2>3, <2>10, <1>13 DEF Settle, courseVars, turboVars, Holds, Claims
    <2>11. CASE Release(p) \/ Failed(p)
      <3>1. Others(p) /\ req'[p].step \notin Holds
        BY <2>11, <1>4 DEF Release, Failed
      <3>2. group[reference[c]] = "none"
        BY <2>4, <2>11 DEF Release, Failed, At, Claims
      <3>3. /\ escalated' = [escalated EXCEPT ![c] = FALSE]
            /\ UNCHANGED <<statut, reference, group>>
        BY <2>1, <2>11 DEF Release, Failed, turboVars
      <3>4. \A d \in Course \ {c} : escalated'[d] = escalated[d]
        BY <3>3, <1>1 DEF TypeOK
      <3> QED BY <3>1, <3>2, <3>3, <3>4, <2>1, <2>2, <2>3, <1>13 DEF Holds, Claims
    <2> QED BY <2>5, <2>6, <2>7, <2>8, <2>9, <2>10, <2>11, <1>14 DEF Escalate
  <1>15. ASSUME NEW p \in Req, Claim(p) PROVE ClaimInv'
    <2>1. PICK c : c = req[p].course
      OBVIOUS
    <2>2. c \in Course /\ statut[c] # "ABSENT" /\ UNCHANGED <<statut, reference, group>>
      BY <2>1, <1>1, <1>15 DEF Reqs, ReqInv, Claim, At, turboVars
    <2>3. CASE escalated[c] \/ statut[c] # "PENDING_ASSIGNMENT"
      <3>1. Return(p) /\ UNCHANGED escalated
        BY <2>1, <2>3, <1>15 DEF Claim
      <3> QED BY <3>1, <2>2, <1>4, ClaimQuiet
    <2>4. CASE ~escalated[c] /\ statut[c] = "PENDING_ASSIGNMENT"
      <3>1. Step(p, "lots") /\ escalated' = [escalated EXCEPT ![c] = TRUE]
        BY <2>1, <2>4, <1>15 DEF Claim
      <3>2. /\ \A q \in Req \ {p} : req[q].step \in Holds => req[q].course # c
            /\ group[reference[c]] = "none"
        BY <2>2, <2>4 DEF ClaimInv
      <3>3. escalated'[c] /\ \A d \in Course \ {c} : escalated'[d] = escalated[d]
        BY <3>1, <2>2, <1>1 DEF TypeOK
      <3>4. Others(p) /\ req'[p].step = "lots" /\ req'[p].course = c
        BY <3>1, <2>1, <1>3
      <3> QED BY <3>2, <3>3, <3>4, <2>2, ClaimKept
    <2> QED BY <2>3, <2>4
  <1>16. ASSUME NEW p \in Req, TakeBackWrite(p) PROVE ClaimInv'
    <2>1. PICK c : c = req[p].course
      OBVIOUS
    <2>2. c \in Course /\ "takeback" \in Ops
      BY <2>1, <1>1, <1>16 DEF Reqs, ReqInv, TakeBackWrite, At
    <2>3. Req = {p}
      BY <2>2 DEF Exclusive, One
    <2>4. PICK f \in Ref : Fresh(f) /\ reference' = [reference EXCEPT ![c] = f]
      BY <2>1, <1>16 DEF TakeBackWrite
    <2>5. /\ UNCHANGED <<statut, group>> /\ group[f] = "none" /\ reference'[c] = f
          /\ \A d \in Course \ {c} : escalated'[d] = escalated[d] /\ reference'[d] = reference[d]
      BY <2>1, <2>2, <2>4, <1>1, <1>16 DEF TakeBackWrite, TypeOK, Fresh, turboVars
    <2>6. Others(p) /\ req'[p].step \notin Holds /\ req'[p].step \notin Claims /\ req'[p].step # "post"
      BY <1>4, <1>16 DEF TakeBackWrite, Holds, Claims
    <2> QED BY <2>2, <2>3, <2>5, <2>6, ClaimKept
  <1> QED BY <1>6, <1>7, <1>8, <1>9, <1>10, <1>11, <1>12, <1>14, <1>15, <1>16
          DEF Next, Arrive, TakeBack, Relance, Escalate

(* A reference that Turbo has cancelled is never posted again: with any    *)
(* number of requests, of backends that may stop, of repeated webhooks and *)
(* of relaunches as long as no take-back overlaps another request, and     *)
(* with take-backs for requests that follow one another                    *)
(* (escalateToTurbo, revenirEnInterne, relancerCourseAnnulee).             *)
THEOREM NoDead ==
  ASSUME Exclusive
  PROVE  Spec => []NoDeadReference
  <1>1. Init => ClaimInv
    BY DEF Init, ClaimInv, Idle, Holds, Claims
  <1>2. ClaimInv => NoDeadReference
    BY DEF ClaimInv, NoDeadReference, At, Claims
  <1> QED BY <1>1, <1>2, NextClaim, Inductive, PTL DEF Spec


-----------------------------------------------------------------------------
(* The groups of Turbo are followed *)

(* A step that takes nothing back: orders stay on their course and with    *)
(* Turbo, courses keep their reference, and no group gains an order.       *)
Quiet ==
    /\ \A o \in Order : /\ course_id[o] # NONE => course_id'[o] = course_id[o]
                        /\ service[o] = "TURBO" => service'[o] = "TURBO"
    /\ \A c \in Course : /\ statut[c] # "ABSENT" => reference'[c] = reference[c]
                         /\ escalated[c] => escalated'[c]
    /\ \A r \in Ref : Live(r)' => Live(r) /\ members'[r] \subseteq members[r]

LEMMA QuietLot ==
  ASSUME Quiet, NEW r \in Request, ReqInv(r), RefInv, LotReq(r)
  PROVE  LotReq(r)'
  <1>1. CASE r.step \notin LotSteps
    BY <1>1 DEF LotReq, LotSteps
  <1>2. CASE r.step \in LotSteps
    <2>1. r.course \in Course /\ statut[r.course] # "ABSENT"
      BY <1>2 DEF ReqInv, LotSteps
    <2>2. reference'[r.course] = reference[r.course] /\ reference[r.course] \in Ref
      BY <2>1 DEF Quiet, RefInv
    <2>3. \A o \in Order : course_id[o] = r.course => course_id'[o] = r.course
      BY <2>1, NoneAssumption DEF Quiet
    <2>4. r.lot \subseteq Orders(r.course)'
      BY <1>2, <2>3 DEF LotReq, Orders
    <2>5. r.step = "post" => \A o \in r.sent : course_id'[o] = r.course /\ service'[o] = "TURBO"
      BY <2>3 DEF LotReq, Quiet, Request
    <2>6. /\ r.step = "settle" /\ Live(reference[r.course])'
               => members'[reference[r.course]] \subseteq r.sent
          /\ r.step = "takeback" => ~Live(reference[r.course])'
      <3>1. PICK f \in Ref : f = reference[r.course]
        BY <2>2
      <3>2. Live(f)' => Live(f) /\ members'[f] \subseteq members[f]
        BY DEF Quiet
      <3> QED BY <3>1, <3>2, <2>2 DEF LotReq, Live
    <2>7. r.step \in {"annuler", "takeback"} => r.ref = reference'[r.course]
      BY <2>2 DEF LotReq
    <2> QED BY <2>2, <2>4, <2>5, <2>6, <2>7 DEF LotReq, Live
  <1> QED BY <1>1, <1>2

LEMMA QuietFollowed ==
  ASSUME IInv, GroupIsFollowed, Quiet
  PROVE  GroupIsFollowed'
  <1> SUFFICES ASSUME NEW r \in Ref, NEW o \in Order, Live(r)', o \in members'[r]
               PROVE  Current(o, r)' /\ escalated'[course_id'[o]] /\ service'[o] = "TURBO"
    BY DEF GroupIsFollowed
  <1>1. Live(r) /\ o \in members[r]
    BY DEF Quiet
  <1>2. Current(o, r) /\ escalated[course_id[o]] /\ service[o] = "TURBO"
    BY <1>1 DEF GroupIsFollowed
  <1>3. PICK c \in Course : c = course_id[o] /\ c # NONE /\ reference[c] = r /\ statut[c] # "ABSENT"
    BY <1>2 DEF Current, IInv, TypeOK, OrderInv
  <1>4. course_id'[o] = c /\ reference'[c] = r /\ escalated'[c] /\ service'[o] = "TURBO"
    BY <1>2, <1>3 DEF Quiet
  <1> QED BY <1>3, <1>4 DEF Current

LEMMA FollowQuiet ==
  ASSUME IInv, GroupIsFollowed, LotInv, Quiet, NEW p \in Req, Others(p), LotReq(req[p])'
  PROVE  GroupIsFollowed' /\ LotInv'
  <1>1. ASSUME NEW q \in Req \ {p} PROVE LotReq(req[q])'
    <2>1. PICK x : x = req[q]
      OBVIOUS
    <2>2. x \in Request /\ ReqInv(x) /\ LotReq(x) /\ RefInv
      BY <2>1 DEF IInv, TypeOK, Reqs, LotInv
    <2>3. LotReq(x)' /\ req'[q] = x
      BY <2>1, <2>2, QuietLot DEF Others
    <2> QED BY <2>3 DEF LotReq, Live, Orders
  <1> QED BY <1>1, QuietFollowed DEF LotInv

(* A request at work on the course c, of which nothing else is known.      *)
LEMMA FollowApart ==
  ASSUME Exclusive, IInv, ClaimInv, GroupIsFollowed, LotInv, NEW p \in Req, NEW c \in Course,
         NEW f \in Ref, f = reference[c], c = req[p].course, req[p].step \in Holds \cup {"takeback"}, Others(p),
         req'[p].step \notin LotSteps \/ LotReq(req[p])', UNCHANGED course_id,
         \A d \in Course \ {c} : reference'[d] = reference[d] /\ escalated'[d] = escalated[d],
         \A o \in Order : course_id[o] # c => service'[o] = service[o],
         \A r \in Ref \ {f} : group'[r] = group[r] /\ members'[r] = members[r],
         Live(f)' => \A o \in members'[f] :
            course_id[o] = c /\ reference'[c] = f /\ escalated'[c] /\ service'[o] = "TURBO"
  PROVE  GroupIsFollowed' /\ LotInv'
  <1>1. GroupIsFollowed'
    <2> SUFFICES ASSUME NEW r \in Ref, NEW o \in Order, Live(r)', o \in members'[r]
                 PROVE  Current(o, r)' /\ escalated'[course_id'[o]] /\ service'[o] = "TURBO"
      BY DEF GroupIsFollowed
    <2>1. CASE r = f
      <3>1. course_id[o] = c /\ reference'[c] = r /\ escalated'[c] /\ service'[o] = "TURBO"
        BY <2>1 DEF Live
      <3>2. course_id' = course_id /\ c # NONE
        BY NoneAssumption
      <3> QED BY <3>1, <3>2 DEF Current
    <2>2. CASE r # f
      <3>1. Live(r) /\ o \in members[r]
        BY <2>2 DEF Live
      <3>2. Current(o, r) /\ escalated[course_id[o]] /\ service[o] = "TURBO"
        BY <3>1 DEF GroupIsFollowed
      <3>3. PICK d \in Course : d = course_id[o] /\ d # NONE /\ reference[d] = r
        BY <3>2 DEF Current, IInv, TypeOK
      <3> QED BY <3>2, <3>3, <2>2 DEF Current
    <2> QED BY <2>1, <2>2
  <1>2. ASSUME NEW q \in Req \ {p} PROVE LotReq(req[q])'
    <2>1. PICK x : x = req[q]
      OBVIOUS
    <2>2. req'[q] = x /\ x \in Request /\ ReqInv(x) /\ LotReq(x) /\ RefInv
      BY <2>1 DEF IInv, TypeOK, Reqs, LotInv, Others
    <2>3. CASE x.step \in Holds
      <3>1. x.course \in Course /\ statut[x.course] # "ABSENT"
        BY <2>2, <2>3 DEF ReqInv, Holds, Claims
      <3>2. x.course # c
        <4>1. req[p].step \in Holds \/ "takeback" \in Ops
          BY DEF IInv, Reqs, ReqInv
        <4>2. "takeback" \notin Ops
          BY DEF Exclusive, One
        <4> QED BY <4>1, <4>2, <2>1, <2>3 DEF ClaimInv
      <3>3. PICK g \in Ref \ {f} : g = reference[x.course] /\ g = reference'[x.course]
        BY <3>1, <3>2, <2>2, NoneAssumption DEF RefInv
      <3>4. group'[g] = group[g] /\ members'[g] = members[g]
        BY <3>3
      <3>5. \A o \in Order : course_id[o] = x.course => service'[o] = service[o]
        BY <3>2
      <3>6. x.step = "post" => \A o \in x.sent : course_id'[o] = x.course /\ service'[o] = "TURBO"
        BY <2>2, <3>5 DEF LotReq, Request
      <3>7. x.step \in LotSteps => x.lot \subseteq Orders(x.course)'
        BY <2>2 DEF LotReq, Orders
      <3>8. LotReq(x)'
        BY <2>2, <2>3, <3>3, <3>4, <3>6, <3>7 DEF LotReq, Live, Holds, Claims
      <3> QED BY <3>8, <2>2 DEF LotReq, Live, Orders
    <2>4. CASE x.step \notin Holds
      <3>1. x.step \notin {"annuler", "takeback"}
        BY <2>2 DEF Exclusive, One, ReqInv
      <3> QED BY <3>1, <2>2, <2>4 DEF LotReq, LotSteps, Holds, Claims
    <2> QED BY <2>3, <2>4
  <1>3. LotReq(req[p])'
    BY DEF LotReq, LotSteps
  <1> QED BY <1>1, <1>2, <1>3 DEF LotInv


LEMMA LotFree ==
  ASSUME NEW p \in Req, req'[p].step \notin LotSteps
  PROVE  LotReq(req[p])'
  BY DEF LotReq, LotSteps

(* Statements that write nothing the groups depend on.                     *)
LEMMA StillQuiet ==
  ASSUME TypeOK, UNCHANGED <<course_id, service, escalated, reference>>,
         \A r \in Ref : Live(r)' => Live(r) /\ members'[r] \subseteq members[r]
  PROVE  Quiet
  BY DEF Quiet

LEMMA NextFollow ==
  ASSUME Exclusive, "relance" \notin Ops
  PROVE  IInv /\ ClaimInv /\ LotInv /\ GroupIsFollowed /\ [Next]_vars => LotInv' /\ GroupIsFollowed'
  <1> SUFFICES ASSUME IInv, ClaimInv, LotInv, GroupIsFollowed, [Next]_vars
               PROVE  LotInv' /\ GroupIsFollowed'
    OBVIOUS
  <1>1. TypeOK /\ Reqs
    BY DEF IInv
  <1>2. ASSUME NEW p \in Req, NEW r, Goto(p, r) PROVE Others(p) /\ req'[p] = r
    BY <1>1, <1>2, OnlyOne
  <1>3. ASSUME NEW p \in Req, NEW s, Step(p, s)
        PROVE  Others(p) /\ req'[p] = [req[p] EXCEPT !.step = s] /\ req'[p].step = s
    <2>1. PICK r : r = [req[p] EXCEPT !.step = s]
      OBVIOUS
    <2>2. req'[p] = r /\ Others(p)
      BY <2>1, <1>2, <1>3 DEF Step
    <2>3. req[p] \in Request
      BY <1>1 DEF TypeOK
    <2> QED BY <2>1, <2>2, <2>3 DEF Request
  <1>4. ASSUME NEW p \in Req, Return(p) PROVE Others(p) /\ req'[p].step \notin LotSteps
    BY <1>2, <1>4 DEF Return, Idle, LotSteps
  <1>5. ASSUME NEW p \in Req, NEW s \in {"claim", "cancel"}, NEW c, NEW n, NEW lot, Begin(p, s, c, n, lot)
        PROVE  Others(p) /\ req'[p].step \notin LotSteps
    <2>1. PICK r : r = [Idle EXCEPT !.step = s, !.course = c, !.native = n, !.lot = lot]
      OBVIOUS
    <2>2. r.step = s
      BY <2>1 DEF Idle
    <2> QED BY <2>1, <2>2, <1>2, <1>5 DEF Begin, LotSteps
  <1>6. ASSUME NEW p \in Req, NEW c \in Course, NEW S \in SUBSET Order, Create(p, c, S)
        PROVE  LotInv' /\ GroupIsFollowed'
    <2>1. Others(p) /\ req'[p].step \notin LotSteps
      <3>1. CASE AllTurbo(S)
        <4>1. PICK s : s = "claim"
          OBVIOUS
        <4>2. PICK n, lot : Begin(p, s, c, n, lot)
          <5>1. Begin(p, s, c, TRUE, {})
            BY <4>1, <3>1, <1>6 DEF Create
          <5> QED BY <5>1
        <4> QED BY <4>1, <4>2, <1>5
      <3>2. CASE ~AllTurbo(S)
        BY <3>2, <1>6 DEF Create, Free, Others, LotSteps
      <3> QED BY <3>1, <3>2
    <2>2. Quiet
      <3>1. /\ \A o \in Order : course_id[o] # NONE => course_id'[o] = course_id[o]
            /\ \A d \in Course : statut[d] # "ABSENT" => reference'[d] = reference[d]
            /\ UNCHANGED <<service, escalated, group, members>>
        BY <1>1, <1>6 DEF Create, TypeOK, turboVars
      <3> QED BY <3>1 DEF Quiet, Live
    <2> QED BY <2>1, <2>2, LotFree, FollowQuiet
  <1>7. ASSUME NEW p \in Req, NEW c \in Course, EscalateRead(p, c) \/ CancelRead(p, c)
        PROVE  LotInv' /\ GroupIsFollowed'
    <2>1. PICK s \in {"claim", "cancel"} : \E n, lot : Begin(p, s, c, n, lot)
      BY <1>7 DEF EscalateRead, CancelRead
    <2>2. Others(p) /\ req'[p].step \notin LotSteps
      BY <2>1, <1>5
    <2>3. Quiet
      BY <1>1, <1>7, StillQuiet DEF EscalateRead, CancelRead, courseVars, orderVars, turboVars, Live
    <2> QED BY <2>2, <2>3, LotFree, FollowQuiet
  <1>8. ASSUME NEW p \in Req, NEW c \in Course, TakeBackRead(p, c) PROVE LotInv' /\ GroupIsFollowed'
    <2>1. PICK r : r = [Idle EXCEPT !.step = "annuler", !.course = c, !.lot = Orders(c),
                                    !.ref = reference[c]]
      OBVIOUS
    <2>2. r.step = "annuler" /\ r.course = c /\ r.lot = Orders(c) /\ r.ref = reference[c]
      BY <2>1 DEF Idle
    <2>3. Others(p) /\ req'[p] = r
      BY <2>1, <1>2, <1>8 DEF TakeBackRead
    <2>4. UNCHANGED <<courseVars, orderVars, turboVars>>
      BY <1>8 DEF TakeBackRead
    <2>5. LotReq(req[p])'
      BY <2>2, <2>3, <2>4 DEF LotReq, LotSteps, Orders, courseVars, orderVars
    <2>6. Quiet
      BY <2>4, <1>1, StillQuiet DEF courseVars, orderVars, turboVars, Live
    <2> QED BY <2>3, <2>5, <2>6, FollowQuiet
  <1>9. ASSUME NEW p \in Req, NEW h \in hooks,
               AssignedRead(p, h) \/ DroppedRead(p, h) \/ GroupDroppedRead(p, h)
        PROVE  LotInv' /\ GroupIsFollowed'
    <2>1. UNCHANGED <<courseVars, orderVars, group, members>> /\ req[p].step = "idle"
      BY <1>9 DEF AssignedRead, DroppedRead, GroupDroppedRead, Free
    <2>2. Others(p) /\ req'[p].step \notin LotSteps
      <3>1. CASE UNCHANGED req
        BY <3>1, <2>1 DEF Others, LotSteps
      <3>2. ASSUME NEW s \in {"assigned", "dropped"}, NEW o, NEW c,
                   Goto(p, [Idle EXCEPT !.step = s, !.order = o, !.course = c])
            PROVE  Others(p) /\ req'[p].step \notin LotSteps
        <4>1. PICK r : r = [Idle EXCEPT !.step = s, !.order = o, !.course = c]
          OBVIOUS
        <4>2. r.step = s
          BY <4>1 DEF Idle
        <4> QED BY <4>1, <4>2, <3>2, <1>2 DEF LotSteps
      <3>3. ASSUME NEW c \in Course, Goto(p, [Idle EXCEPT !.step = "dropped_group", !.course = c])
            PROVE  Others(p) /\ req'[p].step \notin LotSteps
        <4>1. PICK r : r = [Idle EXCEPT !.step = "dropped_group", !.course = c]
          OBVIOUS
        <4>2. r.step = "dropped_group"
          BY <4>1 DEF Idle
        <4> QED BY <4>1, <4>2, <3>3, <1>2 DEF LotSteps
      <3> QED BY <3>1, <3>2, <3>3, <1>9 DEF AssignedRead, DroppedRead, GroupDroppedRead
    <2>3. Quiet
      BY <2>1, <1>1, StillQuiet DEF courseVars, orderVars, Live
    <2> QED BY <2>2, <2>3, LotFree, FollowQuiet
  <1>10. ASSUME NEW p \in Req, Handle(p) \/ CancelWrite(p) \/ Crash(p) \/ Doubt(p) \/ AnnulerLost(p)
         PROVE  LotInv' /\ GroupIsFollowed'
    <2>1. UNCHANGED <<course_id, service, escalated, reference, members>>
      BY <1>10 DEF Handle, AssignedWrite, AdvanceRead, AdvanceWrite, DroppedWrite, GroupDroppedWrite, Left,
                   CancelEmptied, CancelWrite, Crash, Doubt, AnnulerLost, courseVars, orderVars, turboVars
    <2>2. Return(p) \/ \E s \in {"advance", "advance_write", "left", "cancel_course"} : Step(p, s)
      BY <1>10 DEF Handle, AssignedWrite, AdvanceRead, AdvanceWrite, DroppedWrite, GroupDroppedWrite, Left,
                   CancelEmptied, CancelWrite, Crash, Doubt, AnnulerLost
    <2>3. Others(p) /\ req'[p].step \notin LotSteps
      BY <2>2, <1>3, <1>4 DEF LotSteps
    <2>4. \A r \in Ref : Live(r)' => Live(r)
      BY <1>1, <1>10
         DEF Handle, AssignedWrite, AdvanceRead, AdvanceWrite, DroppedWrite, GroupDroppedWrite, Left,
             CancelEmptied, CancelWrite, Crash, Doubt, AnnulerLost, turboVars, TypeOK, Live
    <2>5. Quiet
      BY <2>1, <2>4, <1>1, StillQuiet
    <2> QED BY <2>3, <2>5, LotFree, FollowQuiet
  <1>11. CASE Turbo \/ (\E c \in Course : InternalAccept(c)) \/ (\E o \in Order : CancelOrder(o))
              \/ UNCHANGED vars
    <2>1. UNCHANGED <<course_id, service, escalated, reference, req>>
      BY <1>11 DEF Turbo, TurboTake, TurboCancel, TurboDrop, InternalAccept, CancelOrder, vars, courseVars,
                   orderVars
    <2>2. \A r \in Ref : Live(r)' => Live(r) /\ members'[r] \subseteq members[r]
      BY <1>11, <1>1 DEF Turbo, TurboTake, TurboCancel, TurboDrop, InternalAccept, CancelOrder, vars,
                         turboVars, TypeOK, Live
    <2>3. Quiet
      BY <2>1, <2>2, <1>1, StillQuiet
    <2>4. ASSUME NEW q \in Req PROVE LotReq(req[q])'
      <3>1. PICK x : x = req[q]
        OBVIOUS
      <3>2. x \in Request /\ ReqInv(x) /\ LotReq(x) /\ RefInv /\ req'[q] = x
        BY <3>1, <2>1 DEF IInv, TypeOK, Reqs, LotInv
      <3>3. LotReq(x)'
        BY <3>2, <2>3, QuietLot
      <3> QED BY <3>2, <3>3 DEF LotReq, Live, Orders
    <2> QED BY <2>3, <2>4, QuietFollowed DEF LotInv
  <1>12. ASSUME NEW p \in Req, RelanceCreate(p) \/ RelanceMove(p) \/ RelanceDelete(p) PROVE FALSE
    BY <1>1, <1>12 DEF Reqs, ReqInv, RelanceCreate, RelanceMove, RelanceDelete, At
  <1>13. ASSUME NEW p \in Req, Claim(p) PROVE LotInv' /\ GroupIsFollowed'
    <2>1. Return(p) \/ \E s \in {"lots"} : Step(p, s)
      BY <1>13 DEF Claim
    <2>2. Others(p) /\ req'[p].step \notin LotSteps
      BY <2>1, <1>3, <1>4 DEF LotSteps
    <2>3. Quiet
      BY <1>1, <1>13 DEF Claim, TypeOK, Quiet, Live, orderVars, turboVars
    <2> QED BY <2>2, <2>3, LotFree, FollowQuiet
  <1>14. ASSUME NEW p \in Req, Lots(p) \/ Flip(p) \/ GroupRead(p) \/ PostRejected(p) \/ Annuler(p)
         PROVE  LotInv' /\ GroupIsFollowed'
    <2>1. PICK x, c : x = req[p] /\ c = x.course
      OBVIOUS
    <2>2. x \in Request /\ ReqInv(x) /\ LotReq(x)
      BY <2>1, <1>1 DEF TypeOK, Reqs, LotInv
    <2>3. c \in Course /\ reference[c] \in Ref
      BY <2>1, <2>2, <1>14 DEF ReqInv, IInv, RefInv, Lots, Flip, GroupRead, PostRejected, Annuler, At
    <2>4. /\ UNCHANGED <<course_id, escalated, reference>>
          /\ \A o \in Order : service[o] = "TURBO" => service'[o] = "TURBO"
      BY <1>1, <1>14 DEF Lots, Flip, GroupRead, PostRejected, Annuler, SetService, TypeOK, courseVars, orderVars
    <2>5. UNCHANGED members /\ \A r \in Ref : Live(r)' => Live(r)
      BY <1>1, <1>14 DEF Lots, Flip, GroupRead, PostRejected, Annuler, TypeOK, Live, turboVars
    <2>6. Quiet
      BY <2>4, <2>5 DEF Quiet
    <2>7. Others(p) /\ LotReq(req[p])'
      <3>1. CASE Lots(p)
        <4>1. PICK s \in {"release", "flip"}, lot \in SUBSET Order :
                 lot \subseteq Orders(c) /\ Goto(p, [x EXCEPT !.step = s, !.lot = lot])
          BY <3>1, <2>1 DEF Lots, Active, Orders
        <4>2. PICK r : r = [x EXCEPT !.step = s, !.lot = lot]
          OBVIOUS
        <4>3. r.step = s /\ r.course = c /\ r.lot = lot
          BY <4>2, <2>1, <2>2 DEF Request
        <4>4. Others(p) /\ req'[p] = r
          BY <4>1, <4>2, <1>2
        <4> QED BY <4>1, <4>3, <4>4, <2>4 DEF LotReq, LotSteps, Orders
      <3>2. CASE Flip(p)
        <4>1. PICK r : r = [x EXCEPT !.step = "group"]
          OBVIOUS
        <4>2. r.step = "group" /\ r.course = c /\ r.lot = x.lot
          BY <4>1, <2>1, <2>2 DEF Request
        <4>3. Others(p) /\ req'[p] = r
          BY <4>1, <2>1, <3>2, <1>3 DEF Flip
        <4>4. x.lot \subseteq Orders(c)
          BY <2>1, <2>2, <3>2 DEF LotReq, LotSteps, Flip, At
        <4> QED BY <4>2, <4>3, <4>4, <2>4 DEF LotReq, LotSteps, Orders
      <3>3. CASE GroupRead(p)
        <4>1. PICK S : S = {o \in Orders(c) : status[o] = "READY" /\ service[o] = "TURBO"}
          OBVIOUS
        <4>2. PICK r : /\ r = (IF S = {} THEN [x EXCEPT !.step = "failed"]
                               ELSE [x EXCEPT !.step = "post", !.ref = reference[c], !.sent = S])
                       /\ Goto(p, r)
          BY <4>1, <2>1, <3>3 DEF GroupRead
        <4>3. r.course = c /\ r.lot = x.lot /\ (r.step = "failed" \/ (r.step = "post" /\ r.sent = S))
          <5>1. CASE S = {}
            BY <5>1, <4>2, <2>1, <2>2 DEF Request
          <5>2. CASE S # {}
            BY <5>2, <4>2, <2>1, <2>2 DEF Request
          <5> QED BY <5>1, <5>2
        <4>4. Others(p) /\ req'[p] = r
          BY <4>2, <1>2
        <4>5. x.lot \subseteq Orders(c)
          BY <2>1, <2>2, <3>3 DEF LotReq, LotSteps, GroupRead, At
        <4>6. \A o \in S : course_id'[o] = c /\ service'[o] = "TURBO"
          BY <4>1, <2>4 DEF Orders
        <4> QED BY <4>3, <4>4, <4>5, <4>6, <2>4 DEF LotReq, LotSteps, Orders
      <3>4. CASE PostRejected(p)
        <4>1. PICK r : r = [x EXCEPT !.step = "failed"]
          OBVIOUS
        <4>2. r.step = "failed" /\ r.course = c /\ r.lot = x.lot
          BY <4>1, <2>1, <2>2 DEF Request
        <4>3. Others(p) /\ req'[p] = r
          BY <4>1, <2>1, <3>4, <1>3 DEF PostRejected
        <4>4. x.lot \subseteq Orders(c)
          BY <2>1, <2>2, <3>4 DEF LotReq, LotSteps, PostRejected, At
        <4> QED BY <4>2, <4>3, <4>4, <2>4 DEF LotReq, LotSteps, Orders
      <3>5. CASE Annuler(p)
        <4>1. x.step = "annuler" /\ x.ref = reference[c] /\ x.lot \subseteq Orders(c)
          BY <2>1, <2>2, <3>5 DEF LotReq, LotSteps, Annuler, At
        <4>2. CASE group[x.ref] = "taken"
          BY <4>2, <2>1, <3>5, <1>4, LotFree DEF Annuler
        <4>3. CASE group[x.ref] # "taken"
          <5>1. PICK f \in Ref : f = reference[c] /\ f = x.ref
            BY <4>1, <2>3
          <5>2. Step(p, "takeback") /\ group' = [group EXCEPT ![f] = IF @ = "open" THEN "cancelled" ELSE @]
            BY <4>3, <5>1, <2>1, <3>5 DEF Annuler
          <5>3. ~Live(f)'
            BY <5>1, <5>2, <4>3, <1>1 DEF TypeOK, Live
          <5>4. PICK r : r = [x EXCEPT !.step = "takeback"]
            OBVIOUS
          <5>5. r.step = "takeback" /\ r.course = c /\ r.lot = x.lot /\ r.ref = f
            BY <5>1, <5>4, <2>1, <2>2 DEF Request
          <5>6. Others(p) /\ req'[p] = r
            BY <5>2, <5>4, <2>1, <1>3
          <5> QED BY <5>1, <5>3, <5>5, <5>6, <4>1, <2>4 DEF LotReq, LotSteps, Orders, Live
        <4> QED BY <4>2, <4>3
      <3> QED BY <3>1, <3>2, <3>3, <3>4, <3>5, <1>14
    <2> QED BY <2>6, <2>7, FollowQuiet
  <1>15. ASSUME NEW p \in Req, Release(p) \/ Failed(p) \/ Settle(p) \/ TakeBackWrite(p)
                               \/ PostAnswered(p) \/ PostLost(p)
         PROVE  LotInv' /\ GroupIsFollowed'
    <2>1. PICK x, c : x = req[p] /\ c = x.course
      OBVIOUS
    <2>2. /\ x \in Request /\ ReqInv(x) /\ LotReq(x)
          /\ x.step \in Holds \cup {"takeback"} /\ req[p].step = x.step
      BY <2>1, <1>1, <1>15
         DEF TypeOK, Reqs, LotInv, Release, Failed, Settle, TakeBackWrite, PostAnswered, PostLost, At, Holds,
             Claims
    <2>3. c \in Course /\ reference[c] \in Ref /\ (x.step \in Holds => escalated[c])
      BY <2>1, <2>2, <1>1 DEF ReqInv, IInv, RefInv, ClaimInv, Holds, Claims
    <2>4. PICK f \in Ref : f = reference[c]
      BY <2>3
    <2>5. x.step \in Claims => group[f] = "none"
      BY <2>1, <2>4 DEF ClaimInv
    <2>6. CASE Release(p) \/ Failed(p) \/ Settle(p) \/ TakeBackWrite(p)
      <3>1. Others(p) /\ req'[p].step \notin LotSteps /\ UNCHANGED <<course_id, group, members>>
        BY <2>6, <1>4 DEF Release, Failed, Settle, TakeBackWrite, orderVars, turboVars
      <3>2. \A d \in Course \ {c} : reference'[d] = reference[d] /\ escalated'[d] = escalated[d]
        BY <2>1, <2>6, <1>1 DEF Release, Failed, Settle, TakeBackWrite, TypeOK, courseVars
      <3>3. x.lot \subseteq Orders(c) \/ UNCHANGED service
        BY <2>1, <2>2, <2>6 DEF Release, Failed, Settle, TakeBackWrite, LotReq, LotSteps, At, orderVars
      <3>4. \A o \in Order : course_id[o] # c => service'[o] = service[o]
        BY <2>1, <3>3, <2>6, <1>1 DEF Release, Failed, Settle, TakeBackWrite, SetService, Orders, TypeOK, orderVars
      <3>5. ASSUME Live(f)', NEW o \in members'[f]
            PROVE  course_id[o] = c /\ reference'[c] = f /\ escalated'[c] /\ service'[o] = "TURBO"
        <4>1. Live(f) /\ o \in members[f] /\ o \in Order
          BY <3>1, <3>5, <1>1 DEF Live, TypeOK
        <4>2. Settle(p) /\ x.step = "settle"
          BY <4>1, <2>1, <2>2, <2>4, <2>5, <2>6
             DEF Release, Failed, Settle, TakeBackWrite, At, LotReq, Live, Claims
        <4>3. Current(o, f) /\ service[o] = "TURBO"
          BY <4>1 DEF GroupIsFollowed
        <4>4. course_id[o] = c
          <5>1. PICK d \in Course : d = course_id[o] /\ reference[d] = f
            BY <4>1, <4>3 DEF Current, IInv, TypeOK
          <5>2. f # NONE
            BY NoneAssumption
          <5> QED BY <5>1, <5>2, <2>3, <2>4 DEF IInv, RefInv
        <4>5. o \in x.sent
          BY <4>1, <4>2, <2>1, <2>2, <2>4 DEF LotReq
        <4> QED BY <4>1, <4>2, <4>3, <4>4, <4>5, <2>1, <2>3, <2>4 DEF Settle, SetService, courseVars, Holds
      <3> QED BY <3>1, <3>2, <3>4, <3>5, <2>1, <2>2, <2>3, <2>4, FollowApart
    <2>7. CASE PostAnswered(p) \/ PostLost(p)
      <3>1. PICK s \in {"settle", "doubt"} : Step(p, s)
        BY <2>7 DEF PostAnswered, PostLost
      <3>2. PICK r : r = [x EXCEPT !.step = s]
        OBVIOUS
      <3>3. r.step = s /\ r.course = c /\ r.lot = x.lot /\ r.sent = x.sent
        BY <3>2, <2>1, <2>2 DEF Request
      <3>4. Others(p) /\ req'[p] = r
        BY <3>1, <3>2, <2>1, <1>3
      <3>5. /\ x.step = "post" /\ x.ref = f /\ group[f] = "none" /\ escalated[c] /\ x.lot \subseteq Orders(c)
            /\ \A o \in x.sent : course_id[o] = c /\ service[o] = "TURBO"
        BY <2>1, <2>2, <2>3, <2>4, <2>5, <2>7 DEF PostAnswered, PostLost, At, ClaimInv, Claims, Holds, LotReq, LotSteps
      <3>6. /\ \/ /\ group' = [group EXCEPT ![f] = "open"] /\ members' = [members EXCEPT ![f] = x.sent]
               \/ UNCHANGED <<group, members>>
            /\ UNCHANGED <<courseVars, orderVars>>
        BY <2>1, <3>5, <2>7 DEF PostAnswered, PostLost, Receive
      <3>7. \A g \in Ref \ {f} : group'[g] = group[g] /\ members'[g] = members[g]
        BY <3>6, <1>1 DEF TypeOK
      <3>8. Live(f)' => members'[f] = x.sent
        BY <3>5, <3>6, <1>1 DEF Live, TypeOK
      <3>9. LotReq(req[p])'
        BY <3>3, <3>4, <3>5, <3>6, <3>8, <2>4 DEF LotReq, LotSteps, Orders, courseVars, orderVars, Live
      <3> QED BY <3>4, <3>5, <3>6, <3>7, <3>8, <3>9, <2>1, <2>2, <2>3, <2>4, FollowApart DEF courseVars, orderVars
    <2> QED BY <2>6, <2>7, <1>15
  <1> QED BY <1>6, <1>7, <1>8, <1>9, <1>10, <1>11, <1>12, <1>13, <1>14, <1>15
          DEF Next, Arrive, Escalate, TakeBack, Relance, RelanceRead

(* While Turbo has a group, its orders are Turbo's, on a subcontracted     *)
(* course that answers to the group's reference: with any number of        *)
(* requests, crashes and repeated webhooks, as long as no take-back        *)
(* overlaps another request and no course is relaunched, which tells Turbo *)
(* nothing (escalateToTurbo, revenirEnInterne).                            *)
THEOREM Followed ==
  ASSUME Exclusive, "relance" \notin Ops
  PROVE  Spec => []GroupIsFollowed
  <1>1. Init => ClaimInv /\ LotInv /\ GroupIsFollowed
    BY DEF Init, ClaimInv, LotInv, LotReq, LotSteps, GroupIsFollowed, Idle, Holds, Claims, Live
  <1> QED BY <1>1, NextClaim, NextFollow, Inductive, PTL DEF Spec

=============================================================================
