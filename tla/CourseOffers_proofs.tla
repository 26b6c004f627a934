------------------------ MODULE CourseOffers_proofs ------------------------
(***************************************************************************)
(* The safety of CourseOffers for every set of courses, livreurs, offers   *)
(* and concurrent requests, and for every setting of the delays.           *)
(*                                                                         *)
(* None of the properties is inductive alone: what a request writes is     *)
(* what it read some statements earlier.  IInv adds what a request in      *)
(* flight knows (ReqInv) and what a row of the offer table holds (RowInv). *)
(***************************************************************************)
EXTENDS CourseOffers, TLAPS

(* What a request in flight holds at each of its steps.                    *)
ReqInv(r) ==
    /\ r \in Request
    /\ r.step \in {"accept", "refuse", "refuse_count", "next_course", "next_pending", "next_expire",
                   "next_pick", "next_offer", "retry_alert", "claim", "turbo", "relance", "cancel"}
         => r.course \in Course
    /\ r.step \in {"accept", "next_offer"} => r.livreur \in Livreur
    /\ r.step \in {"accept", "refuse", "remind"} => r.offer \in Offer
    /\ r.step = "remind" => r.lu < (IF r.offer \in r.lot THEN 2 ELSE 1)

(* A row that exists names a course and a livreur; only a PENDING one has  *)
(* reminders.                                                              *)
RowInv(x) == /\ x.status # "FREE" => x.course \in Course /\ x.livreur \in Livreur
             /\ x.status # "PENDING" => x.reminders = 0

CourseOK == /\ statut    \in [Course -> CourseStatut]
            /\ livreur   \in [Course -> Livreur \cup {NONE}]
            /\ refusals  \in [Course -> 0..MaxRefusals]
            /\ attente   \in [Course -> 0..MaxWait]
RowOK    == /\ row \in [Offer -> Row]
            /\ pushes \in [Offer -> Nat]
            /\ \A o \in Offer : RowInv(row[o])
            /\ OnePendingPerPair
            /\ RemindedOnce
AlertOK  == /\ alerted \in [Course -> BOOLEAN]
            /\ bells \in [Course -> Nat]
            /\ AlertedOnce
ReqOK    == /\ req \in [Req -> Request]
            /\ \A p \in Req : ReqInv(req[p])
TurboOK  == /\ escalated \in [Course -> BOOLEAN]
            /\ EscalationExclusive

IInv == CourseOK /\ RowOK /\ AlertOK /\ ReqOK /\ TurboOK

-----------------------------------------------------------------------------
(* Lemmas on requests *)

LEMMA IdleInv == ReqInv(Idle)
  BY DEF ReqInv, Idle, Request, Steps

(* Where a loop goes after one course, or a request at its end.            *)
LEMMA AfterInv ==
  ASSUME NEW r \in Request
  PROVE  ReqInv(After(r)) /\ After(r).step # "turbo"
  <1>1. CASE r.todo = {}
    BY <1>1, IdleInv DEF After, Idle
  <1>2. CASE r.todo # {}
    <2> DEFINE s == IF r.loop = "expire" THEN "expire_count" ELSE "retry"
    <2>1. s \in {"expire_count", "retry"} /\ s \in Steps
      BY DEF Steps
    <2>2. After(r) = [r EXCEPT !.step = s, !.course = NONE, !.livreur = NONE, !.offer = NONE, !.lu = 0]
      BY <1>2 DEF After
    <2> HIDE DEF s
    <2>3. After(r).step = s
      BY <2>2 DEF Request
    <2>4. /\ r.loop \in {"none", "expire", "retry"} /\ r.lot \in SUBSET Offer
          /\ r.todo \in SUBSET Course /\ r.murs \in SUBSET Course
          /\ r.bascule \in SUBSET Course /\ r.alerte \in SUBSET Course
      BY DEF Request
    <2>5. After(r) = [step |-> s, loop |-> r.loop, course |-> NONE, livreur |-> NONE, offer |-> NONE,
                      lu |-> 0, lot |-> r.lot, todo |-> r.todo, murs |-> r.murs,
                      bascule |-> r.bascule, alerte |-> r.alerte]
      BY <2>2 DEF Request
    <2>6. After(r) \in Request
      BY <2>1, <2>4, <2>5 DEF Request
    <2> QED BY <2>1, <2>3, <2>6 DEF ReqInv
  <1> QED BY <1>1, <1>2

(* A request that moves on keeps ReqOK.                                    *)
LEMMA GotoReq ==
  ASSUME ReqOK, NEW p \in Req, NEW r, ReqInv(r), Goto(p, r)
  PROVE  ReqOK' /\ req'[p] = r /\ \A q \in Req \ {p} : req'[q] = req[q]
  BY DEF ReqOK, ReqInv, Goto

(* Whoever is not waiting for Turbo disturbs no escalation.                *)
LEMMA GotoTurbo ==
  ASSUME ReqOK, TurboOK, NEW p \in Req, NEW r, ReqInv(r), Goto(p, r),
         r.step # "turbo", UNCHANGED escalated
  PROVE  TurboOK'
  <1>1. /\ req'[p] = r
        /\ \A q \in Req \ {p} : req'[q] = req[q]
    BY GotoReq
  <1> QED BY <1>1 DEF TurboOK, EscalationExclusive, At

(* A step that only moves a request on.                                    *)
LEMMA ReqOnly ==
  ASSUME IInv, NEW p \in Req, NEW r, ReqInv(r), Goto(p, r), r.step # "turbo",
         UNCHANGED <<courseVars, row, bells, pushes>>
  PROVE  IInv'
  <1>1. ReqOK' BY GotoReq DEF IInv
  <1>2. TurboOK' BY GotoTurbo DEF IInv, courseVars
  <1>3. CourseOK' BY DEF IInv, CourseOK, courseVars
  <1>4. RowOK' BY DEF IInv, RowOK, OnePendingPerPair, RemindedOnce
  <1>5. AlertOK' BY DEF IInv, AlertOK, AlertedOnce, courseVars
  <1> QED BY <1>1, <1>2, <1>3, <1>4, <1>5 DEF IInv

-----------------------------------------------------------------------------
(* Lemmas on the offer table *)

(* The insertion keeps one PENDING row per pair.                           *)
LEMMA CreateOfferRow ==
  ASSUME RowOK, NEW c \in Course, NEW d \in Livreur, CreateOffer(c, d), UNCHANGED pushes
  PROVE  RowOK'
  <1>1. CASE PendingPair(c, d)
    BY <1>1 DEF CreateOffer, RowOK, OnePendingPerPair, RemindedOnce
  <1>2. CASE ~PendingPair(c, d)
    <2> DEFINE new == [course |-> c, livreur |-> d, status |-> "PENDING",
                       age |-> 0, reminders |-> 0]
    <2>1. PICK o \in Offer : row[o].status = "FREE" /\ row' = [row EXCEPT ![o] = new]
      BY <1>2 DEF CreateOffer
    <2>2. new \in Row /\ RowInv(new)
      BY DEF Row, RowInv, OfferStatus, Ages, EXPIRY
    <2>3. /\ row' \in [Offer -> Row]
          /\ \A x \in Offer : RowInv(row'[x])
      BY <2>1, <2>2 DEF RowOK
    <2>4. OnePendingPerPair'
      BY <1>2, <2>1 DEF RowOK, OnePendingPerPair, PendingPair, IsPending
    <2>5. RemindedOnce'
      BY <2>1 DEF RowOK, RemindedOnce, RowInv
    <2> QED BY <2>3, <2>4, <2>5 DEF RowOK
  <1> QED BY <1>1, <1>2

(* Settling some offers, whichever they are.                               *)
LEMMA SettleRows ==
  ASSUME RowOK, NEW S \in SUBSET Offer, NEW st \in {"ACCEPTED", "REFUSED", "EXPIRED"},
         \A o \in S : row[o].status # "FREE",
         row' = [o \in Offer |-> IF o \in S THEN Settled(o, st) ELSE row[o]],
         \A o \in Offer : pushes'[o] = 0 \/ (o \notin S /\ pushes'[o] = pushes[o]),
         pushes' \in [Offer -> Nat]
  PROVE  RowOK'
  <1>1. ASSUME NEW o \in S
        PROVE  Settled(o, st) \in Row /\ RowInv(Settled(o, st))
    <2>1. row[o] \in Row /\ RowInv(row[o]) /\ row[o].status # "FREE"
      BY DEF RowOK
    <2>2. st \in OfferStatus /\ 0 \in Ages /\ 0 \in 0..2
      BY DEF OfferStatus, Ages, EXPIRY
    <2>3. Settled(o, st) \in Row
      BY <2>1, <2>2 DEF Row, Settled
    <2>4. RowInv(Settled(o, st))
      BY <2>1 DEF Row, RowInv, Settled
    <2> QED BY <2>3, <2>4
  <1>2. row' \in [Offer -> Row] /\ \A o \in Offer : RowInv(row'[o])
    BY <1>1 DEF RowOK
  <1>3. \A o \in S : row'[o].status # "PENDING" /\ row'[o].reminders = 0
    BY DEF RowOK, Settled, Row
  <1>4. OnePendingPerPair'
    BY <1>3 DEF RowOK, OnePendingPerPair
  <1>5. ASSUME NEW o \in Offer
        PROVE  pushes'[o] <= row'[o].reminders
    <2>1. row'[o].reminders \in Nat
      BY <1>2 DEF Row
    <2>2. CASE pushes'[o] = 0
      BY <2>1, <2>2
    <2>3. CASE o \notin S /\ pushes'[o] = pushes[o]
      BY <2>3 DEF RowOK, RemindedOnce
    <2> QED BY <2>2, <2>3
  <1> QED BY <1>2, <1>4, <1>5 DEF RowOK, RemindedOnce

LEMMA SetOfferRow ==
  ASSUME RowOK, NEW o \in Offer, row[o].status # "FREE",
         NEW st \in {"ACCEPTED", "REFUSED", "EXPIRED"}, SetOffer(o, st)
  PROVE  RowOK'
  <1>1. row' = [x \in Offer |-> IF x \in {o} THEN Settled(x, st) ELSE row[x]]
    BY DEF RowOK, SetOffer
  <1>2. /\ pushes' \in [Offer -> Nat]
        /\ \A x \in Offer : pushes'[x] = IF x \in {o} THEN 0 ELSE pushes[x]
    BY DEF RowOK, SetOffer
  <1> QED BY <1>1, <1>2, SettleRows, {o} \in SUBSET Offer

-----------------------------------------------------------------------------
(* The initial states, and one lemma per action *)

LEMMA InitIInv == Init => IInv
  <1> SUFFICES ASSUME Init PROVE IInv
    OBVIOUS
  <1>1. CourseOK /\ AlertOK
    BY WaitAssumption DEF Init, CourseOK, AlertOK, AlertedOnce, CourseStatut
  <1>2. RowOK
    BY DEF Init, RowOK, OnePendingPerPair, RemindedOnce, FreeRow, Row, RowInv, OfferStatus, Ages, EXPIRY
  <1>3. ReqOK /\ TurboOK
    <2>1. Idle \in Request /\ Idle.step = "idle"
      BY IdleInv DEF ReqInv, Idle
    <2> QED BY <2>1, IdleInv DEF Init, ReqOK, TurboOK, EscalationExclusive, At
  <1> QED BY <1>1, <1>2, <1>3 DEF IInv

LEMMA CreateIInv == ASSUME IInv, NEW p \in Req, NEW c \in Course, Create(p, c) PROVE IInv'
  <1> DEFINE r == [Idle EXCEPT !.step = "next_course", !.course = c]
  <1>1. ReqInv(r) /\ r.step # "turbo" /\ Goto(p, r)
    BY DEF Create, Begin, ReqInv, Idle, Request, Steps
  <1>2. ReqOK' /\ TurboOK'
    BY <1>1, GotoReq, GotoTurbo DEF IInv, Create
  <1>3. CourseOK' BY DEF IInv, Create, CourseOK, CourseStatut
  <1>4. RowOK' /\ AlertOK'
    BY DEF IInv, Create, RowOK, OnePendingPerPair, RemindedOnce, AlertOK, AlertedOnce
  <1> QED BY <1>2, <1>3, <1>4 DEF IInv

(* The actions of offerNextDeliverer.                                      *)
LEMMA NextCourseIInv == ASSUME IInv, NEW p \in Req, NextCourse(p) PROVE IInv'
  <1> DEFINE r == [req[p] EXCEPT !.step = "next_pending", !.lu = refusals[req[p].course]]
  <1>1. req[p] \in Request /\ ReqInv(req[p]) /\ req[p].step = "next_course"
    BY DEF IInv, ReqOK, NextCourse, At
  <1>2. req[p].course \in Course
    BY <1>1 DEF ReqInv
  <1>3. refusals[req[p].course] \in Nat
    BY <1>2, WaitAssumption DEF IInv, CourseOK
  <1>4. ReqInv(r) /\ r.step # "turbo"
    BY <1>1, <1>2, <1>3 DEF ReqInv, Request, Steps
  <1>5. CASE statut[req[p].course] = "PENDING_ASSIGNMENT"
    BY <1>5, <1>4, ReqOnly DEF NextCourse
  <1>6. CASE statut[req[p].course] # "PENDING_ASSIGNMENT"
    BY <1>6, <1>1, AfterInv, ReqOnly DEF NextCourse, Return
  <1> QED BY <1>5, <1>6

LEMMA NextPendingIInv == ASSUME IInv, NEW p \in Req, NextPending(p) PROVE IInv'
  <1> DEFINE r(s) == [req[p] EXCEPT !.step = s]
  <1>1. req[p] \in Request /\ ReqInv(req[p]) /\ req[p].step = "next_pending"
    BY DEF IInv, ReqOK, NextPending, At
  <1>2. \A s \in {"next_expire", "next_pick"} : ReqInv(r(s)) /\ r(s).step # "turbo"
    BY <1>1 DEF ReqInv, Request, Steps
  <1>3. \/ Goto(p, After(req[p]))
        \/ \E s \in {"next_expire", "next_pick"} : Goto(p, r(s))
    BY DEF NextPending, Step, Return
  <1> QED BY <1>1, <1>2, <1>3, AfterInv, ReqOnly DEF NextPending

LEMMA NextExpireIInv == ASSUME IInv, NEW p \in Req, NextExpire(p) PROVE IInv'
  <1>1. req[p] \in Request
    BY DEF IInv, ReqOK
  <1>2. ReqOK' /\ TurboOK'
    BY <1>1, AfterInv, GotoReq, GotoTurbo DEF IInv, NextExpire, Return
  <1>3. CourseOK' BY DEF IInv, NextExpire, CourseOK, CourseStatut
  <1>4. RowOK' /\ AlertOK'
    BY DEF IInv, NextExpire, RowOK, OnePendingPerPair, RemindedOnce, AlertOK, AlertedOnce
  <1> QED BY <1>2, <1>3, <1>4 DEF IInv

LEMMA NextPickIInv == ASSUME IInv, NEW p \in Req, NextPick(p) PROVE IInv'
  <1> DEFINE r(d) == [req[p] EXCEPT !.step = "next_offer", !.livreur = d]
  <1>1. req[p] \in Request /\ ReqInv(req[p]) /\ req[p].step = "next_pick"
    BY DEF IInv, ReqOK, NextPick, At
  <1>2. \A d \in Livreur : ReqInv(r(d)) /\ r(d).step # "turbo"
    BY <1>1 DEF ReqInv, Request, Steps
  <1>3. Goto(p, After(req[p])) \/ \E d \in Livreur : Goto(p, r(d))
    BY DEF NextPick, Return
  <1> QED BY <1>1, <1>2, <1>3, AfterInv, ReqOnly DEF NextPick

LEMMA NextOfferIInv == ASSUME IInv, NEW p \in Req, NextOffer(p) PROVE IInv'
  <1>1. req[p] \in Request /\ req[p].course \in Course /\ req[p].livreur \in Livreur
    BY DEF IInv, ReqOK, ReqInv, NextOffer, At
  <1>2. ReqOK' /\ TurboOK'
    BY <1>1, AfterInv, GotoReq, GotoTurbo DEF IInv, NextOffer, Return, courseVars
  <1>3. RowOK'
    BY <1>1, CreateOfferRow DEF IInv, NextOffer
  <1>4. CourseOK' /\ AlertOK'
    BY DEF IInv, NextOffer, CourseOK, AlertOK, AlertedOnce, courseVars
  <1> QED BY <1>2, <1>3, <1>4 DEF IInv
(* The answers of the livreur.                                             *)
LEMMA AcceptReadIInv ==
  ASSUME IInv, NEW p \in Req, NEW o \in Offer, AcceptRead(p, o) PROVE IInv'
  <1> DEFINE r == [Idle EXCEPT !.step = "accept", !.course = row[o].course,
                               !.livreur = row[o].livreur, !.offer = o]
  <1>1. row[o].course \in Course /\ row[o].livreur \in Livreur
    BY DEF IInv, RowOK, RowInv, AcceptRead, IsLive
  <1>2. ReqInv(r) /\ r.step # "turbo"
    BY <1>1 DEF ReqInv, Idle, Request, Steps
  <1> QED BY <1>2, ReqOnly DEF AcceptRead

LEMMA AcceptWriteIInv == ASSUME IInv, NEW p \in Req, AcceptWrite(p) PROVE IInv'
  <1>1. /\ req[p] \in Request /\ req[p].course \in Course
        /\ req[p].livreur \in Livreur /\ req[p].offer \in Offer
    BY DEF IInv, ReqOK, ReqInv, AcceptWrite, At
  <1>2. ReqOK' /\ TurboOK'
    BY <1>1, AfterInv, GotoReq, GotoTurbo DEF IInv, AcceptWrite, Return
  <1>3. CourseOK'
    BY <1>1 DEF IInv, AcceptWrite, CourseOK, CourseStatut
  <1>4. RowOK'
    <2>1. CASE row[req[p].offer].status = "FREE"
      BY <2>1 DEF IInv, AcceptWrite, RowOK, OnePendingPerPair, RemindedOnce
    <2>2. CASE row[req[p].offer].status # "FREE"
      BY <2>2, <1>1, SetOfferRow DEF IInv, AcceptWrite
    <2> QED BY <2>1, <2>2
  <1>5. AlertOK'
    BY DEF IInv, AcceptWrite, AlertOK, AlertedOnce
  <1> QED BY <1>2, <1>3, <1>4, <1>5 DEF IInv

LEMMA RefuseReadIInv ==
  ASSUME IInv, NEW p \in Req, NEW o \in Offer, RefuseRead(p, o) PROVE IInv'
  <1> DEFINE r == [Idle EXCEPT !.step = "refuse", !.course = row[o].course, !.offer = o]
  <1>1. row[o].course \in Course
    BY DEF IInv, RowOK, RowInv, RefuseRead
  <1>2. ReqInv(r) /\ r.step # "turbo"
    BY <1>1 DEF ReqInv, Idle, Request, Steps
  <1> QED BY <1>2, ReqOnly DEF RefuseRead

LEMMA RefuseWriteIInv == ASSUME IInv, NEW p \in Req, RefuseWrite(p) PROVE IInv'
  <1> DEFINE r == [req[p] EXCEPT !.step = "refuse_count"]
  <1>1. req[p] \in Request /\ req[p].course \in Course /\ req[p].offer \in Offer
    BY DEF IInv, ReqOK, ReqInv, RefuseWrite, At
  <1>2. ReqInv(r) /\ r.step # "turbo"
    BY <1>1 DEF ReqInv, Request, Steps
  <1>3. ReqOK' /\ TurboOK'
    BY <1>1, <1>2, AfterInv, GotoReq, GotoTurbo DEF IInv, RefuseWrite, Return, Step, courseVars
  <1>4. RowOK'
    <2>1. CASE row[req[p].offer].status = "FREE"
      BY <2>1 DEF IInv, RefuseWrite, RowOK, OnePendingPerPair, RemindedOnce
    <2>2. CASE row[req[p].offer].status # "FREE"
      BY <2>2, <1>1, SetOfferRow DEF IInv, RefuseWrite
    <2> QED BY <2>1, <2>2
  <1>5. CourseOK' /\ AlertOK'
    BY DEF IInv, RefuseWrite, CourseOK, AlertOK, AlertedOnce, courseVars
  <1> QED BY <1>3, <1>4, <1>5 DEF IInv

(* refusal_count + 1, by a request that moves on without holding Turbo.    *)
LEMMA CountRefusalIInv ==
  ASSUME IInv, NEW p \in Req, NEW c \in Course, CountRefusal(c),
         NEW r, ReqInv(r), r.step # "turbo", Goto(p, r)
  PROVE  IInv'
  <1>1. ReqOK' /\ TurboOK'
    BY GotoReq, GotoTurbo DEF IInv, CountRefusal
  <1>2. CourseOK'
    BY WaitAssumption DEF IInv, CountRefusal, CourseOK
  <1>3. RowOK' /\ AlertOK'
    BY DEF IInv, CountRefusal, RowOK, OnePendingPerPair, RemindedOnce, AlertOK, AlertedOnce
  <1> QED BY <1>1, <1>2, <1>3 DEF IInv

LEMMA RefuseCountIInv == ASSUME IInv, NEW p \in Req, RefuseCount(p) PROVE IInv'
  <1> DEFINE r == [req[p] EXCEPT !.step = "next_course"]
  <1>1. req[p] \in Request /\ req[p].course \in Course
    BY DEF IInv, ReqOK, ReqInv, RefuseCount, At
  <1>2. ReqInv(r) /\ r.step # "turbo"
    BY <1>1 DEF ReqInv, Request, Steps
  <1> QED BY <1>1, <1>2, CountRefusalIInv DEF RefuseCount, Step

-----------------------------------------------------------------------------
(* The crons of the offers.                                                *)
LEMMA ExpireReadIInv == ASSUME IInv, NEW p \in Req, ExpireRead(p) PROVE IInv'
  <1> DEFINE lot == {o \in Offer : row[o].status = "PENDING" /\ row[o].age = EXPIRY}
             r == [Idle EXCEPT !.step = "expire", !.loop = "expire", !.lot = lot,
                               !.todo = {row[o].course : o \in lot}]
  <1>1. {row[o].course : o \in lot} \subseteq Course
    BY DEF IInv, RowOK, RowInv
  <1>2. ReqInv(r) /\ r.step # "turbo"
    BY <1>1 DEF ReqInv, Idle, Request, Steps
  <1> QED BY <1>2, ReqOnly DEF ExpireRead

LEMMA ExpireWriteIInv == ASSUME IInv, NEW p \in Req, ExpireWrite(p) PROVE IInv'
  <1> DEFINE r == [req[p] EXCEPT !.step = "expire_count", !.lot = {}]
             S == {o \in req[p].lot : row[o].status # "FREE"}
  <1>1. req[p] \in Request /\ req[p].lot \subseteq Offer
    BY DEF IInv, ReqOK, Request
  <1>2. ReqInv(r) /\ r.step # "turbo"
    BY <1>1 DEF ReqInv, Request, Steps
  <1>3. ReqOK' /\ TurboOK'
    BY <1>2, GotoReq, GotoTurbo DEF IInv, ExpireWrite, courseVars
  <1>4. RowOK'
    <2>1. row' = [o \in Offer |-> IF o \in S THEN Settled(o, "EXPIRED") ELSE row[o]]
      BY <1>1 DEF ExpireWrite
    <2>2. /\ pushes' \in [Offer -> Nat]
          /\ \A o \in Offer : pushes'[o] = 0 \/ (o \notin S /\ pushes'[o] = pushes[o])
      BY <1>1 DEF IInv, RowOK, ExpireWrite
    <2>3. S \in SUBSET Offer /\ \A o \in S : row[o].status # "FREE"
      BY <1>1
    <2> QED BY <2>1, <2>2, <2>3, SettleRows DEF IInv
  <1>5. CourseOK' /\ AlertOK'
    BY DEF IInv, ExpireWrite, CourseOK, AlertOK, AlertedOnce, courseVars
  <1> QED BY <1>3, <1>4, <1>5 DEF IInv

LEMMA ExpireCountIInv == ASSUME IInv, NEW p \in Req, ExpireCount(p) PROVE IInv'
  <1> DEFINE r(c) == [req[p] EXCEPT !.step = "next_course", !.course = c, !.todo = @ \ {c}]
  <1>1. PICK c \in req[p].todo : CountRefusal(c) /\ Goto(p, r(c))
    BY DEF ExpireCount
  <1>2. req[p] \in Request /\ req[p].todo \subseteq Course /\ c \in Course
    BY DEF IInv, ReqOK, Request
  <1>3. ReqInv(r(c)) /\ r(c).step # "turbo"
    BY <1>2 DEF ReqInv, Request, Steps
  <1> QED BY <1>1, <1>2, <1>3, CountRefusalIInv

LEMMA RemindReadIInv ==
  ASSUME IInv, NEW p \in Req, NEW o \in Offer, RemindRead(p, o) PROVE IInv'
  <1> DEFINE r == [Idle EXCEPT !.step = "remind", !.offer = o, !.lu = row[o].reminders,
                               !.lot = {x \in {o} : row[x].age >= 2}]
  <1>1. row[o] \in Row /\ Dus(row[o].age) > row[o].reminders
    BY DEF IInv, RowOK, RemindRead
  <1>2. r \in Request
    <2>1. row[o].reminders \in Nat
      BY <1>1 DEF Row
    <2>2. {x \in {o} : row[x].age >= 2} \subseteq Offer
      OBVIOUS
    <2> QED BY <2>1, <2>2 DEF Idle, Request, Steps
  <1>3. r.lu < (IF r.offer \in r.lot THEN 2 ELSE 1)
    BY <1>1 DEF Dus, Row, Ages, EXPIRY, Idle
  <1>4. ReqInv(r) /\ r.step # "turbo"
    BY <1>2, <1>3 DEF ReqInv, Idle
  <1> QED BY <1>4, ReqOnly DEF RemindRead

LEMMA RemindClaimIInv == ASSUME IInv, NEW p \in Req, RemindClaim(p) PROVE IInv'
  <1> DEFINE o == req[p].offer
             n == IF o \in req[p].lot THEN 2 ELSE 1
  <1>1. o \in Offer /\ req[p].lu < n /\ req[p].lu \in Nat
    BY DEF IInv, ReqOK, ReqInv, RemindClaim, At, Request
  <1>2. ReqOK' /\ TurboOK'
    BY IdleInv, GotoReq, GotoTurbo DEF IInv, RemindClaim, courseVars, Idle
  <1>3. RowOK'
    <2>1. CASE row[o].status = "PENDING" /\ row[o].reminders = req[p].lu
      <3>1. /\ row' = [row EXCEPT ![o].reminders = n]
            /\ pushes' = [pushes EXCEPT ![o] = @ + 1]
        BY <2>1 DEF RemindClaim
      <3>2. row[o] \in Row /\ RowInv(row[o])
        BY <1>1 DEF IInv, RowOK
      <3>3. n \in 0..2
        OBVIOUS
      <3>4. [row[o] EXCEPT !.reminders = n] \in Row /\ RowInv([row[o] EXCEPT !.reminders = n])
        BY <2>1, <3>2, <3>3 DEF Row, RowInv
      <3>5. row' \in [Offer -> Row] /\ \A x \in Offer : RowInv(row'[x])
        BY <3>1, <3>4, <1>1 DEF IInv, RowOK
      <3>6. OnePendingPerPair'
        BY <3>1, <1>1 DEF IInv, RowOK, OnePendingPerPair, Row
      <3>7. pushes' \in [Offer -> Nat]
        BY <3>1, <1>1 DEF IInv, RowOK
      <3>8. pushes[o] + 1 <= n
        BY <2>1, <1>1 DEF IInv, RowOK, RemindedOnce
      <3>9. RemindedOnce'
        BY <3>1, <3>8, <1>1 DEF IInv, RowOK, RemindedOnce, Row
      <3> QED BY <3>5, <3>6, <3>7, <3>9 DEF RowOK
    <2>2. CASE ~(row[o].status = "PENDING" /\ row[o].reminders = req[p].lu)
      BY <2>2 DEF IInv, RemindClaim, RowOK, OnePendingPerPair, RemindedOnce
    <2> QED BY <2>1, <2>2
  <1>4. CourseOK' /\ AlertOK'
    BY DEF IInv, RemindClaim, CourseOK, AlertOK, AlertedOnce, courseVars
  <1> QED BY <1>2, <1>3, <1>4 DEF IInv
LEMMA RetryReadIInv == ASSUME IInv, NEW p \in Req, RetryRead(p) PROVE IInv'
  <1> DEFINE W == {c \in Course : Unassigned(c)}
             r == [Idle EXCEPT !.step = "retry", !.loop = "retry", !.todo = W,
                     !.murs    = {c \in W : attente[c] >= MaxWait},
                     !.bascule = {c \in W : attente[c] >= TurboAfter},
                     !.alerte  = {c \in W : attente[c] >= AlertAfter /\ ~alerted[c]}]
  <1>1. ReqInv(r) /\ r.step # "turbo"
    BY DEF ReqInv, Idle, Request, Steps
  <1> QED BY <1>1, ReqOnly DEF RetryRead

LEMMA RetryExpireIInv == ASSUME IInv, NEW p \in Req, RetryExpire(p) PROVE IInv'
  <1> DEFINE r(c) == [req[p] EXCEPT !.todo = @ \ {c}]
  <1>1. PICK c \in req[p].todo \cap req[p].murs :
           /\ statut' = [statut EXCEPT ![c] = IF @ = "PENDING_ASSIGNMENT" THEN "EXPIRED" ELSE @]
           /\ Goto(p, After(r(c)))
    BY DEF RetryExpire
  <1>2. r(c) \in Request
    BY DEF IInv, ReqOK, Request
  <1>3. ReqOK' /\ TurboOK'
    BY <1>1, <1>2, AfterInv, GotoReq, GotoTurbo DEF IInv, RetryExpire
  <1>4. CourseOK'
    BY <1>1 DEF IInv, RetryExpire, CourseOK, CourseStatut
  <1>5. RowOK' /\ AlertOK'
    BY DEF IInv, RetryExpire, RowOK, OnePendingPerPair, RemindedOnce, AlertOK, AlertedOnce
  <1> QED BY <1>3, <1>4, <1>5 DEF IInv

LEMMA RetryTakeIInv == ASSUME IInv, NEW p \in Req, RetryTake(p) PROVE IInv'
  <1> DEFINE r(c, s) == [req[p] EXCEPT !.step = s, !.course = c, !.todo = @ \ {c}]
  <1>1. PICK c \in req[p].todo, s \in {"claim", "retry_alert"} : Goto(p, r(c, s))
    BY DEF RetryTake
  <1>2. req[p] \in Request /\ c \in Course
    BY DEF IInv, ReqOK, Request
  <1>3. ReqInv(r(c, s)) /\ r(c, s).step # "turbo"
    BY <1>2 DEF ReqInv, Request, Steps
  <1> QED BY <1>1, <1>3, ReqOnly DEF RetryTake

LEMMA RetryAlertIInv == ASSUME IInv, NEW p \in Req, RetryAlert(p) PROVE IInv'
  <1> DEFINE r == [req[p] EXCEPT !.step = "next_course"]
             c == req[p].course
             rings == c \in req[p].alerte /\ ~alerted[c]
  <1>1. req[p] \in Request /\ c \in Course
    BY DEF IInv, ReqOK, ReqInv, RetryAlert, At
  <1>2. ReqInv(r) /\ r.step # "turbo"
    BY <1>1 DEF ReqInv, Request, Steps
  <1>3. ReqOK' /\ TurboOK'
    BY <1>2, GotoReq, GotoTurbo DEF IInv, RetryAlert, Step
  <1>4. AlertOK'
    <2>1. CASE rings
      <3>1. /\ alerted' = [alerted EXCEPT ![c] = TRUE]
            /\ bells' = [bells EXCEPT ![c] = @ + 1]
        BY <2>1 DEF RetryAlert
      <3>2. bells[c] = 0
        BY <2>1, <1>1 DEF IInv, AlertOK, AlertedOnce
      <3> QED BY <3>1, <3>2, <1>1 DEF IInv, AlertOK, AlertedOnce
    <2>2. CASE ~rings
      <3>1. alerted' = alerted /\ bells' = bells
        BY <2>2, <1>1 DEF RetryAlert, IInv, AlertOK
      <3> QED BY <3>1 DEF IInv, AlertOK, AlertedOnce
    <2> QED BY <2>1, <2>2
  <1>5. CourseOK' /\ RowOK'
    BY DEF IInv, RetryAlert, CourseOK, RowOK, OnePendingPerPair, RemindedOnce
  <1> QED BY <1>3, <1>4, <1>5 DEF IInv

-----------------------------------------------------------------------------
(* The escalation.                                                         *)
LEMMA BeginIInv ==
  ASSUME IInv, NEW p \in Req, NEW c \in Course, NEW s \in {"claim", "relance", "cancel"},
         Begin(p, s, c), UNCHANGED <<courseVars, row, bells, pushes>>
  PROVE  IInv'
  <1> DEFINE r == [Idle EXCEPT !.step = s, !.course = c]
  <1>1. ReqInv(r) /\ r.step # "turbo"
    BY DEF ReqInv, Idle, Request, Steps
  <1> QED BY <1>1, ReqOnly DEF Begin

(* A request that holds no answer of Turbo's: the alert, or the end.       *)
LEMMA AfterRefusalStep ==
  ASSUME IInv, NEW p \in Req, req[p].course \in Course, AfterRefusal(p)
  PROVE  \E r : ReqInv(r) /\ r.step # "turbo" /\ Goto(p, r)
  <1> DEFINE r == [req[p] EXCEPT !.step = "retry_alert"]
  <1>1. req[p] \in Request
    BY DEF IInv, ReqOK
  <1>2. ReqInv(r) /\ r.step # "turbo"
    BY <1>1 DEF ReqInv, Request, Steps
  <1>3. Goto(p, r) \/ Goto(p, After(req[p]))
    BY DEF AfterRefusal, Step, Return
  <1> QED BY <1>1, <1>2, <1>3, AfterInv

LEMMA TurboClaimIInv == ASSUME IInv, NEW p \in Req, TurboClaim(p) PROVE IInv'
  <1> DEFINE r == [req[p] EXCEPT !.step = "turbo"]
             c == req[p].course
  <1>1. req[p] \in Request /\ c \in Course
    BY DEF IInv, ReqOK, ReqInv, TurboClaim, At
  <1>2. CASE statut[c] = "PENDING_ASSIGNMENT" /\ ~escalated[c]
    <2>1. escalated' = [escalated EXCEPT ![c] = TRUE] /\ Goto(p, r)
      BY <1>2 DEF TurboClaim, Step
    <2>2. ReqInv(r)
      BY <1>1 DEF ReqInv, Request, Steps
    <2>3. ReqOK' /\ req'[p] = r /\ \A q \in Req \ {p} : req'[q] = req[q]
      BY <2>1, <2>2, GotoReq DEF IInv
    <2>4. \A q \in Req : At(q, "turbo") => escalated[req[q].course] /\ req[q].course # c
      BY <1>2 DEF IInv, TurboOK, EscalationExclusive
    <2>5. \A q \in Req \ {p} : At(q, "turbo") => req[q].course \in Course
      BY DEF IInv, ReqOK, ReqInv, At
    <2>6. escalated' \in [Course -> BOOLEAN]
      BY <2>1, <1>1 DEF IInv, TurboOK
    <2>7. EscalationExclusive'
      <3>1. escalated'[c] /\ \A b \in Course : escalated[b] => escalated'[b]
        BY <2>1, <1>1 DEF IInv, TurboOK
      <3>2. \A q \in Req : At(q, "turbo")' => q = p \/ At(q, "turbo")
        BY <2>3 DEF At
      <3>3. ASSUME NEW q \in Req, At(q, "turbo")'
            PROVE  escalated'[req'[q].course]
        <4>1. CASE q = p
          BY <4>1, <2>3, <3>1
        <4>2. CASE q # p
          BY <4>2, <2>3, <2>4, <2>5, <3>1, <3>2, <3>3
        <4> QED BY <4>1, <4>2
      <3>4. ASSUME NEW q1 \in Req, NEW q2 \in Req, At(q1, "turbo")', At(q2, "turbo")',
                   req'[q1].course = req'[q2].course
            PROVE  q1 = q2
        <4>1. CASE q1 # p /\ q2 # p
          BY <4>1, <2>3, <3>2, <3>4 DEF IInv, TurboOK, EscalationExclusive
        <4>2. CASE q1 = p \/ q2 = p
          <5>1. req'[p].course = c
            BY <2>3, <1>1 DEF Request
          <5> QED BY <4>2, <5>1, <2>3, <2>4, <3>2, <3>4
        <4> QED BY <4>1, <4>2
      <3> QED BY <3>3, <3>4 DEF EscalationExclusive
    <2>8. CourseOK' /\ RowOK' /\ AlertOK'
      BY DEF IInv, TurboClaim, CourseOK, RowOK, OnePendingPerPair, RemindedOnce, AlertOK, AlertedOnce
    <2> QED BY <2>3, <2>6, <2>7, <2>8 DEF IInv, TurboOK
  <1>3. CASE ~(statut[c] = "PENDING_ASSIGNMENT" /\ ~escalated[c])
    <2>1. AfterRefusal(p) /\ UNCHANGED <<courseVars, row, bells, pushes>>
      BY <1>3 DEF TurboClaim, courseVars
    <2> QED BY <2>1, <1>1, AfterRefusalStep, ReqOnly
  <1> QED BY <1>2, <1>3

LEMMA TurboKeptIInv == ASSUME IInv, NEW p \in Req, TurboKept(p) PROVE IInv'
  <1>1. req[p] \in Request
    BY DEF IInv, ReqOK
  <1> QED BY <1>1, AfterInv, ReqOnly DEF TurboKept, Return

LEMMA TurboFailedIInv == ASSUME IInv, NEW p \in Req, TurboFailed(p) PROVE IInv'
  <1> DEFINE c == req[p].course
  <1>1. req[p] \in Request /\ c \in Course
    BY DEF IInv, ReqOK, ReqInv, TurboFailed, At
  <1>2. PICK r : ReqInv(r) /\ r.step # "turbo" /\ Goto(p, r)
    BY <1>1, AfterRefusalStep DEF TurboFailed
  <1>3. ReqOK' /\ req'[p] = r /\ \A q \in Req \ {p} : req'[q] = req[q]
    BY <1>2, GotoReq DEF IInv
  <1>4. \A q \in Req \ {p} : At(q, "turbo") => req[q].course # c /\ req[q].course \in Course
    BY DEF IInv, TurboOK, EscalationExclusive, TurboFailed, ReqOK, ReqInv, At
  <1>5. EscalationExclusive'
    BY <1>2, <1>3, <1>4, <1>1 DEF IInv, TurboOK, EscalationExclusive, TurboFailed, At
  <1>6. escalated' \in [Course -> BOOLEAN]
    BY <1>1 DEF IInv, TurboOK, TurboFailed
  <1>7. CourseOK' /\ RowOK' /\ AlertOK'
    BY DEF IInv, TurboFailed, CourseOK, RowOK, OnePendingPerPair, RemindedOnce, AlertOK, AlertedOnce
  <1> QED BY <1>3, <1>5, <1>6, <1>7 DEF IInv, TurboOK

-----------------------------------------------------------------------------
(* The back office and the environment.                                    *)
LEMMA ForceAssignIInv ==
  ASSUME IInv, NEW c \in Course, NEW d \in Livreur, ForceAssign(c, d) PROVE IInv'
  <1>1. RowOK'
    BY CreateOfferRow DEF IInv, ForceAssign
  <1>2. ReqOK' /\ TurboOK' /\ CourseOK' /\ AlertOK'
    BY DEF IInv, ForceAssign, ReqOK, TurboOK, EscalationExclusive, At, CourseOK, AlertOK,
           AlertedOnce, courseVars
  <1> QED BY <1>1, <1>2 DEF IInv

LEMMA RelanceWriteIInv == ASSUME IInv, NEW p \in Req, RelanceWrite(p) PROVE IInv'
  <1> DEFINE r == [req[p] EXCEPT !.step = "next_course"]
             c == req[p].course
  <1>1. req[p] \in Request /\ c \in Course
    BY DEF IInv, ReqOK, ReqInv, RelanceWrite, At
  <1>2. ReqInv(r) /\ r.step # "turbo"
    BY <1>1 DEF ReqInv, Request, Steps
  <1>3. ReqOK' /\ TurboOK'
    BY <1>2, GotoReq, GotoTurbo DEF IInv, RelanceWrite, Step
  <1>4. CourseOK'
    <2>1. 0 \in 0..MaxRefusals
      BY WaitAssumption
    <2> QED BY <2>1, <1>1 DEF IInv, RelanceWrite, CourseOK, CourseStatut
  <1>5. RowOK'
    <2>1. FreeRow \in Row /\ RowInv(FreeRow) /\ FreeRow.status # "PENDING" /\ FreeRow.reminders = 0
      BY DEF FreeRow, Row, RowInv, OfferStatus, Ages, EXPIRY
    <2>2. row' \in [Offer -> Row] /\ \A o \in Offer : RowInv(row'[o])
      BY <2>1 DEF IInv, RowOK, RelanceWrite
    <2>3. \A o \in Offer : \/ row'[o] = FreeRow /\ pushes'[o] = 0
                           \/ row'[o] = row[o] /\ pushes'[o] = pushes[o]
      BY DEF RelanceWrite
    <2>4. pushes' \in [Offer -> Nat]
      BY DEF IInv, RowOK, RelanceWrite
    <2>5. OnePendingPerPair'
      BY <2>1, <2>3 DEF IInv, RowOK, OnePendingPerPair
    <2>6. RemindedOnce'
      BY <2>1, <2>3 DEF IInv, RowOK, RemindedOnce
    <2> QED BY <2>2, <2>4, <2>5, <2>6 DEF RowOK
  <1>6. AlertOK'
    BY DEF IInv, RelanceWrite, AlertOK, AlertedOnce
  <1> QED BY <1>3, <1>4, <1>5, <1>6 DEF IInv

LEMMA CancelWriteIInv == ASSUME IInv, NEW p \in Req, CancelWrite(p) PROVE IInv'
  <1>1. req[p] \in Request
    BY DEF IInv, ReqOK
  <1>2. ReqOK' /\ TurboOK'
    BY <1>1, AfterInv, GotoReq, GotoTurbo DEF IInv, CancelWrite, Return
  <1>3. CourseOK' BY DEF IInv, CancelWrite, CourseOK, CourseStatut
  <1>4. RowOK' /\ AlertOK'
    BY DEF IInv, CancelWrite, RowOK, OnePendingPerPair, RemindedOnce, AlertOK, AlertedOnce
  <1> QED BY <1>2, <1>3, <1>4 DEF IInv

LEMMA AgeOfferIInv == ASSUME IInv, NEW o \in Offer, AgeOffer(o) PROVE IInv'
  <1> DEFINE x == [row[o] EXCEPT !.age = @ + 1]
  <1>1. row[o] \in Row /\ RowInv(row[o]) /\ row[o].age \in 0..2
    BY DEF IInv, RowOK, AgeOffer, IsLive, Row, Ages, EXPIRY
  <1>2. x \in Row /\ RowInv(x)
    BY <1>1 DEF Row, RowInv, Ages, EXPIRY
  <1>3. row' = [row EXCEPT ![o] = x]
    BY DEF AgeOffer
  <1>4. row' \in [Offer -> Row] /\ \A y \in Offer : RowInv(row'[y])
    BY <1>2, <1>3 DEF IInv, RowOK
  <1>5. \A y \in Offer : /\ row'[y].status = row[y].status /\ row'[y].course = row[y].course
                         /\ row'[y].livreur = row[y].livreur
                         /\ row'[y].reminders = row[y].reminders
    BY <1>1, <1>3 DEF IInv, RowOK, Row
  <1>6. OnePendingPerPair' /\ RemindedOnce' /\ pushes' \in [Offer -> Nat]
    BY <1>5 DEF IInv, RowOK, OnePendingPerPair, RemindedOnce, AgeOffer
  <1>7. ReqOK' /\ TurboOK' /\ CourseOK' /\ AlertOK'
    BY DEF IInv, AgeOffer, ReqOK, TurboOK, EscalationExclusive, At, CourseOK, AlertOK,
           AlertedOnce, courseVars
  <1> QED BY <1>4, <1>6, <1>7 DEF IInv, RowOK

LEMMA AgeCourseIInv == ASSUME IInv, NEW c \in Course, AgeCourse(c) PROVE IInv'
  <1>1. CourseOK'
    BY WaitAssumption DEF IInv, AgeCourse, CourseOK
  <1>2. ReqOK' /\ TurboOK' /\ RowOK' /\ AlertOK'
    BY DEF IInv, AgeCourse, ReqOK, TurboOK, EscalationExclusive, At, RowOK, OnePendingPerPair,
           RemindedOnce, AlertOK, AlertedOnce
  <1> QED BY <1>1, <1>2 DEF IInv

LEMMA CrashIInv == ASSUME IInv, NEW p \in Req, Crash(p) PROVE IInv'
  <1>1. Idle.step # "turbo"
    BY DEF Idle
  <1> QED BY <1>1, IdleInv, ReqOnly DEF Crash

LEMMA StutterIInv == IInv /\ UNCHANGED vars => IInv'
  BY DEF vars, IInv, CourseOK, RowOK, OnePendingPerPair, RemindedOnce, AlertOK, AlertedOnce,
         ReqOK, TurboOK, EscalationExclusive, At

-----------------------------------------------------------------------------
LEMMA ContinueIInv == ASSUME IInv, NEW p \in Req, Continue(p) PROVE IInv'
  <1>1. CASE OfferNext(p)
    BY <1>1, NextCourseIInv, NextPendingIInv, NextExpireIInv, NextPickIInv, NextOfferIInv
       DEF OfferNext
  <1>2. CASE AcceptWrite(p) \/ RefuseWrite(p) \/ RefuseCount(p)
    BY <1>2, AcceptWriteIInv, RefuseWriteIInv, RefuseCountIInv
  <1>3. CASE ExpireWrite(p) \/ ExpireCount(p) \/ RemindClaim(p)
    BY <1>3, ExpireWriteIInv, ExpireCountIInv, RemindClaimIInv
  <1>4. CASE RetryExpire(p) \/ RetryTake(p) \/ RetryAlert(p)
    BY <1>4, RetryExpireIInv, RetryTakeIInv, RetryAlertIInv
  <1>5. CASE TurboClaim(p) \/ TurboKept(p) \/ TurboFailed(p)
    BY <1>5, TurboClaimIInv, TurboKeptIInv, TurboFailedIInv
  <1>6. CASE RelanceWrite(p) \/ CancelWrite(p)
    BY <1>6, RelanceWriteIInv, CancelWriteIInv
  <1> QED BY <1>1, <1>2, <1>3, <1>4, <1>5, <1>6 DEF Continue

LEMMA ArriveIInv == ASSUME IInv, NEW p \in Req, Arrive(p) PROVE IInv'
  <1>1. ASSUME NEW c \in Course, Create(p, c) PROVE IInv'
    BY <1>1, CreateIInv
  <1>2. ASSUME NEW c \in Course, TurboRead(p, c) \/ RelanceRead(p, c) \/ CancelRead(p, c)
        PROVE  IInv'
    BY <1>2, BeginIInv DEF TurboRead, RelanceRead, CancelRead
  <1>3. ASSUME NEW o \in Offer, AcceptRead(p, o) \/ RefuseRead(p, o) \/ RemindRead(p, o)
        PROVE  IInv'
    BY <1>3, AcceptReadIInv, RefuseReadIInv, RemindReadIInv
  <1> QED BY <1>1, <1>2, <1>3 DEF Arrive

LEMMA NextIInv == IInv /\ [Next]_vars => IInv'
  <1> SUFFICES ASSUME IInv, [Next]_vars PROVE IInv'
    OBVIOUS
  <1>1. ASSUME NEW p \in Req, Continue(p) \/ Arrive(p) PROVE IInv'
    BY <1>1, ContinueIInv, ArriveIInv
  <1>2. ASSUME NEW p \in Req, Cron(p) PROVE IInv'
    BY <1>2, ExpireReadIInv, RetryReadIInv DEF Cron
  <1>3. CASE Environment
    BY <1>3, AgeOfferIInv, AgeCourseIInv, CrashIInv, ForceAssignIInv DEF Environment
  <1>4. CASE UNCHANGED vars
    BY <1>4, StutterIInv
  <1> QED BY <1>1, <1>2, <1>3, <1>4 DEF Next

LEMMA IInvImplies == IInv => /\ TypeOK /\ OnePendingPerPair /\ RemindedOnce
                             /\ AlertedOnce /\ EscalationExclusive
  BY DEF IInv, TypeOK, CourseOK, RowOK, AlertOK, ReqOK, TurboOK

(* The inductive invariant holds in every behaviour.                       *)
THEOREM Inductive == Spec => []IInv
  BY InitIInv, NextIInv, PTL DEF Spec

(* Every variable has its type.                                            *)
THEOREM TypeCorrect == Spec => []TypeOK
  BY Inductive, IInvImplies, PTL

(* offerToDeliverer never leaves two PENDING offers to one livreur for one *)
(* course, however many crons, refusals and force-assigns run at once.     *)
THEOREM PairUnique == Spec => []OnePendingPerPair
  BY Inductive, IInvImplies, PTL

(* remindPendingOffers: no reminder is pushed twice, with any number of    *)
(* backends.                                                               *)
THEOREM RemindersUnique == Spec => []RemindedOnce
  BY Inductive, IInvImplies, PTL

(* retryUnassignedCourses: the staff hears of a course once.               *)
THEOREM AlertUnique == Spec => []AlertedOnce
  BY Inductive, IInvImplies, PTL

(* escalateToTurbo: one execution at a time subcontracts a course.         *)
THEOREM EscalationUnique == Spec => []EscalationExclusive
  BY Inductive, IInvImplies, PTL
-----------------------------------------------------------------------------
(* The ceiling of the retry cron *)

(* No course goes from ACCEPTED to EXPIRED.                                *)
Spared == \A c \in Course : ~(statut[c] = "ACCEPTED" /\ statut'[c] = "EXPIRED")

LEMMA KeptIsSpared == UNCHANGED statut => Spared
  BY DEF Spared

(* A write of one course, to anything but EXPIRED or not from ACCEPTED.    *)
LEMMA WriteIsSpared ==
  ASSUME CourseOK, NEW c, NEW st, statut' = [statut EXCEPT ![c] = st],
         st # "EXPIRED" \/ statut[c] # "ACCEPTED"
  PROVE  Spared
  BY DEF Spared, CourseOK

LEMMA ContinueSpares ==
  ASSUME IInv, NEW p \in Req, Continue(p), ~NextExpire(p)
  PROVE  Spared
  <1> USE DEF courseVars
  <1>0. CourseOK BY DEF IInv
  <1>1. CASE OfferNext(p)
    BY <1>1, KeptIsSpared DEF OfferNext, NextCourse, NextPending, NextPick, NextOffer
  <1>2. CASE AcceptWrite(p)
    <2>1. CASE UNCHANGED statut
      BY <2>1, KeptIsSpared
    <2>2. CASE statut' = [statut EXCEPT ![req[p].course] = "ACCEPTED"]
      BY <2>2, <1>0, WriteIsSpared
    <2> QED BY <1>2, <2>1, <2>2 DEF AcceptWrite
  <1>3. CASE RefuseWrite(p) \/ RefuseCount(p) \/ ExpireWrite(p) \/ ExpireCount(p)
    BY <1>3, KeptIsSpared DEF RefuseWrite, RefuseCount, CountRefusal, ExpireWrite, ExpireCount
  <1>4. CASE RemindClaim(p) \/ RetryTake(p) \/ RetryAlert(p)
    BY <1>4, KeptIsSpared DEF RemindClaim, RetryTake, RetryAlert
  <1>5. CASE RetryExpire(p)
    <2>1. PICK c : statut' = [statut EXCEPT ![c] = IF @ = "PENDING_ASSIGNMENT" THEN "EXPIRED" ELSE @]
      BY <1>5 DEF RetryExpire
    <2> QED BY <2>1, <1>0 DEF Spared, CourseOK
  <1>6. CASE TurboClaim(p) \/ TurboKept(p) \/ TurboFailed(p)
    BY <1>6, KeptIsSpared DEF TurboClaim, TurboKept, TurboFailed
  <1>7. CASE RelanceWrite(p)
    <2>1. PICK c : statut' = [statut EXCEPT ![c] = "PENDING_ASSIGNMENT"]
      BY <1>7 DEF RelanceWrite
    <2> QED BY <2>1, <1>0, WriteIsSpared
  <1>8. CASE CancelWrite(p)
    <2>1. statut' = [statut EXCEPT ![req[p].course] = "CANCELLED"]
      BY <1>8 DEF CancelWrite
    <2> QED BY <2>1, <1>0, WriteIsSpared
  <1> QED BY <1>1, <1>2, <1>3, <1>4, <1>5, <1>6, <1>7, <1>8 DEF Continue

LEMMA ArriveSpares ==
  ASSUME IInv, NEW p \in Req, Arrive(p) \/ Cron(p)
  PROVE  Spared
  <1> USE DEF courseVars
  <1>1. ASSUME NEW c \in Course, Create(p, c) PROVE Spared
    <2>1. statut' = [statut EXCEPT ![c] = "PENDING_ASSIGNMENT"]
      BY <1>1 DEF Create
    <2> QED BY <2>1, WriteIsSpared DEF IInv
  <1>2. ASSUME NEW c \in Course, TurboRead(p, c) \/ RelanceRead(p, c) \/ CancelRead(p, c)
        PROVE  Spared
    BY <1>2, KeptIsSpared DEF TurboRead, RelanceRead, CancelRead
  <1>3. ASSUME NEW o \in Offer, AcceptRead(p, o) \/ RefuseRead(p, o) \/ RemindRead(p, o)
        PROVE  Spared
    BY <1>3, KeptIsSpared DEF AcceptRead, RefuseRead, RemindRead
  <1>4. CASE Cron(p)
    BY <1>4, KeptIsSpared DEF Cron, ExpireRead, RetryRead
  <1> QED BY <1>1, <1>2, <1>3, <1>4 DEF Arrive

LEMMA EnvironmentSpares ==
  ASSUME IInv, Environment
  PROVE  Spared
  BY KeptIsSpared DEF Environment, AgeOffer, AgeCourse, Crash, ForceAssign, courseVars

(* retryUnassignedCourses: its ceiling never overwrites an acceptance; a   *)
(* course that is accepted is expired by the ceiling of refusals only.     *)
THEOREM CeilingSpares == Spec => CeilingSparesAccepted
  <1>1. ASSUME IInv, [Next]_vars
        PROVE  [\A c \in Course : statut[c] = "ACCEPTED" /\ statut'[c] = "EXPIRED"
                                     => \E p \in Req : NextExpire(p)]_vars
    <2>1. CASE \E p \in Req : NextExpire(p)
      BY <2>1
    <2>2. ASSUME \A p \in Req : ~NextExpire(p), Next PROVE Spared
      BY <1>1, <2>2, ContinueSpares, ArriveSpares, EnvironmentSpares DEF Next
    <2> QED BY <1>1, <2>1, <2>2 DEF Spared
  <1> QED BY <1>1, Inductive, PTL DEF Spec, CeilingSparesAccepted
=============================================================================
