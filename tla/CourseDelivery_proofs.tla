----------------------- MODULE CourseDelivery_proofs -----------------------
(***************************************************************************)
(* Part 1: what holds of a course carried by Turbo under every             *)
(* interleaving of its webhooks, of the client's code, the cashier, the    *)
(* crons and the back office, backends that stop included; and of the bell *)
(* of late courses, for either fleet.  A handler is a program, and a       *)
(* decision may be stale when its write runs; so the invariant says which  *)
(* statements a handler of a course of Turbo may still hold (ProgOK): none *)
(* of the livreur's, and the end of the course only once every delivery is *)
(* over, which nothing undoes.                                             *)
(*                                                                         *)
(* Part 2: what CourseDelivery promises for both fleets; it has an         *)
(* introduction of its own.  Everything is for every set of orders,        *)
(* payments and handlers.                                                  *)
(***************************************************************************)
EXTENDS CourseDelivery, FiniteSetTheorems, FunctionTheorems, SequenceTheorems, TLAPS

(* Statements that write neither a delivery nor the end of the course.     *)
Harmless == {"sync", "syncW", "settle", "drop", "left", "leftW", "declare", "declareW", "pickupW",
             "cancel", "cancelW", "alertW", "claim", "cascade", "addCascade", "refund", "paidW"}

TurboOps ==
    (Harmless \X {"", "PICKED_UP", "COLLECTED", "COMPLETED", "CANCELLED"})
    \cup ({"course", "courseW"} \X {"ACCEPTED", "AT_RESTAURANT", "IN_DELIVERY"})
    \cup ({"close"} \X {"course"})
    \cup ({"delivery"} \X {"IN_ROUTE", "DELIVERED"})
    \cup ({"deliveryW"} \X {"DELIVERED"})
    \cup ({"add", "attemptW"} \X Nat)

Closing == {"course", "courseW"} \X {"COMPLETED"}

Allowed == TurboOps \cup (IF AllOver THEN Closing ELSE {})

Program(S) == [prog : Seq(S), order : Order \cup {NONE}, row : Paiement \cup {NONE}]

WorldOK == /\ fleet = "TURBO"
           /\ livraison \in [Order -> DOMAIN DeliveryRank \cup {"FAILED", "CANCELLED"}]
           /\ attempts \in [Order -> Nat]
           /\ turbo \in [Order -> 0 .. 5]
           /\ DOMAIN paiement = Paiement /\ \A i \in Paiement : paiement[i].order \in Order \cup {NONE}
ProgOK  == req \in [Req -> Program(Allowed)]

(* The course of Turbo: nothing is claimed of an internal one.             *)
TurboInv == WorldOK /\ ProgOK /\ (statut = "COMPLETED" => AllOver)
IInv == fleet \in Fleets /\ (fleet = "TURBO" => TurboInv)

-----------------------------------------------------------------------------
(* Programs *)

LEMMA SeqGrows == ASSUME NEW S, NEW T, S \subseteq T PROVE Seq(S) \subseteq Seq(T)
  BY SeqDef

(* What a handler may hold only grows while deliveries stay over.          *)
LEMMA AllowedGrows == ASSUME AllOver => AllOver' PROVE Allowed \subseteq Allowed'
  <1>1. CASE AllOver
    BY <1>1 DEF Allowed
  <1>2. CASE ~AllOver
    BY <1>2 DEF Allowed
  <1> QED BY <1>1, <1>2

LEMMA HeadTailAllowed ==
  ASSUME ProgOK, NEW p \in Req, ~Free(p)
  PROVE  /\ Head(req[p].prog) \in Allowed
         /\ Tail(req[p].prog) \in Seq(Allowed)
         /\ req[p] \in Program(Allowed)
  <1>1. req[p] \in Program(Allowed)
    BY DEF ProgOK
  <1>2. req[p].prog \in Seq(Allowed) /\ req[p].prog # <<>>
    BY <1>1 DEF Program, Free
  <1> QED BY <1>1, <1>2, HeadTailProperties

(* A handler takes another program.                                        *)
LEMMA GotoAllowed ==
  ASSUME ProgOK, NEW p \in Req, AllOver => AllOver', NEW r \in Program(Allowed'), Goto(p, r)
  PROVE  ProgOK'
  <1>1. Allowed \subseteq Allowed'
    BY AllowedGrows
  <1>2. Seq(Allowed) \subseteq Seq(Allowed')
    BY <1>1, SeqGrows
  <1>3. Program(Allowed) \subseteq Program(Allowed')
    BY <1>2 DEF Program
  <1>4. Idle \in Program(Allowed')
    BY EmptySeq DEF Idle, Program
  <1>5. req \in [Req -> Program(Allowed')]
    BY <1>3 DEF ProgOK
  <1>6. req' \in [Req -> Program(Allowed')]
    BY <1>4, <1>5 DEF Goto
  <1> QED BY <1>6 DEF ProgOK, Program

LEMMA StopAllowed == ASSUME ProgOK, NEW p \in Req, AllOver => AllOver', Stop(p) PROVE ProgOK'
  <1>1. Idle \in Program(Allowed')
    BY EmptySeq DEF Idle, Program
  <1> QED BY <1>1, GotoAllowed DEF Stop

(* A statement is replaced by what the handler does next.                  *)
LEMMA BecomeAllowed ==
  ASSUME ProgOK, NEW p \in Req, ~Free(p), AllOver => AllOver', NEW s \in Seq(Allowed'), Become(p, s)
  PROVE  ProgOK'
  <1> DEFINE r == [req[p] EXCEPT !.prog = s \o Tail(@)]
  <1>1. Seq(Allowed) \subseteq Seq(Allowed')
    BY AllowedGrows, SeqGrows
  <1>2. Tail(req[p].prog) \in Seq(Allowed') /\ req[p] \in Program(Allowed)
    BY <1>1, HeadTailAllowed
  <1>3. s \o Tail(req[p].prog) \in Seq(Allowed')
    BY <1>2, ConcatProperties
  <1>4. r \in Program(Allowed')
    BY <1>2, <1>3 DEF Program
  <1>5. Goto(p, r)
    BY DEF Become
  <1> HIDE DEF r
  <1> QED BY <1>4, <1>5, GotoAllowed

LEMMA DoneAllowed == ASSUME ProgOK, NEW p \in Req, ~Free(p), AllOver => AllOver', Done(p) PROVE ProgOK'
  BY EmptySeq, BecomeAllowed DEF Done

(* A handler begins.                                                       *)
LEMMA BeginOK ==
  ASSUME ProgOK, NEW p \in Req, NEW o \in Order \cup {NONE}, NEW s \in Seq(Allowed), Begin(p, o, s),
         UNCHANGED livraison
  PROVE  ProgOK'
  <1>1. (AllOver <=> AllOver') /\ Allowed' = Allowed
    BY DEF AllOver, Allowed, TurboOps, Closing, Harmless
  <1> DEFINE r == [Idle EXCEPT !.order = o, !.prog = s]
  <1>2. r \in Program(Allowed')
    BY <1>1 DEF Idle, Program
  <1>3. Goto(p, r)
    BY DEF Begin
  <1> HIDE DEF r
  <1> QED BY <1>1, <1>2, <1>3, GotoAllowed

-----------------------------------------------------------------------------
(* Statements *)

Words == {"", "PICKED_UP", "COLLECTED", "COMPLETED", "CANCELLED"}

LEMMA MayHold ==
  /\ \A n \in Harmless, a \in Words : <<n, a>> \in Allowed
  /\ \A n \in Harmless : Op(n) \in Allowed
  /\ \A n \in {"course", "courseW"}, a \in {"ACCEPTED", "AT_RESTAURANT", "IN_DELIVERY"} : <<n, a>> \in Allowed
  /\ AllOver => \A n \in {"course", "courseW"} : <<n, "COMPLETED">> \in Allowed
  /\ <<"close", "course">> \in Allowed
  /\ <<"delivery", "IN_ROUTE">> \in Allowed /\ <<"delivery", "DELIVERED">> \in Allowed
  /\ <<"deliveryW", "DELIVERED">> \in Allowed
  /\ \A n \in {"add", "attemptW"}, k \in Nat : <<n, k>> \in Allowed
  BY DEF Allowed, TurboOps, Closing, Op, Words

(* What the statement at the head of a program may be.                     *)
LEMMA HeldAllowed ==
  ASSUME ProgOK, NEW p \in Req, ~Free(p)
  PROVE  /\ \A n \in Harmless : At(p, n) => Arg(p) \in Words
         /\ \A n \in {"course", "courseW"} : At(p, n) =>
               Arg(p) \in {"ACCEPTED", "AT_RESTAURANT", "IN_DELIVERY"} \/ (Arg(p) = "COMPLETED" /\ AllOver)
         /\ At(p, "close") => Arg(p) = "course"
         /\ At(p, "delivery") => Arg(p) \in {"IN_ROUTE", "DELIVERED"}
         /\ At(p, "deliveryW") => Arg(p) = "DELIVERED"
         /\ At(p, "attemptW") => Arg(p) \in Nat
         /\ ~At(p, "confirmW") /\ ~At(p, "failW")
         /\ Mine(p) \in Order \cup {NONE}
  <1>1. Head(req[p].prog) \in Allowed /\ req[p] \in Program(Allowed)
    BY HeadTailAllowed
  <1> DEFINE h == Head(req[p].prog)
  <1> HIDE DEF h
  <1>2. h \in Allowed
    BY <1>1 DEF h
  <1>3. /\ \A n \in Harmless : h[1] = n => h[2] \in Words
        /\ \A n \in {"course", "courseW"} : h[1] = n =>
               h[2] \in {"ACCEPTED", "AT_RESTAURANT", "IN_DELIVERY"} \/ (h[2] = "COMPLETED" /\ AllOver)
        /\ h[1] = "close" => h[2] = "course"
        /\ h[1] = "delivery" => h[2] \in {"IN_ROUTE", "DELIVERED"}
        /\ h[1] = "deliveryW" => h[2] = "DELIVERED"
        /\ h[1] = "attemptW" => h[2] \in Nat
        /\ h[1] # "confirmW" /\ h[1] # "failW"
    BY <1>2 DEF Allowed, TurboOps, Closing, Harmless, Words
  <1>4. Mine(p) \in Order \cup {NONE}
    BY <1>1 DEF Mine, Program
  <1> QED BY <1>3, <1>4 DEF At, Arg, h

LEMMA OneIn == ASSUME NEW S, NEW x \in S PROVE <<x>> \in Seq(S)
  OBVIOUS
LEMMA TwoIn == ASSUME NEW S, NEW x \in S, NEW y \in S PROVE <<x, y>> \in Seq(S)
  OBVIOUS
LEMMA ThreeIn == ASSUME NEW S, NEW x \in S, NEW y \in S, NEW z \in S PROVE <<x, y, z>> \in Seq(S)
  OBVIOUS

(* A step that changes neither the course nor a delivery.                  *)
LEMMA Quiet ==
  ASSUME TurboInv, ProgOK', UNCHANGED <<courseVars, livraison, attempts, turbo, paiement>>
  PROVE  TurboInv'
  BY DEF TurboInv, WorldOK, courseVars, AllOver

(* A handler of Turbo's course begins, and only reads.                     *)
LEMMA BeginQuiet ==
  ASSUME TurboInv, NEW p \in Req, NEW o \in Order \cup {NONE}, NEW s \in Seq(Allowed), Begin(p, o, s),
         UNCHANGED <<courseVars, orderVars, moneyVars, worldVars>>
  PROVE  TurboInv'
  BY BeginOK, Quiet DEF TurboInv, courseVars, orderVars, moneyVars, worldVars

-----------------------------------------------------------------------------
(* Initially *)

LEMMA InitIInv == ASSUME Init PROVE IInv
  <1>1. fleet \in Fleets
    BY DEF Init
  <1> SUFFICES ASSUME fleet = "TURBO" PROVE TurboInv
    BY <1>1 DEF IInv
  <1>2. WorldOK
    BY DEF Init, WorldOK, FreeRow, DeliveryRank
  <1>3. Idle \in Program(Allowed)
    BY EmptySeq DEF Idle, Program
  <1>4. ProgOK
    BY <1>3 DEF Init, ProgOK
  <1>5. statut # "COMPLETED"
    BY DEF Init
  <1> QED BY <1>2, <1>4, <1>5 DEF TurboInv

-----------------------------------------------------------------------------
(* Handlers that begin *)

LEMMA CarriedIn == Carried \in Seq(Allowed)
  BY MayHold, ThreeIn DEF Carried, Harmless, Words

LEMMA ProgramIn == ASSUME NEW e \in 1 .. 5 PROVE Handler[e] \in Seq(Allowed)
  <1>1. <<<<"course", "ACCEPTED">>>> \in Seq(Allowed)
    BY MayHold, OneIn
  <1>2. <<<<"course", "AT_RESTAURANT">>>> \in Seq(Allowed)
    BY MayHold, OneIn
  <1>3. <<<<"delivery", "DELIVERED">>, <<"close", "course">>, Op("settle")>> \in Seq(Allowed)
    BY MayHold, ThreeIn DEF Harmless
  <1>4. /\ Handler[1] = <<<<"course", "ACCEPTED">>>>
        /\ Handler[2] = <<<<"course", "AT_RESTAURANT">>>>
        /\ Handler[3] = Carried /\ Handler[4] = Carried
        /\ Handler[5] = <<<<"delivery", "DELIVERED">>, <<"close", "course">>, Op("settle")>>
    BY DEF Handler
  <1>5. e = 1 \/ e = 2 \/ e = 3 \/ e = 4 \/ e = 5
    OBVIOUS
  <1> DEFINE S == Seq(Allowed)
  <1> HIDE DEF S
  <1>6. /\ Handler[1] \in S /\ Handler[2] \in S /\ Handler[3] \in S /\ Handler[4] \in S /\ Handler[5] \in S
    BY <1>1, <1>2, <1>3, <1>4, CarriedIn, Zenon DEF S
  <1>7. Handler[e] \in S
    BY <1>5, <1>6
  <1> QED BY <1>7 DEF S

LEMMA WebhookOK == ASSUME TurboInv, NEW p \in Req, NEW o \in Order, Webhook(p, o) PROVE TurboInv'
  <1>1. PICK e \in 1 .. turbo[o] : Begin(p, o, Handler[e])
    BY DEF Webhook
  <1>2. e \in 1 .. 5
    BY DEF TurboInv, WorldOK
  <1>3. Handler[e] \in Seq(Allowed)
    BY <1>2, ProgramIn
  <1> QED BY <1>1, <1>3, BeginQuiet DEF Webhook

LEMMA ValiderCodeOK == ASSUME TurboInv, NEW p \in Req, NEW o \in Order, ValiderCode(p, o) PROVE TurboInv'
  <1>1. CASE CodeOk(p, o)
    <2>1. PICK info \in BOOLEAN : Begin(p, o,
             <<<<"deliveryW", "DELIVERED">>>>
             \o (IF payee[o] THEN <<<<"sync", "COMPLETED">>>>
                 ELSE (IF info THEN <<Op("declare")>> ELSE <<>>) \o <<<<"sync", "COLLECTED">>>>)
             \o <<<<"close", "course">>>>)
      BY <1>1 DEF CodeOk
    <2> DEFINE given == IF info THEN <<Op("declare")>> ELSE <<>>
               end == IF payee[o] THEN <<<<"sync", "COMPLETED">>>> ELSE given \o <<<<"sync", "COLLECTED">>>>
    <2>2. given \in Seq(Allowed)
      BY MayHold, OneIn, EmptySeq DEF Harmless
    <2>3. <<<<"sync", "COMPLETED">>>> \in Seq(Allowed) /\ <<<<"sync", "COLLECTED">>>> \in Seq(Allowed)
      BY MayHold, OneIn DEF Harmless, Words
    <2> HIDE DEF given
    <2>4. end \in Seq(Allowed)
      BY <2>2, <2>3, ConcatProperties
    <2>5. <<<<"deliveryW", "DELIVERED">>>> \in Seq(Allowed) /\ <<<<"close", "course">>>> \in Seq(Allowed)
      BY MayHold, OneIn
    <2> HIDE DEF end
    <2> DEFINE whole == <<<<"deliveryW", "DELIVERED">>>> \o end \o <<<<"close", "course">>>>
    <2>6. whole \in Seq(Allowed)
      BY <2>4, <2>5, ConcatProperties
    <2>7. Begin(p, o, whole)
      BY <2>1 DEF end, given
    <2> HIDE DEF whole
    <2> QED BY <2>6, <2>7, BeginQuiet DEF ValiderCode
  <1>2. CASE CodeWrong(p, o)
    <2>1. attempts[o] + 1 \in Nat
      BY DEF TurboInv, WorldOK
    <2>2. <<<<"attemptW", attempts[o] + 1>>>> \in Seq(Allowed)
      BY <2>1, MayHold, OneIn
    <2> QED BY <1>2, <2>2, BeginQuiet DEF ValiderCode, CodeWrong
  <1> QED BY <1>1, <1>2 DEF ValiderCode

LEMMA ConfirmerEncaissementOK ==
  ASSUME TurboInv, NEW p \in Req, ConfirmerEncaissement(p) PROVE TurboInv'
  <1>1. PICK i \in Paiement :
          Goto(p, [prog |-> <<Op("claim"), Op("cascade")>>, order |-> paiement[i].order, row |-> i])
    BY DEF ConfirmerEncaissement
  <1>2. Allowed' = Allowed
    BY DEF Allowed, TurboOps, Closing, Harmless, AllOver, ConfirmerEncaissement, orderVars
  <1>3. <<Op("claim"), Op("cascade")>> \in Seq(Allowed')
    BY <1>2, MayHold, TwoIn DEF Harmless
  <1>4. paiement[i].order \in Order \cup {NONE}
    BY DEF TurboInv, WorldOK
  <1> DEFINE r == [prog |-> <<Op("claim"), Op("cascade")>>, order |-> paiement[i].order, row |-> i]
  <1>5. r \in Program(Allowed')
    BY <1>3, <1>4 DEF Program
  <1>6. AllOver => AllOver'
    BY DEF AllOver, ConfirmerEncaissement, orderVars
  <1> HIDE DEF r
  <1>7. ProgOK'
    BY <1>1, <1>5, <1>6, GotoAllowed DEF r, TurboInv
  <1> QED BY <1>7, Quiet DEF ConfirmerEncaissement, courseVars, orderVars, moneyVars, worldVars

LEMMA StartsOK == ASSUME TurboInv, NEW p \in Req, Starts(p) PROVE TurboInv'
  <1>0. fleet = "TURBO"
    BY DEF TurboInv, WorldOK
  <1>1. \A n \in Harmless : <<Op(n)>> \in Seq(Allowed)
    BY MayHold, OneIn
  <1>2. ~MarkAtRestaurant(p) /\ ~MarkPickedUp(p) /\ ~AutoCancel(p)
    BY <1>0 DEF MarkAtRestaurant, MarkPickedUp, AutoCancel, On
  <1>3. CASE ValidatePickup(p)
    BY <1>1, <1>3, BeginQuiet DEF ValidatePickup, Harmless
  <1>4. CASE CancelCourse(p)
    BY <1>1, <1>4, BeginQuiet DEF CancelCourse, Harmless
  <1>5. CASE DetecterRetards(p)
    BY <1>1, <1>5, BeginQuiet DEF DetecterRetards, Harmless
  <1>6. CASE ConfirmerEncaissement(p)
    BY <1>6, ConfirmerEncaissementOK
  <1>7. ASSUME NEW o \in Order, Webhook(p, o) \/ WebhookCancelled(p, o) \/ ValiderCode(p, o)
        PROVE  TurboInv'
    <2>1. CASE WebhookCancelled(p, o)
      BY <1>1, <2>1, BeginQuiet DEF WebhookCancelled, Harmless
    <2> QED BY <1>7, <2>1, WebhookOK, ValiderCodeOK
  <1>8. ASSUME NEW o \in Order PROVE ~(StartDelivery(p, o) \/ MarkArrived(p, o) \/ ConfirmDelivery(p, o) \/ FailDelivery(p, o))
    BY <1>0 DEF StartDelivery, MarkArrived, ConfirmDelivery, FailDelivery, Owned, On
  <1>9. ASSUME NEW o \in Order, AddPaiement(p, o) PROVE TurboInv'
    <2>1. PICK m \in 1 .. TOTAL : Begin(p, o, <<<<"add", m>>, Op("addCascade")>>)
      BY <1>9 DEF AddPaiement
    <2>2. m \in Nat
      BY DEF TOTAL
    <2>3. <<<<"add", m>>, Op("addCascade")>> \in Seq(Allowed)
      BY <2>2, MayHold, TwoIn DEF Harmless
    <2> QED BY <1>9, <2>1, <2>3, BeginQuiet DEF AddPaiement
  <1>10. ASSUME NEW o \in Order, MarkPaidCash(p, o) PROVE TurboInv'
    <2>1. <<<<"paidW", "COMPLETED">>>> \in Seq(Allowed)
      BY MayHold, OneIn DEF Harmless, Words
    <2> QED BY <1>10, <2>1, BeginQuiet DEF MarkPaidCash
  <1>11. ASSUME NEW o \in Order, AdminCancel(p, o) PROVE TurboInv'
    <2>1. <<Op("refund"), <<"syncW", "CANCELLED">>>> \in Seq(Allowed)
      BY MayHold, TwoIn DEF Harmless, Words
    <2> QED BY <1>11, <2>1, BeginQuiet DEF AdminCancel
  <1> QED BY <1>2, <1>3, <1>4, <1>5, <1>6, <1>7, <1>8, <1>9, <1>10, <1>11 DEF Starts

-----------------------------------------------------------------------------
(* Statements that write neither a delivery nor the course                 *)

(* A statement that is done, or that goes on to one it may hold.           *)
LEMMA GoesOn ==
  ASSUME TurboInv, NEW p \in Req, ~Free(p), UNCHANGED <<courseVars, livraison, attempts, turbo, paiement>>,
         \/ Done(p)
         \/ Stop(p)
         \/ \E s \in Seq(Allowed) : Become(p, s)
  PROVE  TurboInv'
  <1>1. Allowed' = Allowed /\ (AllOver => AllOver') /\ ProgOK
    BY DEF Allowed, TurboOps, Closing, Harmless, AllOver, TurboInv
  <1>2. ProgOK'
    BY <1>1, DoneAllowed, StopAllowed, BecomeAllowed
  <1> QED BY <1>2, Quiet

LEMMA ReadsOK ==
  ASSUME TurboInv, NEW p \in Req,
         \/ AdvanceCourse(p) \/ Close(p) \/ CancelRead(p) \/ Left(p) \/ Sync(p)
         \/ Settle(p) \/ Declare(p) \/ Cascade(p) \/ AddCascade(p)
  PROVE  TurboInv'
  <1> USE DEF courseVars, orderVars, moneyVars, worldVars
  <1>1. ProgOK
    BY DEF TurboInv
  <1>2. \A n \in Harmless : \A a \in Words : <<<<n, a>>>> \in Seq(Allowed) /\ <<Op(n)>> \in Seq(Allowed)
    BY MayHold, OneIn
  <1>3. CASE AdvanceCourse(p)
    <2>1. ~Free(p) /\ At(p, "course")
      BY <1>3 DEF AdvanceCourse, At
    <2>2. <<"courseW", Arg(p)>> \in Allowed
      BY <1>1, <2>1, HeldAllowed, MayHold
    <2>3. <<<<"courseW", Arg(p)>>>> \in Seq(Allowed)
      BY <2>2, OneIn
    <2> QED BY <1>3, <2>1, <2>3, GoesOn DEF AdvanceCourse
  <1>4. CASE Close(p)
    <2>1. ~Free(p) /\ At(p, "close")
      BY <1>4 DEF Close, At
    <2>2. AllOver => <<Arg(p), "COMPLETED">> \in Allowed
      BY <1>1, <2>1, HeldAllowed, MayHold
    <2>3. AllOver => <<<<Arg(p), "COMPLETED">>>> \in Seq(Allowed)
      BY <2>2, OneIn
    <2> QED BY <1>4, <2>1, <2>3, GoesOn DEF Close
  <1>5. CASE CancelRead(p)
    <2>1. <<Op("cancelW")>> \in Seq(Allowed)
      BY <1>2 DEF Harmless, Words
    <2> QED BY <1>5, <2>1, GoesOn DEF CancelRead, At
  <1>6. CASE Left(p)
    <2>1. <<Op("leftW")>> \in Seq(Allowed)
      BY <1>2 DEF Harmless, Words
    <2> QED BY <1>6, <2>1, GoesOn DEF Left, At
  <1>7. CASE Sync(p)
    <2>1. ~Free(p) /\ At(p, "sync")
      BY <1>7 DEF Sync, At
    <2>2. Arg(p) \in Words
      BY <1>1, <2>1, HeldAllowed DEF Harmless
    <2>3. <<<<"syncW", Arg(p)>>>> \in Seq(Allowed)
      BY <1>2, <2>2 DEF Harmless
    <2> QED BY <1>7, <2>1, <2>3, GoesOn DEF Sync
  <1>8. CASE Settle(p)
    <2>1. <<<<"sync", "COMPLETED">>>> \in Seq(Allowed)
      BY <1>2 DEF Harmless, Words
    <2>2. <<Op("declare"), <<"sync", "COLLECTED">>>> \in Seq(Allowed)
      BY MayHold, TwoIn DEF Harmless, Words
    <2> QED BY <1>8, <2>1, <2>2, GoesOn DEF Settle, At
  <1>9. CASE Declare(p)
    <2>1. <<Op("declareW")>> \in Seq(Allowed)
      BY <1>2 DEF Harmless, Words
    <2> QED BY <1>9, <2>1, GoesOn DEF Declare, At
  <1>10. CASE Cascade(p)
    <2> DEFINE a == IF commande[Mine(p)] = "COLLECTED" THEN "COMPLETED" ELSE ""
    <2>1. a \in Words
      BY DEF Words
    <2> HIDE DEF a
    <2>2. <<<<"paidW", a>>>> \in Seq(Allowed)
      BY <1>2, <2>1 DEF Harmless
    <2>3. Done(p) \/ Become(p, <<<<"paidW", a>>>>)
      BY <1>10 DEF Cascade, a
    <2> QED BY <1>10, <2>2, <2>3, GoesOn DEF Cascade, At
  <1>11. CASE AddCascade(p)
    <2> DEFINE a == IF Covered(Mine(p)) /\ commande[Mine(p)] = "COLLECTED" THEN "COMPLETED" ELSE ""
    <2>1. a \in Words
      BY DEF Words
    <2> HIDE DEF a
    <2>2. <<<<"paidW", a>>>> \in Seq(Allowed)
      BY <1>2, <2>1 DEF Harmless
    <2>3. Become(p, <<<<"paidW", a>>>>)
      BY <1>11 DEF AddCascade, a
    <2> QED BY <1>11, <2>2, <2>3, GoesOn DEF AddCascade, At
  <1> QED BY <1>3, <1>4, <1>5, <1>6, <1>7, <1>8, <1>9, <1>10, <1>11

LEMMA OrderWritesOK ==
  ASSUME TurboInv, NEW p \in Req, SyncWrite(p) \/ AddRow(p) \/ PaidWrite(p) \/ Refund(p)
  PROVE  TurboInv'
  <1>1. ~Free(p) /\ Done(p) /\ UNCHANGED <<courseVars, livraison, attempts, turbo, paiement>>
    BY DEF SyncWrite, AddRow, PaidWrite, Refund, At, courseVars, orderVars, moneyVars, worldVars
  <1> QED BY <1>1, GoesOn

(* The PENDING rows keep an order of the course.                           *)
LEMMA RowsOK ==
  ASSUME TurboInv, NEW p \in Req, DeclareWrite(p) \/ ClaimPaiement(p) PROVE TurboInv'
  <1> USE DEF courseVars, orderVars, moneyVars, worldVars
  <1>1. /\ ~Free(p) /\ (Done(p) \/ Stop(p)) /\ UNCHANGED <<courseVars, orderVars, worldVars>>
    BY DEF DeclareWrite, ClaimPaiement, At
  <1>2. ProgOK /\ Mine(p) \in Order \cup {NONE}
    BY <1>1, HeldAllowed DEF TurboInv
  <1>3. AllOver => AllOver'
    BY <1>1 DEF AllOver
  <1>4. ProgOK'
    BY <1>1, <1>2, <1>3, DoneAllowed, StopAllowed
  <1>5. DOMAIN paiement' = Paiement /\ \A i \in Paiement : paiement'[i].order \in Order \cup {NONE}
    <2>1. DOMAIN paiement = Paiement /\ \A i \in Paiement : paiement[i].order \in Order \cup {NONE}
      BY DEF TurboInv, WorldOK
    <2>2. CASE ClaimPaiement(p)
      BY <2>1, <2>2 DEF ClaimPaiement, FreeRow
    <2>3. CASE DeclareWrite(p) /\ ~UNCHANGED paiement
      <3>1. PICK b \in Batches :
              LET key == CHOOSE f \in [DOMAIN b -> Fresh] : \A m, n \in DOMAIN b : f[m] = f[n] => m = n
              IN  paiement' = [i \in Paiement |->
                    IF \E m \in DOMAIN b : key[m] = i
                    THEN LET m == CHOOSE m \in DOMAIN b : key[m] = i
                         IN  [order |-> Mine(p), mode |-> m, montant |-> b[m]]
                    ELSE paiement[i]]
        BY <2>3 DEF DeclareWrite
      <3> DEFINE key == CHOOSE f \in [DOMAIN b -> Fresh] : \A m, n \in DOMAIN b : f[m] = f[n] => m = n
      <3>2. PICK k : k = key
        OBVIOUS
      <3>3. paiement' = [i \in Paiement |->
                    IF \E m \in DOMAIN b : k[m] = i
                    THEN LET m == CHOOSE m \in DOMAIN b : k[m] = i
                         IN  [order |-> Mine(p), mode |-> m, montant |-> b[m]]
                    ELSE paiement[i]]
        BY <3>1, <3>2
      <3> HIDE DEF key
      <3>4. ASSUME NEW i \in Paiement PROVE paiement'[i].order \in Order \cup {NONE}
        BY <1>2, <2>1, <3>3
      <3> QED BY <3>3, <3>4
    <2> QED BY <2>1, <2>2, <2>3
  <1> QED BY <1>1, <1>4, <1>5 DEF TurboInv, WorldOK, AllOver

-----------------------------------------------------------------------------
(* Statements that write the course                                        *)

LEMMA CourseWritesOK ==
  ASSUME TurboInv, NEW p \in Req, CourseWrite(p) \/ PickUpWrite(p) \/ LeftWrite(p) \/ AlertWrite(p)
  PROVE  TurboInv'
  <1> USE DEF courseVars, orderVars, moneyVars, worldVars
  <1>1. ~Free(p) /\ Done(p) /\ UNCHANGED <<fleet, livraison, attempts, turbo, paiement>> /\ ProgOK
    BY DEF CourseWrite, PickUpWrite, LeftWrite, AlertWrite, At, TurboInv
  <1>2. AllOver' = AllOver
    BY <1>1 DEF AllOver
  <1>3. ProgOK'
    BY <1>1, <1>2, DoneAllowed
  <1>4. statut' = "COMPLETED" => AllOver
    <2>1. CASE CourseWrite(p)
      BY <1>1, <2>1, HeldAllowed DEF CourseWrite
    <2>2. CASE PickUpWrite(p) \/ AlertWrite(p) \/ LeftWrite(p)
      BY <2>2 DEF PickUpWrite, AlertWrite, LeftWrite, CourseOver, TurboInv
    <2> QED BY <2>1, <2>2
  <1> QED BY <1>1, <1>2, <1>3, <1>4 DEF TurboInv, WorldOK

-----------------------------------------------------------------------------
(* Statements that write a delivery                                        *)

(* None undoes a delivery that is over, nor what was delivered.            *)
Keeps == /\ livraison' \in [Order -> DOMAIN DeliveryRank \cup {"FAILED", "CANCELLED"}]
         /\ \A o \in Order : livraison[o] \in DeliveryOver => livraison'[o] \in DeliveryOver
         /\ \A o \in Order : livraison[o] = "DELIVERED" => livraison'[o] = "DELIVERED"

LEMMA DeliveryWritesKeep ==
  ASSUME TurboInv, NEW p \in Req, AdvanceDelivery(p) \/ DeliveryWrite(p) \/ DropWrite(p) \/ CancelWrite(p)
  PROVE  Keeps
  <1>1. ~Free(p) /\ ProgOK
    BY DEF AdvanceDelivery, DeliveryWrite, DropWrite, CancelWrite, At, TurboInv
  <1>2. livraison \in [Order -> DOMAIN DeliveryRank \cup {"FAILED", "CANCELLED"}]
    BY DEF TurboInv, WorldOK
  <1>3. DOMAIN DeliveryRank = {"PENDING", "IN_ROUTE", "ARRIVED", "DELIVERED"}
    BY DEF DeliveryRank
  <1>4. CASE AdvanceDelivery(p)
    <2>1. Arg(p) \in {"IN_ROUTE", "DELIVERED"}
      BY <1>1, <1>4, HeldAllowed DEF AdvanceDelivery
    <2>2. ~(DeliveryRank["DELIVERED"] < DeliveryRank[Arg(p)])
      BY <2>1 DEF DeliveryRank
    <2>3. CASE livraison' = livraison
      BY <1>2, <2>3 DEF Keeps
    <2>4. CASE /\ livraison' = [livraison EXCEPT ![Mine(p)] = Arg(p)]
               /\ livraison[Mine(p)] \in DOMAIN DeliveryRank
               /\ DeliveryRank[livraison[Mine(p)]] < DeliveryRank[Arg(p)]
      <3>1. livraison[Mine(p)] \notin DeliveryOver
        BY <1>3, <2>2, <2>4 DEF DeliveryOver
      <3>2. livraison' \in [Order -> DOMAIN DeliveryRank \cup {"FAILED", "CANCELLED"}]
        BY <1>2, <1>3, <2>1, <2>4
      <3>3. \A o \in Order : livraison[o] \in DeliveryOver => livraison'[o] = livraison[o]
        BY <1>2, <2>4, <3>1
      <3> QED BY <3>2, <3>3 DEF Keeps, DeliveryOver
    <2> QED BY <1>4, <2>3, <2>4 DEF AdvanceDelivery
  <1>5. CASE DeliveryWrite(p)
    <2>1. livraison' = [livraison EXCEPT ![Mine(p)] = "DELIVERED"]
      BY <1>1, <1>5, HeldAllowed DEF DeliveryWrite
    <2> QED BY <1>2, <1>3, <2>1 DEF Keeps, DeliveryOver
  <1>6. CASE DropWrite(p)
    <2>1. CASE UNCHANGED livraison
      BY <1>2, <2>1 DEF Keeps
    <2>2. CASE /\ livraison[Mine(p)] \notin DeliveryOver
               /\ livraison' = [livraison EXCEPT ![Mine(p)] = "CANCELLED"]
      <3>1. \A o \in Order : livraison[o] \in DeliveryOver => livraison'[o] = livraison[o]
        BY <1>2, <2>2
      <3> QED BY <1>2, <2>2, <3>1 DEF Keeps, DeliveryOver
    <2> QED BY <1>6, <2>1, <2>2 DEF DropWrite
  <1>7. CASE CancelWrite(p)
    <2>1. livraison' = [o \in Order |-> IF livraison[o] \in DeliveryOver THEN livraison[o] ELSE "CANCELLED"]
      BY <1>7 DEF CancelWrite
    <2> QED BY <1>2, <2>1 DEF Keeps, DeliveryOver
  <1> QED BY <1>4, <1>5, <1>6, <1>7

LEMMA DeliveryWritesOK ==
  ASSUME TurboInv, NEW p \in Req,
         AdvanceDelivery(p) \/ DeliveryWrite(p) \/ DropWrite(p) \/ CancelWrite(p) \/ AttemptWrite(p)
  PROVE  TurboInv'
  <1> USE DEF courseVars, orderVars, moneyVars, worldVars
  <1>1. ~Free(p) /\ UNCHANGED <<fleet, turbo, paiement>> /\ ProgOK
    BY DEF AdvanceDelivery, DeliveryWrite, DropWrite, CancelWrite, AttemptWrite, At, TurboInv
  <1>2. Keeps
    <2>1. CASE AttemptWrite(p)
      BY <2>1 DEF AttemptWrite, Keeps, TurboInv, WorldOK
    <2> QED BY <2>1, DeliveryWritesKeep
  <1>3. AllOver => AllOver'
    BY <1>2 DEF AllOver, Keeps
  <1>4. Done(p) \/ Become(p, <<Op("left")>>)
    BY DEF AdvanceDelivery, DeliveryWrite, DropWrite, CancelWrite, AttemptWrite
  <1>5. ProgOK'
    <2>1. Op("left") \in Allowed
      BY MayHold DEF Harmless
    <2>2. Allowed \subseteq Allowed'
      BY <1>3, AllowedGrows
    <2>3. <<Op("left")>> \in Seq(Allowed')
      BY <2>1, <2>2, OneIn
    <2> QED BY <1>1, <1>3, <1>4, <2>3, DoneAllowed, BecomeAllowed
  <1>6. attempts' \in [Order -> Nat]
    <2>1. CASE AttemptWrite(p)
      BY <1>1, <2>1, HeldAllowed DEF AttemptWrite, TurboInv, WorldOK
    <2>2. CASE UNCHANGED attempts
      BY <2>2 DEF TurboInv, WorldOK
    <2> QED BY <2>1, <2>2 DEF AdvanceDelivery, DeliveryWrite, DropWrite, CancelWrite
  <1>7. statut' = "COMPLETED" => statut = "COMPLETED"
    BY DEF AdvanceDelivery, DeliveryWrite, DropWrite, CancelWrite, AttemptWrite
  <1>8. statut' = "COMPLETED" => AllOver'
    BY <1>3, <1>7 DEF TurboInv
  <1> QED BY <1>1, <1>2, <1>5, <1>6, <1>8 DEF TurboInv, WorldOK, Keeps

-----------------------------------------------------------------------------
(* Every step                                                              *)

LEMMA StepsOK == ASSUME TurboInv, NEW p \in Req, Steps(p) PROVE TurboInv'
  <1>1. ~ConfirmWrite(p) /\ ~FailWrite(p)
    <2>1. CASE Free(p)
      BY <2>1 DEF ConfirmWrite, FailWrite, At
    <2>2. CASE ~Free(p)
      BY <2>2, HeldAllowed DEF ConfirmWrite, FailWrite, TurboInv
    <2> QED BY <2>1, <2>2
  <1> QED BY <1>1, ReadsOK, OrderWritesOK, RowsOK, CourseWritesOK, DeliveryWritesOK DEF Steps

LEMMA StepTurboInv == ASSUME TurboInv, [Next]_vars PROVE TurboInv'
  <1> USE DEF courseVars, orderVars, moneyVars, worldVars
  <1>1. CASE UNCHANGED vars
    <2>1. UNCHANGED <<fleet, statut, livraison, attempts, turbo, paiement, req>>
      BY <1>1 DEF vars
    <2>2. AllOver' <=> AllOver
      BY <2>1 DEF AllOver
    <2>3. WorldOK'
      BY <2>1 DEF TurboInv, WorldOK
    <2>4. Allowed' = Allowed
      BY <2>2 DEF Allowed
    <2>5. ProgOK'
      BY <2>1, <2>4 DEF TurboInv, ProgOK, Program
    <2> QED BY <2>1, <2>2, <2>3, <2>5 DEF TurboInv
  <1>2. ASSUME NEW p \in Req, Starts(p) PROVE TurboInv'
    BY <1>2, StartsOK
  <1>3. ASSUME NEW p \in Req, Steps(p) PROVE TurboInv'
    BY <1>3, StepsOK
  <1>4. ASSUME NEW p \in Req, Crash(p) PROVE TurboInv'
    BY <1>4, GoesOn DEF Crash
  <1>5. ASSUME NEW o \in Order, TurboMoves(o) \/ TurboDrops(o) PROVE TurboInv'
    <2>1. UNCHANGED <<courseVars, livraison, attempts, paiement, req>>
      BY <1>5 DEF TurboMoves, TurboDrops
    <2>2. turbo' \in [Order -> 0 .. 5]
      <3>1. CASE TurboMoves(o)
        BY <3>1 DEF TurboMoves, TurboInv, WorldOK
      <3>2. CASE TurboDrops(o)
        BY <3>2 DEF TurboDrops, TurboInv, WorldOK
      <3> QED BY <1>5, <3>1, <3>2
    <2>3. ProgOK'
      <3>1. AllOver' <=> AllOver
        BY <2>1 DEF AllOver
      <3>2. Allowed' = Allowed
        BY <3>1 DEF Allowed
      <3> QED BY <2>1, <3>2 DEF TurboInv, ProgOK, Program
    <2> QED BY <2>1, <2>2, <2>3 DEF TurboInv, WorldOK, AllOver
  <1> QED BY <1>1, <1>2, <1>3, <1>4, <1>5 DEF Next

(* The fleet of the course does not change in this model.                  *)
LEMMA FleetStays == ASSUME [Next]_vars PROVE fleet' = fleet
  <1> USE DEF courseVars, orderVars, moneyVars, worldVars
  <1>1. ASSUME NEW p \in Req, Starts(p) PROVE fleet' = fleet
    BY <1>1 DEF Starts, MarkAtRestaurant, MarkPickedUp, ValidatePickup, CancelCourse, AutoCancel, DetecterRetards,
       ConfirmerEncaissement, Webhook, WebhookCancelled, ValiderCode, StartDelivery, MarkArrived,
       ConfirmDelivery, FailDelivery, AddPaiement, MarkPaidCash, AdminCancel
  <1>2. ASSUME NEW p \in Req, Steps(p) PROVE fleet' = fleet
    BY <1>2 DEF Steps, AdvanceCourse, CourseWrite, Close, PickUpWrite, CancelRead, CancelWrite, AlertWrite,
       AdvanceDelivery, DeliveryWrite, AttemptWrite, DropWrite, Left, LeftWrite, Sync, SyncWrite, Settle,
       Declare, DeclareWrite, ConfirmWrite, FailWrite, ClaimPaiement, Cascade, AddRow, AddCascade, PaidWrite, Refund
  <1>3. ASSUME NEW p \in Req, Crash(p) PROVE fleet' = fleet
    BY <1>3 DEF Crash
  <1>4. ASSUME NEW o \in Order, TurboMoves(o) \/ TurboDrops(o) PROVE fleet' = fleet
    BY <1>4 DEF TurboMoves, TurboDrops
  <1> QED BY <1>1, <1>2, <1>3, <1>4 DEF Next, vars

(* The invariant of a course of Turbo is inductive: the statements a       *)
(* handler of it still holds never reopen a delivery, and close the course *)
(* only over deliveries that are all over.                                 *)
THEOREM TurboInductive == Spec => []IInv
  <1>1. Init => IInv
    BY InitIInv
  <1>2. IInv /\ [Next]_vars => IInv'
    BY StepTurboInv, FleetStays DEF IInv, TurboInv, WorldOK
  <1> QED BY <1>1, <1>2, PTL DEF Spec

(* A course of Turbo is COMPLETED only when each of its deliveries is      *)
(* over, whatever the interleaving of webhooks, codes, cashier and crons.  *)
THEOREM CourseOfTurboDone == Spec => []TurboCourseDone
  <1>1. IInv => TurboCourseDone
    BY DEF IInv, TurboInv, TurboCourseDone, On
  <1> QED BY <1>1, TurboInductive, PTL

(* A delivery handed over by Turbo stays DELIVERED: no webhook, late or    *)
(* replayed, no code and no cancellation takes it back.                    *)
THEOREM HandedOverForGood == Spec => DeliveredIsFinal
  <1> USE DEF courseVars, orderVars, moneyVars, worldVars
  <1> DEFINE Stays == \A o \in Order : livraison[o] = "DELIVERED" => livraison'[o] = "DELIVERED"
  <1>1. ASSUME TurboInv, [Next]_vars PROVE Stays
    <2>1. CASE UNCHANGED vars
      BY <2>1 DEF vars
    <2>2. ASSUME NEW p \in Req, Starts(p) PROVE Stays
      BY <2>2 DEF Starts, MarkAtRestaurant, MarkPickedUp, ValidatePickup, CancelCourse, AutoCancel, DetecterRetards,
         ConfirmerEncaissement, Webhook, WebhookCancelled, ValiderCode, StartDelivery, MarkArrived,
         ConfirmDelivery, FailDelivery, AddPaiement, MarkPaidCash, AdminCancel
    <2>3. ASSUME NEW p \in Req, Steps(p) PROVE Stays
      <3>1. CASE AdvanceDelivery(p) \/ DeliveryWrite(p) \/ DropWrite(p) \/ CancelWrite(p)
        BY <1>1, <3>1, DeliveryWritesKeep DEF Keeps
      <3>2. CASE ConfirmWrite(p) \/ FailWrite(p)
        <4>1. ~Free(p) /\ (At(p, "confirmW") \/ At(p, "failW"))
          BY <3>2 DEF ConfirmWrite, FailWrite, At
        <4> QED BY <1>1, <4>1, HeldAllowed DEF TurboInv
      <3>3. CASE \/ AdvanceCourse(p) \/ CourseWrite(p) \/ Close(p) \/ PickUpWrite(p)
                 \/ CancelRead(p) \/ AlertWrite(p) \/ AttemptWrite(p) \/ Left(p) \/ LeftWrite(p)
                 \/ Sync(p) \/ SyncWrite(p) \/ Settle(p) \/ Declare(p) \/ DeclareWrite(p)
                 \/ ClaimPaiement(p) \/ Cascade(p) \/ AddRow(p) \/ AddCascade(p) \/ PaidWrite(p) \/ Refund(p)
        BY <3>3 DEF AdvanceCourse, CourseWrite, Close, PickUpWrite, CancelRead, AlertWrite, AttemptWrite, Left,
           LeftWrite, Sync, SyncWrite, Settle, Declare, DeclareWrite, ClaimPaiement, Cascade, AddRow,
           AddCascade, PaidWrite, Refund
      <3> QED BY <2>3, <3>1, <3>2, <3>3 DEF Steps
    <2>4. ASSUME NEW p \in Req, Crash(p) PROVE Stays
      BY <2>4 DEF Crash
    <2>5. ASSUME NEW o \in Order, TurboMoves(o) \/ TurboDrops(o) PROVE Stays
      BY <2>5 DEF TurboMoves, TurboDrops
    <2> HIDE DEF Stays
    <2> QED BY <1>1, <2>1, <2>2, <2>3, <2>4, <2>5 DEF Next
  <1>2. IInv /\ [Next]_vars => [On("TURBO") => Stays]_vars
    BY <1>1 DEF IInv, On
  <1> QED BY <1>2, TurboInductive, PTL DEF Spec, DeliveredIsFinal

-----------------------------------------------------------------------------
(* The bell of late courses, for either fleet                              *)

BellInv == bells \in 0 .. 1 /\ (bells = 1 => alerted)

(* The staff is told once that a course is late, even when the cron runs   *)
(* twice at once: the one UPDATE that takes delay_alerted_at rings.        *)
THEOREM LateToldOnce == Spec => []DelayToldOnce
  <1> USE DEF courseVars, orderVars, moneyVars, worldVars
  <1>1. ASSUME Init PROVE BellInv
    <2>1. bells = 0
      BY <1>1 DEF Init
    <2> QED BY <2>1 DEF BellInv
  <1>2. ASSUME BellInv, [Next]_vars PROVE BellInv'
    <2> DEFINE Same == UNCHANGED <<alerted, bells>>
    <2>1. CASE UNCHANGED vars
      BY <1>2, <2>1 DEF vars, BellInv
    <2>2. ASSUME NEW p \in Req, Starts(p) PROVE Same
      BY <2>2 DEF Starts, MarkAtRestaurant, MarkPickedUp, ValidatePickup, CancelCourse, AutoCancel, DetecterRetards,
         ConfirmerEncaissement, Webhook, WebhookCancelled, ValiderCode, StartDelivery, MarkArrived,
         ConfirmDelivery, FailDelivery, AddPaiement, MarkPaidCash, AdminCancel
    <2>3. ASSUME NEW p \in Req, Steps(p) PROVE AlertWrite(p) \/ Same
      BY <2>3 DEF Steps, AdvanceCourse, CourseWrite, Close, PickUpWrite, CancelRead, CancelWrite,
         AdvanceDelivery, DeliveryWrite, AttemptWrite, DropWrite, Left, LeftWrite, Sync, SyncWrite, Settle,
         Declare, DeclareWrite, ConfirmWrite, FailWrite, ClaimPaiement, Cascade, AddRow, AddCascade, PaidWrite, Refund
    <2>4. ASSUME NEW p \in Req, Crash(p) PROVE Same
      BY <2>4 DEF Crash
    <2>5. ASSUME NEW o \in Order, TurboMoves(o) \/ TurboDrops(o) PROVE Same
      BY <2>5 DEF TurboMoves, TurboDrops
    <2>6. ASSUME NEW p \in Req, AlertWrite(p) PROVE BellInv'
      <3>1. CASE alerted
        <4>1. Same
          BY <2>6, <3>1, Zenon DEF AlertWrite
        <4> QED BY <1>2, <4>1 DEF BellInv
      <3>2. CASE ~alerted
        <4>1. alerted' = TRUE /\ bells' = bells + 1
          BY <2>6, <3>2, Zenon DEF AlertWrite
        <4>2. alerted'
          BY <4>1, Zenon
        <4>3. bells # 1
          BY <1>2, <3>2, Zenon DEF BellInv
        <4>4. bells \in 0 .. 1
          BY <1>2 DEF BellInv
        <4>5. bells' \in 0 .. 1
          BY <4>1, <4>3, <4>4
        <4> QED BY <4>2, <4>5, Zenon DEF BellInv
      <3> QED BY <3>1, <3>2
    <2>7. Same => BellInv'
      BY <1>2 DEF BellInv
    <2> HIDE DEF Same
    <2> QED BY <1>2, <2>1, <2>2, <2>3, <2>4, <2>5, <2>6, <2>7 DEF Next
  <1>3. BellInv => DelayToldOnce
    BY DEF BellInv, DelayToldOnce
  <1> QED BY <1>1, <1>2, <1>3, PTL DEF Spec

-----------------------------------------------------------------------------
(***************************************************************************)
(* What CourseDelivery promises for both fleets: its types under every     *)
(* interleaving, and what needs the handlers of the course to follow one   *)
(* another.  For every set of orders, means of payment and rows.           *)
(*                                                                         *)
(* TInv says which statements a handler may hold, and that the PENDING     *)
(* rows keep to their partial unique index; a declaration always finds     *)
(* keys for its rows, because the others are fewer than the keys.          *)
(*                                                                         *)
(* SeqInv is about a handler that runs alone: what is left of its program  *)
(* after the statement it is at (Follows), and what it has read, which is  *)
(* still so when it writes (Doing).  A second handler between the two      *)
(* breaks it: the concurrent run does not check these properties.          *)
(*                                                                         *)
(* CompletedIsPaid and CollectedInv follow the money of one order between  *)
(* the statements of that handler, which no crash cuts short.  HouseInv    *)
(* and the refinement of OrderTracking also ask for Respectful: the four   *)
(* operations that do not look at the status they write are left out, as   *)
(* in the sequential run.                                                  *)
(***************************************************************************)

-----------------------------------------------------------------------------
(* What every execution keeps                                              *)

CourseOps == ({"courseW"} \X {"AT_RESTAURANT"}) \cup ({"pickupW", "cancel", "cancelW", "alertW"} \X {""})

PayOps == ({"claim", "cascade"} \X {""}) \cup ({"paidW"} \X {"", "COMPLETED"})

Stages == {"PICKED_UP", "COLLECTED", "COMPLETED"}

OrderOps ==
    ({"course", "courseW"} \X {"ACCEPTED", "AT_RESTAURANT", "IN_DELIVERY", "COMPLETED"})
    \cup ({"close"} \X {"course", "courseW"})
    \cup ({"delivery", "deliveryW"} \X {"IN_ROUTE", "ARRIVED", "DELIVERED"})
    \cup ({"attemptW"} \X (0 .. MaxCode))
    \cup ({"drop", "left", "leftW", "settle", "declare", "declareW", "failW", "addCascade", "refund"} \X {""})
    \cup ({"sync", "syncW", "confirmW"} \X Stages) \cup ({"syncW"} \X {"CANCELLED"})
    \cup ({"add"} \X (1 .. TOTAL)) \cup ({"paidW"} \X {"", "COMPLETED"})

AllOps == CourseOps \cup PayOps \cup OrderOps

(* A handler of the course, of one order, or of one payment.               *)
Kind(r) == IF r.order = NONE THEN CourseOps ELSE IF r.row = NONE THEN OrderOps ELSE PayOps

ReqOK(r) == /\ r \in [prog : Seq(AllOps), order : Order \cup {NONE}, row : Paiement \cup {NONE}]
            /\ r.prog \in Seq(Kind(r))
            /\ r.row # NONE => r.order # NONE

Reqs == DOMAIN req = Req /\ \A p \in Req : ReqOK(req[p])

Row == [order : Order, mode : Mode, montant : 1 .. TOTAL]

TInv == TypeOK /\ paiement \in [Paiement -> Row \cup {FreeRow}] /\ Reqs

-----------------------------------------------------------------------------
(* What a handler that runs alone keeps                                    *)

TransitNext  == <<<<"delivery", "IN_ROUTE">>, <<"sync", "PICKED_UP">>>>
PickedNext   == <<<<"sync", "PICKED_UP">>>>
HandedNext   == <<<<"close", "course">>, <<"settle", "">>>>
SettleNext   == <<<<"settle", "">>>>
CloseNext    == <<<<"close", "course">>>>
HouseNext    == <<<<"close", "courseW">>>>
CollectNext  == <<<<"sync", "COLLECTED">>>>
CollectThen  == <<<<"sync", "COLLECTED">>, <<"close", "course">>>>
CompleteThen == <<<<"sync", "COMPLETED">>, <<"close", "course">>>>
DeclareThen  == <<<<"declare", "">>, <<"sync", "COLLECTED">>, <<"close", "course">>>>
DeclareHouse == <<<<"declare", "">>, <<"close", "courseW">>>>
CascadeNext  == <<<<"cascade", "">>>>
AddNext      == <<<<"addCascade", "">>>>
CancelNext   == <<<<"syncW", "CANCELLED">>>>

(* What may be left of a program behind its first statement.               *)
Follows(n, a, t) ==
    /\ n \in {"course", "courseW"} =>
         t \in (CASE a = "IN_DELIVERY" -> {TransitNext} [] a = "COMPLETED" -> {<<>>, SettleNext} [] OTHER -> {<<>>})
    /\ n = "close" => t \in (IF a = "course" THEN {<<>>, SettleNext} ELSE {<<>>})
    /\ n = "delivery" => t \in (IF a = "IN_ROUTE" THEN {PickedNext} ELSE {HandedNext})
    /\ n = "deliveryW" => t \in (IF a = "DELIVERED" THEN {CompleteThen, CollectThen, DeclareThen} ELSE {<<>>})
    /\ n \in {"sync", "syncW"} => t \in (IF a \in {"COMPLETED", "COLLECTED"} THEN {<<>>, CloseNext} ELSE {<<>>})
    /\ n \in {"declare", "declareW"} => t \in {CollectNext, CollectThen, HouseNext}
    /\ n = "confirmW" => t \in (IF a = "COMPLETED" THEN {HouseNext} ELSE {DeclareHouse})
    /\ n = "failW" => t = HouseNext
    /\ n = "claim" => t = CascadeNext
    /\ n = "add" => t = AddNext
    /\ n = "refund" => t = CancelNext
    /\ n \in {"cancel", "cancelW", "pickupW", "alertW", "attemptW", "drop", "left", "leftW", "settle",
              "cascade", "addCascade", "paidW"} => t = <<>>

Lower(o, s) == commande[o] \notin OrderOver /\ OrderRank[commande[o]] < OrderRank[s]

(* What a handler at statement <<n, a>> has read, for its order o.         *)
Doing(n, a, t, o) ==
    /\ n \in {"course", "courseW"} /\ a = "COMPLETED" => AllOver
    /\ n = "deliveryW" => a = "DELIVERED" \/ livraison[o] \notin DeliveryOver
    /\ n = "syncW" => a = "CANCELLED" \/ Lower(o, a)
    /\ n \in {"sync", "syncW", "confirmW"} => (a = "COMPLETED" => payee[o]) /\ (a = "COLLECTED" => ~payee[o])
    /\ n = "deliveryW" /\ t = CompleteThen => payee[o]
    /\ n \in {"declare", "declareW", "deliveryW"} /\ t \in {CollectNext, CollectThen, DeclareThen} => ~payee[o]
    /\ n = "paidW" => a = "COMPLETED" \/ ~(Covered(o) /\ commande[o] = "COLLECTED")
    /\ n = "declareW" => Pending(o) = {}
    /\ On("CHICKEN_NATION") =>
         /\ n \notin {"sync", "settle", "course", "delivery"}
         /\ n = "syncW" => a = "CANCELLED"
         /\ n = "courseW" => t = <<>>
         /\ n \in {"declare", "declareW"} => t = HouseNext
         /\ n = "deliveryW" => a # "DELIVERED"
         /\ n = "close" => a = "courseW"

Turn(p) == ~Free(p) =>
    LET h == Head(req[p].prog)
    IN  Follows(h[1], h[2], Tail(req[p].prog)) /\ Doing(h[1], h[2], Tail(req[p].prog), Mine(p))

SeqInv == (\A p \in Req : Turn(p)) /\ CourseDone

(* Between two statements of its handler, an order that is COLLECTED is    *)
(* about to be completed, or to have money declared, or to be cancelled.   *)
CollectedInv ==
    \A o \in Order : commande[o] = "COLLECTED" =>
        /\ payee[o] /\ Covered(o) =>
             \E p \in Req : /\ Mine(p) = o
                            /\ \/ At(p, "addCascade") \/ At(p, "cascade")
                               \/ (At(p, "paidW") /\ Arg(p) = "COMPLETED")
        /\ ~payee[o] /\ On("CHICKEN_NATION") =>
             \/ Pending(o) # {} \/ encaisse[o] > 0
             \/ \E p \in Req : Mine(p) = o /\ (At(p, "declare") \/ At(p, "declareW") \/ At(p, "syncW"))

(* The operations that look at the status of the order they write.  The    *)
(* others: markPickedUp looks at the statut of the course only, the back   *)
(* office cancels an order and leaves its delivery open, markPaidCash      *)
(* completes an order whatever its status.                                 *)
Respectful ==
    /\ \A x \in {"markPickedUp", "adminCancel", "cash"} : <<"CHICKEN_NATION", x>> \notin Operations
    /\ <<"TURBO", "cash">> \notin Operations

(* What a handler at <<n, a>> has read of the status of its order.         *)
Careful(n, a, o) ==
    /\ n = "pickupW" => \A x \in Order : commande[x] = "READY"
    /\ n = "confirmW" => /\ On("CHICKEN_NATION") /\ statut = "IN_DELIVERY" /\ livraison[o] = "ARRIVED"
                         /\ a \in {"COLLECTED", "COMPLETED"}
    /\ n = "paidW" => a = "" \/ commande[o] = "COLLECTED"
    /\ On("CHICKEN_NATION") =>
         /\ n \notin {"refund", "syncW", "drop", "left", "leftW"}
         /\ n = "courseW" => a = "COMPLETED" \/ (a = "AT_RESTAURANT" /\ statut = "ACCEPTED")

(* The orders of the house follow their course until they are delivered.   *)
OrdersFollow ==
    On("CHICKEN_NATION") => \A o \in Order :
       /\ ~dropped[o]
       /\ livraison[o] \notin DeliveryOver =>
            commande[o] = IF statut \in {"ACCEPTED", "AT_RESTAURANT"} THEN "READY" ELSE "PICKED_UP"

HouseInv ==
    /\ OrdersFollow
    /\ \A p \in Req : ~Free(p) => Careful(Head(req[p].prog)[1], Arg(p), Mine(p))

-----------------------------------------------------------------------------
(* Programs *)

LEMMA KindIn == ASSUME NEW r PROVE Seq(Kind(r)) \subseteq Seq(AllOps)
  <1>1. Kind(r) \subseteq AllOps
    BY DEF Kind, AllOps
  <1> QED BY <1>1, SeqGrows

LEMMA IdleOK == ReqOK(Idle)
  BY EmptySeq, NoneAssumption DEF ReqOK, Idle, Kind

(* A handler takes another program of its kind.                            *)
LEMMA OtherProgram ==
  ASSUME NEW r, ReqOK(r), NEW s \in Seq(Kind(r)) PROVE ReqOK([r EXCEPT !.prog = s])
  <1>1. PICK x : x = [r EXCEPT !.prog = s]
    OBVIOUS
  <1>2. /\ r \in [prog : Seq(AllOps), order : Order \cup {NONE}, row : Paiement \cup {NONE}]
        /\ r.row # NONE => r.order # NONE
    BY DEF ReqOK
  <1>3. s \in Seq(AllOps)
    BY KindIn
  <1>4. x.prog = s /\ x.order = r.order /\ x.row = r.row
        /\ x \in [prog : Seq(AllOps), order : Order \cup {NONE}, row : Paiement \cup {NONE}]
    BY <1>1, <1>2, <1>3
  <1>5. Kind(x) = Kind(r)
    BY <1>4 DEF Kind
  <1>6. ReqOK(x)
    BY <1>2, <1>4, <1>5 DEF ReqOK
  <1> QED BY <1>1, <1>6

LEMMA GotoOK == ASSUME Reqs, NEW p \in Req, NEW r, ReqOK(r), Goto(p, r) PROVE Reqs'
  <1>1. PICK x : x = IF r.prog = <<>> THEN Idle ELSE r
    OBVIOUS
  <1>2. ReqOK(x) /\ req' = [req EXCEPT ![p] = x]
    BY <1>1, IdleOK DEF Goto
  <1>3. DOMAIN req' = Req /\ \A q \in Req : ReqOK(req'[q])
    BY <1>2 DEF Reqs
  <1> QED BY <1>3 DEF Reqs, ReqOK, Kind

LEMMA StopOK == ASSUME Reqs, NEW p \in Req, Stop(p) PROVE Reqs'
  BY IdleOK, GotoOK DEF Stop

LEMMA HeadTail ==
  ASSUME Reqs, NEW p \in Req, ~Free(p)
  PROVE  /\ ReqOK(req[p]) /\ req[p].prog \in Seq(AllOps) /\ req[p].prog # <<>>
         /\ Head(req[p].prog) \in Kind(req[p]) /\ Tail(req[p].prog) \in Seq(Kind(req[p]))
  <1>1. ReqOK(req[p]) /\ req[p].prog # <<>>
    BY DEF Reqs, Free
  <1>2. req[p].prog \in Seq(Kind(req[p])) /\ req[p].prog \in Seq(AllOps)
    BY <1>1, KindIn DEF ReqOK
  <1> QED BY <1>1, <1>2, HeadTailProperties

(* A statement is replaced by what the handler does next.                  *)
LEMMA BecomeOK ==
  ASSUME Reqs, NEW p \in Req, ~Free(p), NEW s \in Seq(Kind(req[p])), Become(p, s) PROVE Reqs'
  <1>1. ReqOK(req[p]) /\ Tail(req[p].prog) \in Seq(Kind(req[p]))
    BY HeadTail
  <1>2. PICK x : x = s \o Tail(req[p].prog)
    OBVIOUS
  <1>3. x \in Seq(Kind(req[p]))
    BY <1>1, <1>2, ConcatProperties
  <1>4. ReqOK([req[p] EXCEPT !.prog = x])
    BY <1>1, <1>3, OtherProgram
  <1>5. Goto(p, [req[p] EXCEPT !.prog = x])
    BY <1>2 DEF Become
  <1> QED BY <1>4, <1>5, GotoOK

LEMMA DoneOK == ASSUME Reqs, NEW p \in Req, ~Free(p), Done(p) PROVE Reqs'
  BY EmptySeq, BecomeOK DEF Done

(* A handler of the course begins, or one of an order.                     *)
LEMMA BeginCourseOK == ASSUME Reqs, NEW p \in Req, NEW s \in Seq(CourseOps), Begin(p, NONE, s) PROVE Reqs'
  <1>1. PICK x : x = [Idle EXCEPT !.order = NONE, !.prog = s]
    OBVIOUS
  <1>2. x.prog = s /\ x.order = NONE /\ x.row = NONE /\ x = [prog |-> s, order |-> NONE, row |-> NONE]
    BY <1>1 DEF Idle
  <1>3. Kind(x) = CourseOps /\ s \in Seq(AllOps)
    BY <1>2, KindIn, SeqGrows DEF Kind, AllOps
  <1>4. ReqOK(x)
    BY <1>2, <1>3 DEF ReqOK
  <1> QED BY <1>1, <1>4, GotoOK DEF Begin

LEMMA BeginOrderOK ==
  ASSUME Reqs, NEW p \in Req, NEW o \in Order, NEW s \in Seq(OrderOps), Begin(p, o, s) PROVE Reqs'
  <1>1. PICK x : x = [Idle EXCEPT !.order = o, !.prog = s]
    OBVIOUS
  <1>2. x.prog = s /\ x.order = o /\ x.row = NONE /\ x = [prog |-> s, order |-> o, row |-> NONE]
    BY <1>1 DEF Idle
  <1>3. o # NONE
    BY NoneAssumption
  <1>4. Kind(x) = OrderOps
    BY <1>2, <1>3 DEF Kind
  <1>5. s \in Seq(AllOps)
    BY SeqGrows DEF AllOps
  <1>6. ReqOK(x)
    BY <1>2, <1>3, <1>4, <1>5 DEF ReqOK
  <1> QED BY <1>1, <1>6, GotoOK DEF Begin

(* The statement a handler is at, and the order it is about.               *)
OrderNames == {"course", "close", "delivery", "deliveryW", "attemptW", "drop", "left", "leftW", "settle", "declare",
               "declareW", "failW", "addCascade", "refund", "sync", "syncW", "confirmW", "add", "claim", "cascade", "paidW"}

LEMMA Held ==
  ASSUME Reqs, NEW p \in Req, ~Free(p)
  PROVE  /\ At(p, "courseW") => Arg(p) \in {"ACCEPTED", "AT_RESTAURANT", "IN_DELIVERY", "COMPLETED"}
         /\ At(p, "course") => Arg(p) \in {"ACCEPTED", "AT_RESTAURANT", "IN_DELIVERY", "COMPLETED"}
         /\ At(p, "close") => Arg(p) \in {"course", "courseW"}
         /\ At(p, "delivery") \/ At(p, "deliveryW") => Arg(p) \in {"IN_ROUTE", "ARRIVED", "DELIVERED"}
         /\ At(p, "attemptW") => Arg(p) \in 0 .. MaxCode
         /\ At(p, "sync") \/ At(p, "confirmW") => Arg(p) \in Stages
         /\ At(p, "syncW") => Arg(p) \in Stages \cup {"CANCELLED"}
         /\ At(p, "add") => Arg(p) \in 1 .. TOTAL
         /\ At(p, "paidW") => Arg(p) \in {"", "COMPLETED"}
         /\ At(p, "claim") => req[p].row \in Paiement
         /\ \A n \in OrderNames : At(p, n) => Mine(p) \in Order
  <1>1. PICK h : h = Head(req[p].prog)
    OBVIOUS
  <1>2. ReqOK(req[p]) /\ h \in Kind(req[p])
    BY <1>1, HeadTail
  <1>3. h \in AllOps
    BY <1>2 DEF Kind, AllOps
  <1>4. /\ h[1] \in {"course", "courseW"} => h[2] \in {"ACCEPTED", "AT_RESTAURANT", "IN_DELIVERY", "COMPLETED"}
        /\ h[1] = "close" => h[2] \in {"course", "courseW"}
        /\ h[1] \in {"delivery", "deliveryW"} => h[2] \in {"IN_ROUTE", "ARRIVED", "DELIVERED"}
        /\ h[1] = "attemptW" => h[2] \in 0 .. MaxCode
        /\ h[1] \in {"sync", "confirmW"} => h[2] \in Stages
        /\ h[1] = "syncW" => h[2] \in Stages \cup {"CANCELLED"}
        /\ h[1] = "add" => h[2] \in 1 .. TOTAL
        /\ h[1] = "paidW" => h[2] \in {"", "COMPLETED"}
    BY <1>3 DEF AllOps, CourseOps, PayOps, OrderOps
  <1>5. h[1] = "claim" => req[p].row \in Paiement
    <2>1. h[1] = "claim" => Kind(req[p]) = PayOps /\ req[p].row # NONE
      BY <1>2 DEF Kind, CourseOps, OrderOps
    <2> QED BY <1>2, <2>1 DEF ReqOK
  <1>6. h[1] \in OrderNames => req[p].order \in Order
    <2>1. h[1] \in OrderNames => h \notin CourseOps
      BY DEF CourseOps, OrderNames
    <2>2. h[1] \in OrderNames => req[p].order # NONE
      BY <1>2, <2>1 DEF Kind
    <2> QED BY <1>2, <2>2 DEF ReqOK
  <1> QED BY <1>1, <1>4, <1>5, <1>6 DEF At, Arg, Mine

-----------------------------------------------------------------------------
(* Keys for the rows of a declaration *)

LEMMA SmallerFits ==
  ASSUME NEW A, NEW B, IsFiniteSet(A), IsFiniteSet(B), Cardinality(A) <= Cardinality(B)
  PROVE  \E f \in [A -> B] : \A m, n \in A : f[m] = f[n] => m = n
  <1> DEFINE a == Cardinality(A)
             b == Cardinality(B)
  <1>1. a \in Nat /\ b \in Nat /\ ExistsBijection(1 .. a, A) /\ ExistsBijection(1 .. b, B)
    BY FS_CardinalityType
  <1>2. PICK F \in Bijection(1 .. a, A) : TRUE
    BY <1>1, Fun_ExistsBij
  <1>3. PICK G \in Bijection(1 .. b, B) : TRUE
    BY <1>1, Fun_ExistsBij
  <1>4. F \in [1 .. a -> A] /\ \A x \in A : \E i \in 1 .. a : F[i] = x
    BY <1>2 DEF Bijection, Surjection
  <1>5. G \in [1 .. b -> B] /\ \A i, j \in 1 .. b : G[i] = G[j] => i = j
    BY <1>3, Fun_BijectionProperties
  <1>6. 1 .. a \subseteq 1 .. b
    BY <1>1
  <1> DEFINE inv == [x \in A |-> CHOOSE i \in 1 .. a : F[i] = x]
             f == [x \in A |-> G[inv[x]]]
  <1>7. \A x \in A : inv[x] \in 1 .. a /\ F[inv[x]] = x
    BY <1>4
  <1> HIDE DEF inv, a, b
  <1>8. f \in [A -> B]
    BY <1>5, <1>6, <1>7
  <1>9. ASSUME NEW m \in A, NEW n \in A, f[m] = f[n] PROVE m = n
    <2>1. inv[m] = inv[n]
      BY <1>5, <1>6, <1>7, <1>9
    <2> QED BY <1>7, <2>1
  <1> QED BY <1>8, <1>9

(* The rows of the batch and those that exist are different pairs of an    *)
(* order and a means of payment; each handler holds one key at most.       *)
LEMMA KeysSuffice ==
  ASSUME TInv, NEW o \in Order, NEW b \in Batches, ~Refused(o, b)
  PROVE  \E f \in [DOMAIN b -> Fresh] : \A m, n \in DOMAIN b : f[m] = f[n] => m = n
  <1> DEFINE D     == DOMAIN b
             Busy  == {i \in Paiement : paiement[i] # FreeRow}
             Kept  == {i \in Paiement : \E p \in Req : req[p].row = i}
             Pairs == Order \X Mode
             Mine_ == {o} \X D
  <1>1. D \subseteq Mode
    BY DEF Batches
  <1>2. /\ IsFiniteSet(Order) /\ IsFiniteSet(Mode) /\ IsFiniteSet(Paiement) /\ IsFiniteSet(Req)
    BY FiniteAssumption
  <1>3. /\ IsFiniteSet(D) /\ IsFiniteSet(Busy) /\ IsFiniteSet(Kept) /\ IsFiniteSet(Fresh)
    BY <1>1, <1>2, FS_Subset DEF Fresh
  <1>4. IsFiniteSet(Pairs) /\ Cardinality(Pairs) = Cardinality(Order) * Cardinality(Mode)
    BY <1>2, FS_Product
  <1>5. IsFiniteSet(Mine_) /\ Cardinality(Mine_) = Cardinality(D)
    <2>1. IsFiniteSet({o}) /\ Cardinality({o}) = 1
      BY FS_Singleton
    <2>2. Cardinality(D) \in Nat
      BY <1>3, FS_CardinalityType
    <2>3. IsFiniteSet(Mine_) /\ Cardinality(Mine_) = Cardinality({o}) * Cardinality(D)
      BY <1>3, <2>1, FS_Product
    <2> QED BY <2>1, <2>2, <2>3
  <1>6. Mine_ \subseteq Pairs
    BY <1>1
  <1>7. Cardinality(Pairs \ Mine_) = Cardinality(Pairs) - Cardinality(Mine_) /\ IsFiniteSet(Pairs \ Mine_)
    <2>1. Pairs \cap Mine_ = Mine_
      BY <1>6
    <2> HIDE DEF Pairs, Mine_
    <2>2. IsFiniteSet(Pairs \ Mine_) /\ Cardinality(Pairs \ Mine_) = Cardinality(Pairs) - Cardinality(Pairs \cap Mine_)
      BY <1>4, FS_Difference
    <2> QED BY <2>1, <2>2
  <1>8. Cardinality(Busy) <= Cardinality(Pairs \ Mine_)
    <2> DEFINE g == [i \in Busy |-> <<paiement[i].order, paiement[i].mode>>]
    <2>1. ASSUME NEW i \in Busy PROVE g[i] \in Pairs \ Mine_
      <3>1. paiement[i] \in Row
        BY DEF TInv
      <3>2. paiement[i].order \in Order /\ paiement[i].mode \in Mode
        BY <3>1 DEF Row
      <3>3. paiement[i].order = o => paiement[i].mode \notin D
        BY DEF Refused, Pending
      <3> QED BY <3>2, <3>3
    <2>2. \A i, j \in Busy : g[i] = g[j] => i = j
      BY DEF TInv, TypeOK
    <2> HIDE DEF Busy, Pairs, Mine_
    <2>3. g \in [Busy -> Pairs \ Mine_]
      BY <2>1
    <2>4. g \in Injection(Busy, Pairs \ Mine_)
      BY <2>2, <2>3, Fun_IsInj
    <2> QED BY <1>7, <2>4, FS_Injection
  <1>9. Cardinality(Kept) <= Cardinality(Req)
    <2> DEFINE h == [i \in Kept |-> CHOOSE p \in Req : req[p].row = i]
    <2>1. \A i \in Kept : h[i] \in Req /\ req[h[i]].row = i
      OBVIOUS
    <2>2. \A i, j \in Kept : h[i] = h[j] => i = j
      BY <2>1
    <2>3. h \in [Kept -> Req]
      BY <2>1
    <2> HIDE DEF Kept, h
    <2>4. h \in Injection(Kept, Req)
      BY <2>2, <2>3, Fun_IsInj
    <2> QED BY <1>2, <2>4, FS_Injection
  <1>10. Cardinality(Busy \cup Kept) <= Cardinality(Busy) + Cardinality(Kept) /\ IsFiniteSet(Busy \cup Kept)
    <2>1. /\ IsFiniteSet(Busy \cup Kept)
          /\ Cardinality(Busy \cup Kept) = Cardinality(Busy) + Cardinality(Kept) - Cardinality(Busy \cap Kept)
      BY <1>3, FS_Union
    <2>2. Cardinality(Busy \cap Kept) \in Nat /\ Cardinality(Busy) \in Nat /\ Cardinality(Kept) \in Nat
      BY <1>3, FS_Intersection, FS_CardinalityType
    <2> QED BY <2>1, <2>2
  <1>11. Cardinality(Fresh) = Cardinality(Paiement) - Cardinality(Busy \cup Kept)
    <2>1. Fresh = Paiement \ (Busy \cup Kept)
      BY DEF Fresh
    <2>2. Paiement \cap (Busy \cup Kept) = Busy \cup Kept
      OBVIOUS
    <2> DEFINE taken == Busy \cup Kept
    <2> HIDE DEF taken
    <2>3. Cardinality(Paiement \ taken) = Cardinality(Paiement) - Cardinality(Paiement \cap taken)
      BY <1>2, FS_Difference
    <2> QED BY <2>1, <2>2, <2>3 DEF taken
  <1>12. Cardinality(D) <= Cardinality(Fresh)
    <2>1. /\ Cardinality(D) \in Nat /\ Cardinality(Fresh) \in Nat /\ Cardinality(Busy) \in Nat
          /\ Cardinality(Kept) \in Nat /\ Cardinality(Paiement) \in Nat /\ Cardinality(Req) \in Nat
          /\ Cardinality(Busy \cup Kept) \in Nat /\ Cardinality(Pairs) \in Nat
      BY <1>2, <1>3, <1>4, <1>10, FS_CardinalityType
    <2>2. Cardinality(Paiement) >= Cardinality(Pairs) + Cardinality(Req)
      BY <1>4, RowsAssumption
    <2>3. Cardinality(Busy) <= Cardinality(Pairs) - Cardinality(D)
      BY <1>5, <1>7, <1>8
    <2> HIDE DEF D, Busy, Kept, Pairs, Mine_
    <2> QED BY <1>9, <1>10, <1>11, <2>1, <2>2, <2>3
  <1> QED BY <1>3, <1>12, SmallerFits

-----------------------------------------------------------------------------
(* Explicit programs *)

LEMMA Join11 == ASSUME NEW x, NEW y PROVE <<x>> \o <<y>> = <<x, y>>
  <1> DEFINE S == {x, y}
  <1>1. <<x>> \in Seq(S) /\ <<y>> \in Seq(S) /\ <<x, y>> \in Seq(S)
    OBVIOUS
  <1>2. Len(<<x>>) = 1 /\ Len(<<y>>) = 1 /\ Len(<<x, y>>) = 2
    OBVIOUS
  <1>3. /\ <<x>> \o <<y>> \in Seq(S)
        /\ Len(<<x>> \o <<y>>) = 2
        /\ \A i \in 1 .. 2 : (<<x>> \o <<y>>)[i] = IF i <= 1 THEN <<x>>[i] ELSE <<y>>[i - 1]
    BY <1>1, <1>2, ConcatProperties
  <1>4. \A i \in 1 .. 2 : (<<x>> \o <<y>>)[i] = <<x, y>>[i]
    BY <1>3
  <1> QED BY <1>1, <1>2, <1>3, <1>4, SeqEqual

LEMMA Join21 == ASSUME NEW x, NEW y, NEW z PROVE <<x, y>> \o <<z>> = <<x, y, z>>
  <1> DEFINE S == {x, y, z}
  <1>1. <<x, y>> \in Seq(S) /\ <<z>> \in Seq(S) /\ <<x, y, z>> \in Seq(S)
    OBVIOUS
  <1>2. Len(<<x, y>>) = 2 /\ Len(<<z>>) = 1 /\ Len(<<x, y, z>>) = 3
    OBVIOUS
  <1>3. /\ <<x, y>> \o <<z>> \in Seq(S)
        /\ Len(<<x, y>> \o <<z>>) = 3
        /\ \A i \in 1 .. 3 : (<<x, y>> \o <<z>>)[i] = IF i <= 2 THEN <<x, y>>[i] ELSE <<z>>[i - 2]
    BY <1>1, <1>2, ConcatProperties
  <1>4. \A i \in 1 .. 3 : (<<x, y>> \o <<z>>)[i] = <<x, y, z>>[i]
    BY <1>3
  <1> QED BY <1>1, <1>2, <1>3, <1>4, SeqEqual

LEMMA Join12 == ASSUME NEW x, NEW y, NEW z PROVE <<x>> \o <<y, z>> = <<x, y, z>>
  <1> DEFINE S == {x, y, z}
  <1>1. <<x>> \in Seq(S) /\ <<y, z>> \in Seq(S) /\ <<x, y, z>> \in Seq(S)
    OBVIOUS
  <1>2. Len(<<x>>) = 1 /\ Len(<<y, z>>) = 2 /\ Len(<<x, y, z>>) = 3
    OBVIOUS
  <1>3. /\ <<x>> \o <<y, z>> \in Seq(S)
        /\ Len(<<x>> \o <<y, z>>) = 3
        /\ \A i \in 1 .. 3 : (<<x>> \o <<y, z>>)[i] = IF i <= 1 THEN <<x>>[i] ELSE <<y, z>>[i - 1]
    BY <1>1, <1>2, ConcatProperties
  <1>4. \A i \in 1 .. 3 : (<<x>> \o <<y, z>>)[i] = <<x, y, z>>[i]
    BY <1>3
  <1> QED BY <1>1, <1>2, <1>3, <1>4, SeqEqual

LEMMA Join31 == ASSUME NEW x, NEW y, NEW z, NEW w PROVE <<x, y, z>> \o <<w>> = <<x, y, z, w>>
  <1> DEFINE S == {x, y, z, w}
  <1>1. <<x, y, z>> \in Seq(S) /\ <<w>> \in Seq(S) /\ <<x, y, z, w>> \in Seq(S)
    OBVIOUS
  <1>2. Len(<<x, y, z>>) = 3 /\ Len(<<w>>) = 1 /\ Len(<<x, y, z, w>>) = 4
    OBVIOUS
  <1>3. /\ <<x, y, z>> \o <<w>> \in Seq(S)
        /\ Len(<<x, y, z>> \o <<w>>) = 4
        /\ \A i \in 1 .. 4 : (<<x, y, z>> \o <<w>>)[i] = IF i <= 3 THEN <<x, y, z>>[i] ELSE <<w>>[i - 3]
    BY <1>1, <1>2, ConcatProperties
  <1>4. \A i \in 1 .. 4 : (<<x, y, z>> \o <<w>>)[i] = <<x, y, z, w>>[i]
    BY <1>3
  <1> QED BY <1>1, <1>2, <1>3, <1>4, SeqEqual

LEMMA Join13 == ASSUME NEW x, NEW y, NEW z, NEW w PROVE <<x>> \o <<y, z, w>> = <<x, y, z, w>>
  <1> DEFINE S == {x, y, z, w}
  <1>1. <<x>> \in Seq(S) /\ <<y, z, w>> \in Seq(S) /\ <<x, y, z, w>> \in Seq(S)
    OBVIOUS
  <1>2. Len(<<x>>) = 1 /\ Len(<<y, z, w>>) = 3 /\ Len(<<x, y, z, w>>) = 4
    OBVIOUS
  <1>3. /\ <<x>> \o <<y, z, w>> \in Seq(S)
        /\ Len(<<x>> \o <<y, z, w>>) = 4
        /\ \A i \in 1 .. 4 : (<<x>> \o <<y, z, w>>)[i] = IF i <= 1 THEN <<x>>[i] ELSE <<y, z, w>>[i - 1]
    BY <1>1, <1>2, ConcatProperties
  <1>4. \A i \in 1 .. 4 : (<<x>> \o <<y, z, w>>)[i] = <<x, y, z, w>>[i]
    BY <1>3
  <1> QED BY <1>1, <1>2, <1>3, <1>4, SeqEqual

LEMMA JoinNone == ASSUME NEW x PROVE <<x>> \o <<>> = <<x>> /\ <<>> \o <<x>> = <<x>>
  OBVIOUS

LEMMA Part1 == ASSUME NEW x PROVE <<x>> # <<>> /\ Head(<<x>>) = x /\ Tail(<<x>>) = <<>>
  OBVIOUS
LEMMA Part2 == ASSUME NEW x, NEW y PROVE <<x, y>> # <<>> /\ Head(<<x, y>>) = x /\ Tail(<<x, y>>) = <<y>>
  OBVIOUS
LEMMA Part3 == ASSUME NEW x, NEW y, NEW z PROVE <<x, y, z>> # <<>> /\ Head(<<x, y, z>>) = x /\ Tail(<<x, y, z>>) = <<y, z>>
  OBVIOUS

CodeProgram(s) == <<<<"deliveryW", "DELIVERED">>>> \o s

LEMMA CodePrograms ==
  ASSUME NEW p \in Req, NEW o \in Order, CodeOk(p, o)
  PROVE  \E s \in {CompleteThen, CollectThen, DeclareThen} :
            Begin(p, o, CodeProgram(s)) /\ (s = CompleteThen => payee[o]) /\ (s # CompleteThen => ~payee[o])
  <1>1. PICK info \in BOOLEAN : Begin(p, o,
             <<<<"deliveryW", "DELIVERED">>>>
             \o (IF payee[o] THEN <<<<"sync", "COMPLETED">>>>
                 ELSE (IF info THEN <<Op("declare")>> ELSE <<>>) \o <<<<"sync", "COLLECTED">>>>)
             \o <<<<"close", "course">>>>)
    BY DEF CodeOk
  <1>2. CASE payee[o]
    <2>1. <<<<"deliveryW", "DELIVERED">>>> \o <<<<"sync", "COMPLETED">>>> \o <<<<"close", "course">>>> = CodeProgram(CompleteThen)
      BY Join11, Join21, Join12 DEF CodeProgram, CompleteThen
    <2> QED BY <1>1, <1>2, <2>1
  <1>3. CASE ~payee[o] /\ info
    <2>1. <<<<"deliveryW", "DELIVERED">>>> \o (<<Op("declare")>> \o <<<<"sync", "COLLECTED">>>>) \o <<<<"close", "course">>>>
            = CodeProgram(DeclareThen)
      <3>1. PICK d, c, k, e : d = <<"deliveryW", "DELIVERED">> /\ c = <<"declare", "">> /\ k = <<"sync", "COLLECTED">>
                              /\ e = <<"close", "course">>
        OBVIOUS
      <3>2. <<d>> \o (<<c>> \o <<k>>) \o <<e>> = <<d, c, k, e>> /\ <<d>> \o <<c, k, e>> = <<d, c, k, e>>
        <4>1. <<c>> \o <<k>> = <<c, k>>
          BY Join11
        <4>2. <<d>> \o <<c, k>> = <<d, c, k>>
          BY Join12
        <4>3. <<d, c, k>> \o <<e>> = <<d, c, k, e>>
          BY Join31
        <4>4. <<d>> \o <<c, k, e>> = <<d, c, k, e>>
          BY Join13
        <4> QED BY <4>1, <4>2, <4>3, <4>4, Zenon
      <3> QED BY <3>1, <3>2 DEF CodeProgram, DeclareThen, Op
    <2>2. DeclareThen # CompleteThen
      BY DEF DeclareThen, CompleteThen
    <2> QED BY <1>1, <1>3, <2>1, <2>2
  <1>4. CASE ~payee[o] /\ ~info
    <2>1. <<<<"deliveryW", "DELIVERED">>>> \o (<<>> \o <<<<"sync", "COLLECTED">>>>) \o <<<<"close", "course">>>>
            = CodeProgram(CollectThen)
      BY Join11, Join21, Join12, JoinNone DEF CodeProgram, CollectThen
    <2>2. CollectThen # CompleteThen
      BY DEF CollectThen, CompleteThen
    <2> QED BY <1>1, <1>4, <2>1, <2>2
  <1> QED BY <1>2, <1>3, <1>4

LEMMA CodeIn == ASSUME NEW s \in {CompleteThen, CollectThen, DeclareThen} PROVE CodeProgram(s) \in Seq(OrderOps)
  <1>1. <<"deliveryW", "DELIVERED">> \in OrderOps /\ <<"sync", "COMPLETED">> \in OrderOps /\ <<"sync", "COLLECTED">> \in OrderOps
        /\ <<"close", "course">> \in OrderOps /\ <<"declare", "">> \in OrderOps
    BY DEF OrderOps, Stages
  <1>2. <<<<"deliveryW", "DELIVERED">>>> \in Seq(OrderOps)
    BY <1>1, OneIn
  <1>3. CompleteThen \in Seq(OrderOps) /\ CollectThen \in Seq(OrderOps) /\ DeclareThen \in Seq(OrderOps)
    BY <1>1, TwoIn, ThreeIn DEF CompleteThen, CollectThen, DeclareThen
  <1> QED BY <1>2, <1>3, ConcatProperties DEF CodeProgram

LEMMA CodeSplit ==
  ASSUME NEW s \in {CompleteThen, CollectThen, DeclareThen}
  PROVE  CodeProgram(s) # <<>> /\ Head(CodeProgram(s)) = <<"deliveryW", "DELIVERED">> /\ Tail(CodeProgram(s)) = s
  <1>1. PICK d, x, y, z : /\ d = <<"deliveryW", "DELIVERED">> /\ x = <<"declare", "">> /\ z = <<"close", "course">>
                          /\ y = IF s = CompleteThen THEN <<"sync", "COMPLETED">> ELSE <<"sync", "COLLECTED">>
    OBVIOUS
  <1>2. CASE s = DeclareThen
    <2>1. DeclareThen # CompleteThen
      BY DEF DeclareThen, CompleteThen
    <2>2. s = <<x, y, z>>
      BY <1>1, <1>2, <2>1, Zenon DEF DeclareThen
    <2>3. CodeProgram(s) = <<d, x, y, z>>
      BY <1>1, <2>2, Join13 DEF CodeProgram
    <2>4. <<d, x, y, z>> # <<>> /\ Head(<<d, x, y, z>>) = d /\ Tail(<<d, x, y, z>>) = <<x, y, z>>
      OBVIOUS
    <2>5. CodeProgram(s) # <<>> /\ Head(CodeProgram(s)) = d /\ Tail(CodeProgram(s)) = s
      BY <2>2, <2>3, <2>4, Zenon
    <2> QED BY <1>1, <2>5
  <1>3. CASE s # DeclareThen
    <2>1. s = <<y, z>>
      BY <1>1, <1>3, Zenon DEF CompleteThen, CollectThen
    <2>2. CodeProgram(s) = <<d, y, z>>
      BY <1>1, <2>1, Join12 DEF CodeProgram
    <2>3. <<d, y, z>> # <<>> /\ Head(<<d, y, z>>) = d /\ Tail(<<d, y, z>>) = <<y, z>>
      OBVIOUS
    <2>4. CodeProgram(s) # <<>> /\ Head(CodeProgram(s)) = d /\ Tail(CodeProgram(s)) = s
      BY <2>1, <2>2, <2>3, Zenon
    <2> QED BY <1>1, <2>4
  <1> QED BY <1>2, <1>3

(* The confirmation of the livreur of the house.                           *)
LEMMA ConfirmPrograms ==
  ASSUME NEW p \in Req, NEW o \in Order, ConfirmDelivery(p, o)
  PROVE  IF payee[o] THEN Begin(p, o, <<<<"confirmW", "COMPLETED">>, <<"close", "courseW">>>>)
                     ELSE Begin(p, o, <<<<"confirmW", "COLLECTED">>, <<"declare", "">>, <<"close", "courseW">>>>)
  <1>1. Begin(p, o, (IF payee[o] THEN <<<<"confirmW", "COMPLETED">>>>
                     ELSE <<<<"confirmW", "COLLECTED">>, Op("declare")>>)
                    \o <<<<"close", "courseW">>>>)
    BY DEF ConfirmDelivery
  <1>2. <<<<"confirmW", "COMPLETED">>>> \o <<<<"close", "courseW">>>> = <<<<"confirmW", "COMPLETED">>, <<"close", "courseW">>>>
    BY Join11
  <1>3. <<<<"confirmW", "COLLECTED">>, Op("declare")>> \o <<<<"close", "courseW">>>>
          = <<<<"confirmW", "COLLECTED">>, <<"declare", "">>, <<"close", "courseW">>>>
    BY Join21 DEF Op
  <1> QED BY <1>1, <1>2, <1>3

-----------------------------------------------------------------------------
(* Types, whatever the interleaving *)

LEMMA MinType ==
  ASSUME NEW x \in Nat
  PROVE  Min({TOTAL, x}) \in 0 .. TOTAL /\ (x >= TOTAL => Min({TOTAL, x}) = TOTAL) /\ (x > 0 => Min({TOTAL, x}) > 0)
  <1>1. TOTAL = 2
    BY DEF TOTAL
  <1>2. \E m \in {TOTAL, x} : \A y \in {TOTAL, x} : m =< y
    BY <1>1
  <1>3. PICK m : m = Min({TOTAL, x})
    OBVIOUS
  <1>4. m \in {TOTAL, x} /\ \A y \in {TOTAL, x} : m =< y
    BY <1>2, <1>3 DEF Min
  <1> QED BY <1>1, <1>3, <1>4

LEMMA Still ==
  ASSUME TInv, Reqs', UNCHANGED <<courseVars, orderVars, moneyVars, worldVars>> PROVE TInv'
  BY DEF TInv, TypeOK, courseVars, orderVars, moneyVars, worldVars, Row, FreeRow

LEMMA InitTInv == ASSUME Init PROVE TInv
  <1>1. Reqs
    BY IdleOK DEF Init, Reqs
  <1>2. paiement \in [Paiement -> Row \cup {FreeRow}] /\ \A i \in Paiement : paiement[i] = FreeRow
    BY DEF Init
  <1>3. fleet \in Fleets /\ statut \in DOMAIN CourseRank \cup {"CANCELLED"} /\ alerted \in BOOLEAN /\ bells \in Nat
    BY DEF Init, CourseRank
  <1>4. /\ livraison \in [Order -> DOMAIN DeliveryRank \cup {"FAILED", "CANCELLED"}]
        /\ commande \in [Order -> DOMAIN OrderRank \cup {"CANCELLED"}]
    BY DEF Init, DeliveryRank, OrderRank
  <1>5. /\ attempts \in [Order -> 0 .. MaxCode] /\ turbo \in [Order -> 0 .. 5] /\ encaisse \in [Order -> 0 .. TOTAL]
        /\ dropped \in [Order -> BOOLEAN]
    BY BoundAssumption DEF Init, TOTAL
  <1>6. payee \in [Order -> BOOLEAN]
    BY DEF Init
  <1> QED BY <1>1, <1>2, <1>3, <1>4, <1>5, <1>6 DEF TInv, TypeOK

LEMMA HandlerIn == ASSUME NEW e \in 1 .. 5 PROVE Handler[e] \in Seq(OrderOps)
  <1>1. /\ <<"course", "ACCEPTED">> \in OrderOps /\ <<"course", "AT_RESTAURANT">> \in OrderOps
        /\ <<"course", "IN_DELIVERY">> \in OrderOps /\ <<"delivery", "IN_ROUTE">> \in OrderOps
        /\ <<"delivery", "DELIVERED">> \in OrderOps /\ <<"sync", "PICKED_UP">> \in OrderOps
        /\ <<"close", "course">> \in OrderOps /\ Op("settle") \in OrderOps
    BY DEF OrderOps, Op, Stages
  <1>2. /\ <<<<"course", "ACCEPTED">>>> \in Seq(OrderOps) /\ <<<<"course", "AT_RESTAURANT">>>> \in Seq(OrderOps)
        /\ Carried \in Seq(OrderOps)
        /\ <<<<"delivery", "DELIVERED">>, <<"close", "course">>, Op("settle")>> \in Seq(OrderOps)
    BY <1>1, OneIn, ThreeIn DEF Carried
  <1>3. /\ Handler[1] = <<<<"course", "ACCEPTED">>>>
        /\ Handler[2] = <<<<"course", "AT_RESTAURANT">>>>
        /\ Handler[3] = Carried /\ Handler[4] = Carried
        /\ Handler[5] = <<<<"delivery", "DELIVERED">>, <<"close", "course">>, Op("settle")>>
    BY DEF Handler
  <1>4. e = 1 \/ e = 2 \/ e = 3 \/ e = 4 \/ e = 5
    OBVIOUS
  <1> DEFINE S == Seq(OrderOps)
  <1> HIDE DEF S
  <1>5. Handler[1] \in S /\ Handler[2] \in S /\ Handler[3] \in S /\ Handler[4] \in S /\ Handler[5] \in S
    BY <1>2, <1>3, Zenon DEF S
  <1>6. Handler[e] \in S
    BY <1>4, <1>5
  <1> QED BY <1>6 DEF S

LEMMA StartsTInv == ASSUME TInv, NEW p \in Req, Starts(p) PROVE TInv'
  <1>1. UNCHANGED <<courseVars, orderVars, moneyVars, worldVars>> /\ Reqs
    BY DEF Starts, MarkAtRestaurant, MarkPickedUp, ValidatePickup, CancelCourse, AutoCancel, DetecterRetards,
       ConfirmerEncaissement, Webhook, WebhookCancelled, ValiderCode, StartDelivery, MarkArrived,
       ConfirmDelivery, FailDelivery, AddPaiement, MarkPaidCash, AdminCancel, TInv
  <1>2. CASE \/ MarkAtRestaurant(p) \/ MarkPickedUp(p) \/ ValidatePickup(p)
             \/ CancelCourse(p) \/ AutoCancel(p) \/ DetecterRetards(p)
    <2>1. \E n \in {<<"courseW", "AT_RESTAURANT">>, <<"pickupW", "">>, <<"cancel", "">>, <<"alertW", "">>} : Begin(p, NONE, <<n>>)
      BY <1>2 DEF MarkAtRestaurant, MarkPickedUp, ValidatePickup, CancelCourse, AutoCancel, DetecterRetards, Op
    <2>2. PICK n \in CourseOps : Begin(p, NONE, <<n>>)
      BY <2>1 DEF CourseOps
    <2>3. Reqs'
      BY <1>1, <2>2, OneIn, BeginCourseOK
    <2> QED BY <1>1, <2>3, Still
  <1>3. CASE ConfirmerEncaissement(p)
    <2>1. PICK i \in Paiement :
             /\ paiement[i] # FreeRow
             /\ Goto(p, [prog |-> <<Op("claim"), Op("cascade")>>, order |-> paiement[i].order, row |-> i])
      BY <1>3 DEF ConfirmerEncaissement
    <2>2. paiement[i].order \in Order
      BY <2>1 DEF TInv, Row
    <2>3. PICK o \in Order : o = paiement[i].order
      BY <2>2
    <2>4. PICK x : x = [prog |-> <<Op("claim"), Op("cascade")>>, order |-> o, row |-> i]
      OBVIOUS
    <2>5. o # NONE /\ i # NONE /\ x.order = o /\ x.row = i /\ x.prog = <<Op("claim"), Op("cascade")>>
      BY <2>4, NoneAssumption
    <2>6. Kind(x) = PayOps
      BY <2>5 DEF Kind
    <2>7. Op("claim") \in PayOps /\ Op("cascade") \in PayOps
      BY DEF PayOps, Op
    <2>8. <<Op("claim"), Op("cascade")>> \in Seq(PayOps)
      BY <2>7, TwoIn
    <2>9. <<Op("claim"), Op("cascade")>> \in Seq(AllOps)
      BY <2>8, SeqGrows DEF AllOps
    <2>10. ReqOK(x)
      BY <2>4, <2>5, <2>6, <2>8, <2>9 DEF ReqOK
    <2>11. Reqs'
      BY <1>1, <2>1, <2>3, <2>4, <2>10, GotoOK
    <2> QED BY <1>1, <2>11, Still
  <1>4. ASSUME NEW o \in Order,
               \/ Webhook(p, o) \/ WebhookCancelled(p, o) \/ ValiderCode(p, o)
               \/ StartDelivery(p, o) \/ MarkArrived(p, o) \/ ConfirmDelivery(p, o) \/ FailDelivery(p, o)
               \/ AddPaiement(p, o) \/ MarkPaidCash(p, o) \/ AdminCancel(p, o)
        PROVE  \E s \in Seq(OrderOps) : Begin(p, o, s)
    <2>1. CASE Webhook(p, o)
      <3>1. PICK e \in 1 .. turbo[o] : Begin(p, o, Handler[e])
        BY <2>1 DEF Webhook
      <3>2. turbo[o] \in 0 .. 5
        BY DEF TInv, TypeOK
      <3>3. e \in 1 .. 5
        BY <3>2
      <3> QED BY <3>1, <3>3, HandlerIn
    <2>2. CASE WebhookCancelled(p, o) \/ StartDelivery(p, o) \/ MarkArrived(p, o) \/ MarkPaidCash(p, o)
      <3>1. \E n \in {<<"drop", "">>, <<"deliveryW", "IN_ROUTE">>, <<"deliveryW", "ARRIVED">>, <<"paidW", "COMPLETED">>} :
              Begin(p, o, <<n>>)
        BY <2>2 DEF WebhookCancelled, StartDelivery, MarkArrived, MarkPaidCash, Op
      <3>2. PICK n \in OrderOps : Begin(p, o, <<n>>)
        BY <3>1 DEF OrderOps
      <3> QED BY <3>2, OneIn
    <2>3. CASE ValiderCode(p, o)
      <3>1. CASE CodeOk(p, o)
        BY <3>1, CodePrograms, CodeIn
      <3>2. CASE CodeWrong(p, o)
        <4>1. attempts[o] < MaxCode /\ attempts[o] \in 0 .. MaxCode /\ Begin(p, o, <<<<"attemptW", attempts[o] + 1>>>>)
          BY <3>2 DEF CodeWrong, TInv, TypeOK
        <4>2. attempts[o] + 1 \in 0 .. MaxCode
          BY <4>1, BoundAssumption
        <4>3. PICK k \in 0 .. MaxCode : k = attempts[o] + 1
          BY <4>2
        <4>4. <<"attemptW", k>> \in OrderOps
          BY DEF OrderOps
        <4> QED BY <4>1, <4>3, <4>4, OneIn
      <3> QED BY <2>3, <3>1, <3>2 DEF ValiderCode
    <2>4. CASE ConfirmDelivery(p, o)
      <3>1. /\ <<"confirmW", "COMPLETED">> \in OrderOps /\ <<"confirmW", "COLLECTED">> \in OrderOps
            /\ <<"declare", "">> \in OrderOps /\ <<"close", "courseW">> \in OrderOps
        BY DEF OrderOps, Stages
      <3>2. /\ <<<<"confirmW", "COMPLETED">>, <<"close", "courseW">>>> \in Seq(OrderOps)
            /\ <<<<"confirmW", "COLLECTED">>, <<"declare", "">>, <<"close", "courseW">>>> \in Seq(OrderOps)
        BY <3>1, TwoIn, ThreeIn
      <3> QED BY <2>4, <3>2, ConfirmPrograms
    <2>5. CASE FailDelivery(p, o)
      <3>1. <<"failW", "">> \in OrderOps /\ <<"close", "courseW">> \in OrderOps
        BY DEF OrderOps
      <3>2. Begin(p, o, <<<<"failW", "">>, <<"close", "courseW">>>>)
        BY <2>5 DEF FailDelivery, Op
      <3> QED BY <3>1, <3>2, TwoIn
    <2>6. CASE AddPaiement(p, o)
      <3>1. PICK m \in 1 .. TOTAL : Begin(p, o, <<<<"add", m>>, <<"addCascade", "">>>>)
        BY <2>6 DEF AddPaiement, Op
      <3>2. <<"add", m>> \in OrderOps /\ <<"addCascade", "">> \in OrderOps
        BY DEF OrderOps
      <3> QED BY <3>1, <3>2, TwoIn
    <2>7. CASE AdminCancel(p, o)
      <3>1. <<"refund", "">> \in OrderOps /\ <<"syncW", "CANCELLED">> \in OrderOps
        BY DEF OrderOps
      <3>2. Begin(p, o, <<<<"refund", "">>, <<"syncW", "CANCELLED">>>>)
        BY <2>7 DEF AdminCancel, Op
      <3> QED BY <3>1, <3>2, TwoIn
    <2> QED BY <1>4, <2>1, <2>2, <2>3, <2>4, <2>5, <2>6, <2>7
  <1>5. ASSUME NEW o \in Order, NEW s \in Seq(OrderOps), Begin(p, o, s) PROVE TInv'
    BY <1>1, <1>5, BeginOrderOK, Still
  <1> QED BY <1>2, <1>3, <1>4, <1>5 DEF Starts

LEMMA HeldKind ==
  ASSUME Reqs, NEW p \in Req, ~Free(p)
  PROVE  /\ At(p, "cancel") => Kind(req[p]) = CourseOps
         /\ At(p, "cascade") => Kind(req[p]) = PayOps
         /\ \A n \in {"course", "close", "left", "sync", "settle", "declare", "addCascade", "drop"} :
              At(p, n) => Kind(req[p]) = OrderOps
  <1>1. PICK h : h = Head(req[p].prog)
    OBVIOUS
  <1>2. h \in Kind(req[p])
    BY <1>1, HeadTail
  <1>3. Kind(req[p]) \in {CourseOps, OrderOps, PayOps}
    BY DEF Kind
  <1>4. h[1] = "cancel" => h \notin OrderOps /\ h \notin PayOps
    BY DEF OrderOps, PayOps
  <1>5. h[1] = "cascade" => h \notin OrderOps /\ h \notin CourseOps
    BY DEF OrderOps, CourseOps
  <1>6. h[1] \in {"course", "close", "left", "sync", "settle", "declare", "addCascade", "drop"} => h \notin PayOps /\ h \notin CourseOps
    BY DEF PayOps, CourseOps
  <1> QED BY <1>1, <1>2, <1>3, <1>4, <1>5, <1>6 DEF At

LEMMA ReadsTInv ==
  ASSUME TInv, NEW p \in Req,
         \/ AdvanceCourse(p) \/ Close(p) \/ CancelRead(p) \/ Left(p)
         \/ Sync(p) \/ Settle(p) \/ Declare(p) \/ Cascade(p) \/ AddCascade(p)
  PROVE  TInv'
  <1>1. UNCHANGED <<courseVars, orderVars, moneyVars, worldVars>> /\ Reqs /\ ~Free(p)
    BY DEF AdvanceCourse, Close, CancelRead, Left, Sync, Settle, Declare, Cascade, AddCascade, At, TInv
  <1>2. \/ Done(p) \/ Stop(p)
        \/ \E n \in Kind(req[p]) : Become(p, <<n>>)
        \/ \E n \in Kind(req[p]), m \in Kind(req[p]) : Become(p, <<n, m>>)
    <2>1. CASE AdvanceCourse(p)
      <3>1. At(p, "course") /\ Arg(p) \in {"ACCEPTED", "AT_RESTAURANT", "IN_DELIVERY", "COMPLETED"}
        BY <1>1, <2>1, Held DEF AdvanceCourse
      <3>2. <<"courseW", Arg(p)>> \in Kind(req[p])
        BY <1>1, <3>1, HeldKind DEF OrderOps
      <3> QED BY <2>1, <3>2 DEF AdvanceCourse
    <2>2. CASE Close(p)
      <3>1. At(p, "close") /\ Arg(p) \in {"course", "courseW"}
        BY <1>1, <2>2, Held DEF Close
      <3>2. <<Arg(p), "COMPLETED">> \in Kind(req[p])
        BY <1>1, <3>1, HeldKind DEF OrderOps
      <3> QED BY <2>2, <3>2 DEF Close
    <2>3. CASE CancelRead(p)
      <3>1. At(p, "cancel")
        BY <2>3 DEF CancelRead
      <3>2. Op("cancelW") \in Kind(req[p])
        BY <1>1, <3>1, HeldKind DEF CourseOps, Op
      <3> QED BY <2>3, <3>2 DEF CancelRead
    <2>4. CASE Left(p)
      <3>1. At(p, "left")
        BY <2>4 DEF Left
      <3>2. Op("leftW") \in Kind(req[p])
        BY <1>1, <3>1, HeldKind DEF OrderOps, Op
      <3> QED BY <2>4, <3>2 DEF Left
    <2>5. CASE Sync(p)
      <3>1. At(p, "sync") /\ Arg(p) \in Stages
        BY <1>1, <2>5, Held DEF Sync
      <3>2. <<"syncW", Arg(p)>> \in Kind(req[p])
        BY <1>1, <3>1, HeldKind DEF OrderOps
      <3> QED BY <2>5, <3>2 DEF Sync
    <2>6. CASE Settle(p)
      <3>1. At(p, "settle")
        BY <2>6 DEF Settle
      <3>2. Op("declare") \in Kind(req[p]) /\ <<"sync", "COLLECTED">> \in Kind(req[p]) /\ <<"sync", "COMPLETED">> \in Kind(req[p])
        BY <1>1, <3>1, HeldKind DEF OrderOps, Op, Stages
      <3> QED BY <2>6, <3>2 DEF Settle
    <2>7. CASE Declare(p)
      <3>1. At(p, "declare")
        BY <2>7 DEF Declare
      <3>2. Op("declareW") \in Kind(req[p])
        BY <1>1, <3>1, HeldKind DEF OrderOps, Op
      <3> QED BY <2>7, <3>2 DEF Declare
    <2>8. CASE Cascade(p)
      <3> DEFINE a == IF commande[Mine(p)] = "COLLECTED" THEN "COMPLETED" ELSE ""
      <3>1. At(p, "cascade") /\ (Done(p) \/ Become(p, <<<<"paidW", a>>>>)) /\ a \in {"", "COMPLETED"}
        BY <2>8 DEF Cascade
      <3> HIDE DEF a
      <3>2. <<"paidW", a>> \in Kind(req[p])
        BY <1>1, <3>1, HeldKind DEF PayOps
      <3> QED BY <3>1, <3>2
    <2>9. CASE AddCascade(p)
      <3> DEFINE a == IF Covered(Mine(p)) /\ commande[Mine(p)] = "COLLECTED" THEN "COMPLETED" ELSE ""
      <3>1. At(p, "addCascade") /\ Become(p, <<<<"paidW", a>>>>) /\ a \in {"", "COMPLETED"}
        BY <2>9 DEF AddCascade
      <3> HIDE DEF a
      <3>2. <<"paidW", a>> \in Kind(req[p])
        BY <1>1, <3>1, HeldKind DEF OrderOps
      <3> QED BY <3>1, <3>2
    <2> QED BY <2>1, <2>2, <2>3, <2>4, <2>5, <2>6, <2>7, <2>8, <2>9
  <1>3. Reqs'
    <2>1. ASSUME NEW n \in Kind(req[p]), Become(p, <<n>>) PROVE Reqs'
      BY <1>1, <2>1, OneIn, BecomeOK
    <2>2. ASSUME NEW n \in Kind(req[p]), NEW m \in Kind(req[p]), Become(p, <<n, m>>) PROVE Reqs'
      BY <1>1, <2>2, TwoIn, BecomeOK
    <2> QED BY <1>1, <1>2, <2>1, <2>2, DoneOK, StopOK
  <1> QED BY <1>1, <1>3, Still

(* The rows of a declaration: one for each means of payment, with keys     *)
(* that no row and no handler has.                                         *)
LEMMA Declared ==
  ASSUME TInv, NEW p \in Req, DeclareWrite(p)
  PROVE  \/ Pending(Mine(p)) # {} /\ UNCHANGED paiement
         \/ \E b \in Batches : \E key \in [DOMAIN b -> Fresh] :
              /\ ~Refused(Mine(p), b)
              /\ \A m, n \in DOMAIN b : key[m] = key[n] => m = n
              /\ paiement' = [i \in Paiement |-> paiement'[i]]
              /\ \A m \in DOMAIN b : paiement'[key[m]] = [order |-> Mine(p), mode |-> m, montant |-> b[m]]
              /\ \A i \in Paiement : (\A m \in DOMAIN b : key[m] # i) => paiement'[i] = paiement[i]
  <1>1. PICK b \in Batches :
          IF Refused(Mine(p), b) THEN UNCHANGED paiement
          ELSE LET key == CHOOSE f \in [DOMAIN b -> Fresh] : \A m, n \in DOMAIN b : f[m] = f[n] => m = n
               IN  paiement' = [i \in Paiement |->
                    IF \E m \in DOMAIN b : key[m] = i
                    THEN LET m == CHOOSE m \in DOMAIN b : key[m] = i
                         IN  [order |-> Mine(p), mode |-> m, montant |-> b[m]]
                    ELSE paiement[i]]
    BY DEF DeclareWrite
  <1>2. Mine(p) \in Order
    <2>1. At(p, "declareW") /\ ~Free(p) /\ Reqs
      BY DEF DeclareWrite, At, TInv
    <2> QED BY <2>1, Held DEF OrderNames
  <1>3. CASE ~Refused(Mine(p), b)
    <2>1. \E f \in [DOMAIN b -> Fresh] : \A m, n \in DOMAIN b : f[m] = f[n] => m = n
      BY <1>2, <1>3, KeysSuffice
    <2>2. PICK key : key = CHOOSE f \in [DOMAIN b -> Fresh] : \A m, n \in DOMAIN b : f[m] = f[n] => m = n
      OBVIOUS
    <2>3. key \in [DOMAIN b -> Fresh] /\ \A m, n \in DOMAIN b : key[m] = key[n] => m = n
      BY <2>1, <2>2
    <2>4. paiement' = [i \in Paiement |->
                    IF \E m \in DOMAIN b : key[m] = i
                    THEN LET m == CHOOSE m \in DOMAIN b : key[m] = i
                         IN  [order |-> Mine(p), mode |-> m, montant |-> b[m]]
                    ELSE paiement[i]]
      BY <1>1, <1>3, <2>2
    <2>5. Fresh \subseteq Paiement
      BY DEF Fresh
    <2>6. ASSUME NEW m \in DOMAIN b PROVE paiement'[key[m]] = [order |-> Mine(p), mode |-> m, montant |-> b[m]]
      <3>1. PICK i \in Paiement : i = key[m]
        BY <2>3, <2>5
      <3>2. (CHOOSE n \in DOMAIN b : key[n] = i) = m
        BY <2>3, <3>1
      <3> QED BY <2>4, <3>1, <3>2
    <2>7. paiement' = [i \in Paiement |-> paiement'[i]] /\ \A i \in Paiement : (\A m \in DOMAIN b : key[m] # i) => paiement'[i] = paiement[i]
      BY <2>4
    <2> QED BY <1>3, <2>3, <2>6, <2>7
  <1>4. CASE Refused(Mine(p), b)
    BY <1>1, <1>4 DEF Refused
  <1> QED BY <1>3, <1>4

LEMMA DeclareTInv == ASSUME TInv, NEW p \in Req, DeclareWrite(p) PROVE TInv'
  <1>1. UNCHANGED <<courseVars, orderVars, encaisse, worldVars>> /\ ~Free(p) /\ Done(p) /\ Reqs /\ At(p, "declareW")
    BY DEF DeclareWrite, At, TInv
  <1>2. Reqs' /\ Mine(p) \in Order
    BY <1>1, DoneOK, Held DEF OrderNames
  <1>3. CASE UNCHANGED paiement
    BY <1>1, <1>2, <1>3, Still DEF moneyVars
  <1>4. ASSUME NEW b \in Batches, NEW key \in [DOMAIN b -> Fresh],
               ~Refused(Mine(p), b),
               \A m, n \in DOMAIN b : key[m] = key[n] => m = n,
               paiement' = [i \in Paiement |-> paiement'[i]],
               \A m \in DOMAIN b : paiement'[key[m]] = [order |-> Mine(p), mode |-> m, montant |-> b[m]],
               \A i \in Paiement : (\A m \in DOMAIN b : key[m] # i) => paiement'[i] = paiement[i]
        PROVE  TInv'
    <2>1. DOMAIN b \subseteq Mode /\ \A m \in DOMAIN b : b[m] \in 1 .. TOTAL
      BY DEF Batches
    <2>2. \A m \in DOMAIN b : key[m] \in Paiement
      BY DEF Fresh
    <2>3. ASSUME NEW i \in Paiement PROVE paiement'[i] \in Row \cup {FreeRow}
      <3>1. CASE \E m \in DOMAIN b : key[m] = i
        <4>1. PICK m \in DOMAIN b : key[m] = i
          BY <3>1
        <4>2. PICK o \in Order : o = Mine(p)
          BY <1>2
        <4>3. paiement'[i] = [order |-> o, mode |-> m, montant |-> b[m]]
          BY <1>4, <4>1, <4>2
        <4> QED BY <2>1, <4>3 DEF Row
      <3>2. CASE \A m \in DOMAIN b : key[m] # i
        BY <1>4, <3>2 DEF TInv
      <3> QED BY <3>1, <3>2
    <2>4. \A i \in Paiement : \/ paiement'[i] = paiement[i] /\ \A m \in DOMAIN b : key[m] # i
                              \/ \E m \in DOMAIN b : /\ key[m] = i /\ paiement'[i].order = Mine(p)
                                                     /\ paiement'[i].mode = m
      <3>1. ASSUME NEW m \in DOMAIN b PROVE paiement'[key[m]].order = Mine(p) /\ paiement'[key[m]].mode = m
        <4>1. PICK r : r = [order |-> Mine(p), mode |-> m, montant |-> b[m]]
          OBVIOUS
        <4>2. paiement'[key[m]] = r /\ r.order = Mine(p) /\ r.mode = m
          BY <1>4, <4>1
        <4> QED BY <4>2
      <3> QED BY <1>4, <3>1
    <2>5. \A i \in Paiement, m \in DOMAIN b : ~(paiement[i].order = Mine(p) /\ paiement[i].mode = m)
      BY <1>4 DEF Refused, Pending
    <2>6. ASSUME NEW i \in Paiement, NEW j \in Paiement, paiement'[i] # FreeRow,
                 paiement'[i].order = paiement'[j].order, paiement'[i].mode = paiement'[j].mode
          PROVE  i = j
      <3>1. CASE paiement'[i] = paiement[i] /\ paiement'[j] = paiement[j]
        BY <2>6, <3>1 DEF TInv, TypeOK
      <3>2. CASE paiement'[i] = paiement[i] /\ paiement'[j] # paiement[j]
        BY <2>4, <2>5, <2>6, <3>2
      <3>3. CASE paiement'[j] = paiement[j] /\ paiement'[i] # paiement[i]
        BY <2>4, <2>5, <2>6, <3>3
      <3>4. CASE paiement'[i] # paiement[i] /\ paiement'[j] # paiement[j]
        BY <1>4, <2>4, <2>6, <3>4
      <3> QED BY <3>1, <3>2, <3>3, <3>4
    <2>7. paiement' \in [Paiement -> Row \cup {FreeRow}]
      BY <1>4, <2>3
    <2> QED BY <1>1, <1>2, <2>6, <2>7 DEF TInv, TypeOK, courseVars, orderVars, worldVars, Row, FreeRow
  <1> QED BY <1>3, <1>4, Declared

LEMMA CourseWritesTInv ==
  ASSUME TInv, NEW p \in Req, CourseWrite(p) \/ LeftWrite(p) \/ AlertWrite(p) PROVE TInv'
  <1>1. /\ ~Free(p) /\ Reqs /\ Done(p) /\ UNCHANGED <<fleet, orderVars, moneyVars, turbo, dropped>>
        /\ alerted \in BOOLEAN /\ bells \in Nat /\ statut \in DOMAIN CourseRank \cup {"CANCELLED"}
    BY DEF CourseWrite, LeftWrite, AlertWrite, At, TInv, TypeOK, worldVars
  <1>2. Reqs'
    BY <1>1, DoneOK
  <1>3. DOMAIN CourseRank = {"PENDING_ASSIGNMENT", "ACCEPTED", "AT_RESTAURANT", "IN_DELIVERY", "COMPLETED"}
    BY DEF CourseRank
  <1>4. statut' \in DOMAIN CourseRank \cup {"CANCELLED"}
    <2>1. CASE CourseWrite(p)
      <3>1. Arg(p) \in {"ACCEPTED", "AT_RESTAURANT", "IN_DELIVERY", "COMPLETED"}
        BY <1>1, <2>1, Held DEF CourseWrite
      <3> QED BY <1>3, <2>1, <3>1 DEF CourseWrite
    <2>2. CASE LeftWrite(p) \/ AlertWrite(p)
      BY <1>1, <2>2 DEF LeftWrite, AlertWrite, courseVars
    <2> QED BY <2>1, <2>2
  <1>5. alerted' \in BOOLEAN
    <2>1. alerted' = alerted \/ alerted' = TRUE
      BY Zenon DEF CourseWrite, LeftWrite, AlertWrite, courseVars
    <2> QED BY <1>1, <2>1, Zenon
  <1>6. bells' = bells \/ bells' = bells + 1
    <2>1. CASE CourseWrite(p) \/ LeftWrite(p)
      BY <2>1 DEF CourseWrite, LeftWrite, worldVars
    <2>2. CASE AlertWrite(p)
      BY <2>2, Zenon DEF AlertWrite
    <2> QED BY <2>1, <2>2
  <1>7. bells' \in Nat
    BY <1>1, <1>6
  <1> QED BY <1>1, <1>2, <1>4, <1>5, <1>7 DEF TInv, TypeOK, orderVars, moneyVars, Row, FreeRow

LEMMA OrderWritesTInv ==
  ASSUME TInv, NEW p \in Req,
         \/ PickUpWrite(p) \/ CancelWrite(p) \/ SyncWrite(p) \/ ConfirmWrite(p) \/ FailWrite(p)
         \/ AdvanceDelivery(p) \/ DeliveryWrite(p) \/ AttemptWrite(p) \/ DropWrite(p)
  PROVE  TInv'
  <1> DEFINE D == {"PENDING", "IN_ROUTE", "ARRIVED", "DELIVERED", "FAILED", "CANCELLED"}
             O == {"READY", "PICKED_UP", "COLLECTED", "COMPLETED", "CANCELLED"}
  <1>1. /\ D = DOMAIN DeliveryRank \cup {"FAILED", "CANCELLED"} /\ O = DOMAIN OrderRank \cup {"CANCELLED"}
        /\ DOMAIN CourseRank = {"PENDING_ASSIGNMENT", "ACCEPTED", "AT_RESTAURANT", "IN_DELIVERY", "COMPLETED"}
    BY DEF DeliveryRank, OrderRank, CourseRank
  <1>2. /\ ~Free(p) /\ Reqs /\ (Done(p) \/ Become(p, <<Op("left")>>))
        /\ UNCHANGED <<fleet, alerted, payee, moneyVars, worldVars>>
        /\ livraison \in [Order -> D] /\ commande \in [Order -> O] /\ attempts \in [Order -> 0 .. MaxCode]
        /\ statut \in DOMAIN CourseRank \cup {"CANCELLED"}
    BY <1>1 DEF PickUpWrite, CancelWrite, SyncWrite, ConfirmWrite, FailWrite, AdvanceDelivery, DeliveryWrite,
       AttemptWrite, DropWrite, At, TInv, TypeOK, courseVars
  <1>3. Reqs'
    <2>1. CASE Done(p)
      BY <1>2, <2>1, DoneOK
    <2>2. CASE Become(p, <<Op("left")>>) /\ DropWrite(p)
      <3>1. Kind(req[p]) = OrderOps
        BY <1>2, <2>2, HeldKind DEF DropWrite
      <3>2. Op("left") \in Kind(req[p])
        BY <3>1 DEF OrderOps, Op
      <3> QED BY <1>2, <2>2, <3>2, OneIn, BecomeOK
    <2> QED BY <1>2, <2>1, <2>2 DEF PickUpWrite, CancelWrite, SyncWrite, ConfirmWrite, FailWrite, AdvanceDelivery,
              DeliveryWrite, AttemptWrite
  <1>4. livraison' \in [Order -> D]
    <2>1. CASE PickUpWrite(p) \/ SyncWrite(p) \/ AttemptWrite(p)
      BY <1>2, <2>1 DEF PickUpWrite, SyncWrite, AttemptWrite
    <2>2. CASE CancelWrite(p)
      BY <1>2, <2>2 DEF CancelWrite
    <2>3. CASE ConfirmWrite(p) \/ FailWrite(p) \/ DropWrite(p)
      BY <1>2, <2>3 DEF ConfirmWrite, FailWrite, DropWrite
    <2>4. CASE AdvanceDelivery(p) \/ DeliveryWrite(p)
      <3>1. Arg(p) \in D
        BY <1>2, <2>4, Held DEF AdvanceDelivery, DeliveryWrite
      <3>2. livraison' = livraison \/ livraison' = [livraison EXCEPT ![Mine(p)] = Arg(p)]
        BY <2>4 DEF AdvanceDelivery, DeliveryWrite
      <3> HIDE DEF D
      <3> QED BY <1>2, <3>1, <3>2
    <2> QED BY <2>1, <2>2, <2>3, <2>4
  <1>5. commande' \in [Order -> O]
    <2>1. CASE AdvanceDelivery(p) \/ DeliveryWrite(p) \/ AttemptWrite(p) \/ DropWrite(p)
      BY <1>2, <2>1 DEF AdvanceDelivery, DeliveryWrite, AttemptWrite, DropWrite
    <2>2. CASE PickUpWrite(p)
      BY <1>2, <2>2 DEF PickUpWrite
    <2>3. CASE CancelWrite(p)
      BY <1>2, <2>3 DEF CancelWrite
    <2>4. CASE FailWrite(p)
      BY <1>2, <2>4 DEF FailWrite
    <2>5. CASE SyncWrite(p) \/ ConfirmWrite(p)
      <3>1. Arg(p) \in O
        BY <1>2, <2>5, Held DEF SyncWrite, ConfirmWrite, Stages
      <3>2. commande' = [commande EXCEPT ![Mine(p)] = Arg(p)]
        BY <2>5 DEF SyncWrite, ConfirmWrite
      <3> HIDE DEF O
      <3> QED BY <1>2, <3>1, <3>2
    <2> QED BY <2>1, <2>2, <2>3, <2>4, <2>5
  <1>6. attempts' \in [Order -> 0 .. MaxCode]
    <2>1. CASE AttemptWrite(p)
      BY <1>2, <2>1, Held DEF AttemptWrite
    <2>2. CASE UNCHANGED attempts
      BY <1>2, <2>2
    <2> QED BY <2>1, <2>2 DEF PickUpWrite, CancelWrite, SyncWrite, ConfirmWrite, FailWrite, AdvanceDelivery,
              DeliveryWrite, DropWrite
  <1>7. statut' \in DOMAIN CourseRank \cup {"CANCELLED"}
    BY <1>1, <1>2 DEF PickUpWrite, CancelWrite, SyncWrite, ConfirmWrite, FailWrite, AdvanceDelivery, DeliveryWrite,
       AttemptWrite, DropWrite, courseVars
  <1> QED BY <1>1, <1>2, <1>3, <1>4, <1>5, <1>6, <1>7 DEF TInv, TypeOK, moneyVars, worldVars, Row, FreeRow

LEMMA MoneyTInv ==
  ASSUME TInv, NEW p \in Req, ClaimPaiement(p) \/ AddRow(p) \/ PaidWrite(p) \/ Refund(p) PROVE TInv'
  <1> DEFINE O == {"READY", "PICKED_UP", "COLLECTED", "COMPLETED", "CANCELLED"}
             Paid == payee' = payee \/ \E v \in BOOLEAN : payee' = [payee EXCEPT ![Mine(p)] = v]
  <1>1. O = DOMAIN OrderRank \cup {"CANCELLED"}
    BY DEF OrderRank
  <1>2. /\ ~Free(p) /\ Reqs /\ (Done(p) \/ Stop(p)) /\ UNCHANGED <<courseVars, livraison, attempts, worldVars>>
        /\ commande \in [Order -> O] /\ encaisse \in [Order -> 0 .. TOTAL] /\ payee \in [Order -> BOOLEAN]
        /\ paiement \in [Paiement -> Row \cup {FreeRow}]
    BY <1>1 DEF ClaimPaiement, AddRow, PaidWrite, Refund, At, TInv, TypeOK, orderVars
  <1>3. Reqs'
    BY <1>2, DoneOK, StopOK
  <1>4. encaisse' \in [Order -> 0 .. TOTAL]
    <2>1. CASE UNCHANGED encaisse
      BY <1>2, <2>1
    <2>2. CASE PaidWrite(p)
      BY <2>1, <2>2 DEF PaidWrite, moneyVars
    <2>3. CASE AddRow(p)
      <3>1. Arg(p) \in 1 .. TOTAL /\ Mine(p) \in Order
        BY <1>2, <2>3, Held DEF AddRow, OrderNames
      <3>2. Min({TOTAL, encaisse[Mine(p)] + Arg(p)}) \in 0 .. TOTAL
        <4>1. encaisse[Mine(p)] + Arg(p) \in Nat
          BY <1>2, <3>1 DEF TOTAL
        <4> QED BY <4>1, MinType
      <3>3. encaisse' = [encaisse EXCEPT ![Mine(p)] = Min({TOTAL, encaisse[Mine(p)] + Arg(p)})]
        BY <2>3 DEF AddRow
      <3> QED BY <1>2, <3>2, <3>3
    <2>4. CASE Refund(p) /\ ~UNCHANGED encaisse
      <3>1. Mine(p) \in Order
        BY <1>2, <2>4, Held DEF Refund, OrderNames
      <3>2. PICK m \in 1 .. encaisse[Mine(p)] : encaisse' = [encaisse EXCEPT ![Mine(p)] = @ - m]
        BY <2>4 DEF Refund
      <3>3. encaisse[Mine(p)] - m \in 0 .. TOTAL
        BY <1>2, <3>1 DEF TOTAL
      <3> QED BY <1>2, <3>2, <3>3
    <2>5. CASE ClaimPaiement(p) /\ ~UNCHANGED encaisse
      <3> DEFINE i == req[p].row
      <3>1. Mine(p) \in Order /\ i \in Paiement
        BY <1>2, <2>5, Held DEF ClaimPaiement, OrderNames
      <3>2. /\ paiement[i] # FreeRow
            /\ encaisse' = [encaisse EXCEPT ![Mine(p)] = Min({TOTAL, @ + paiement[i].montant})]
        BY <2>5 DEF ClaimPaiement, moneyVars
      <3>3. paiement[i].montant \in 1 .. TOTAL
        BY <1>2, <3>1, <3>2 DEF Row
      <3>4. encaisse[Mine(p)] + paiement[i].montant \in Nat
        BY <1>2, <3>1, <3>3 DEF TOTAL
      <3>5. Min({TOTAL, encaisse[Mine(p)] + paiement[i].montant}) \in 0 .. TOTAL
        BY <3>4, MinType
      <3> QED BY <1>2, <3>2, <3>5
    <2> QED BY <2>1, <2>2, <2>3, <2>4, <2>5
  <1>5. \/ UNCHANGED paiement
        \/ \E i \in Paiement : paiement' = [paiement EXCEPT ![i] = FreeRow]
    <2>1. CASE ClaimPaiement(p)
      <3>1. req[p].row \in Paiement
        BY <1>2, <2>1, Held DEF ClaimPaiement
      <3> QED BY <2>1, <3>1 DEF ClaimPaiement, moneyVars
    <2> QED BY <2>1 DEF AddRow, PaidWrite, Refund, moneyVars
  <1>6. /\ paiement' \in [Paiement -> Row \cup {FreeRow}]
        /\ \A i \in Paiement : paiement'[i] = paiement[i] \/ paiement'[i] = FreeRow
    BY <1>2, <1>5
  <1>7. ASSUME NEW i \in Paiement, NEW j \in Paiement, paiement'[i] # FreeRow,
               paiement'[i].order = paiement'[j].order, paiement'[i].mode = paiement'[j].mode
        PROVE  i = j
    <2>1. paiement'[i] = paiement[i] /\ paiement'[i].order \in Order
      BY <1>6, <1>7 DEF Row
    <2>2. FreeRow.order = NONE
      BY DEF FreeRow
    <2>3. paiement'[j] = paiement[j]
      BY <1>6, <1>7, <2>1, <2>2, NoneAssumption
    <2> QED BY <1>7, <2>1, <2>3 DEF TInv, TypeOK
  <1>8. Paid
    <2>1. CASE ClaimPaiement(p) \/ AddRow(p)
      BY <2>1 DEF ClaimPaiement, AddRow, orderVars
    <2>2. CASE PaidWrite(p)
      BY <2>2, Zenon DEF PaidWrite
    <2>3. CASE Refund(p)
      <3> DEFINE full == encaisse'[Mine(p)] >= TOTAL
      <3>1. payee' = payee \/ payee' = [payee EXCEPT ![Mine(p)] = full]
        BY <2>3, Zenon DEF Refund
      <3>2. full \in BOOLEAN
        OBVIOUS
      <3> HIDE DEF full
      <3> QED BY <3>1, <3>2, Zenon
    <2> QED BY <2>1, <2>2, <2>3
  <1>9. payee' \in [Order -> BOOLEAN]
    BY <1>2, <1>8, Zenon
  <1>10. commande' \in [Order -> O]
    <2>1. CASE PaidWrite(p)
      <3>1. Arg(p) \in {"", "COMPLETED"}
        BY <1>2, <2>1, Held DEF PaidWrite
      <3> QED BY <1>2, <2>1, <3>1 DEF PaidWrite
    <2> QED BY <1>2, <2>1 DEF ClaimPaiement, AddRow, Refund, orderVars
  <1> HIDE DEF O, Paid
  <1> QED BY <1>1, <1>2, <1>3, <1>4, <1>6, <1>7, <1>9, <1>10 DEF TInv, TypeOK, courseVars, worldVars

LEMMA NextTInv == TInv /\ [Next]_vars => TInv'
  <1> SUFFICES ASSUME TInv, [Next]_vars PROVE TInv'
    OBVIOUS
  <1>1. CASE UNCHANGED vars
    BY <1>1, Still DEF vars, courseVars, orderVars, moneyVars, worldVars, TInv, Reqs, ReqOK, Kind
  <1>2. ASSUME NEW p \in Req, Starts(p) \/ Steps(p) PROVE TInv'
    BY <1>2, StartsTInv, ReadsTInv, DeclareTInv, CourseWritesTInv, OrderWritesTInv, MoneyTInv DEF Steps
  <1>3. ASSUME NEW p \in Req, Crash(p) PROVE TInv'
    <2>1. Reqs'
      BY <1>3, StopOK DEF Crash, TInv
    <2> QED BY <1>3, <2>1, Still DEF Crash
  <1>4. ASSUME NEW o \in Order, TurboMoves(o) \/ TurboDrops(o) PROVE TInv'
    <2>1. UNCHANGED <<courseVars, orderVars, moneyVars, req, bells>>
      BY <1>4 DEF TurboMoves, TurboDrops
    <2>2. Reqs'
      BY <2>1 DEF TInv, Reqs
    <2>3. turbo \in [Order -> 0 .. 5] /\ dropped \in [Order -> BOOLEAN]
      BY DEF TInv, TypeOK
    <2>4. turbo' \in [Order -> 0 .. 5]
      <3>1. CASE TurboMoves(o)
        BY <2>3, <3>1 DEF TurboMoves
      <3>2. CASE TurboDrops(o)
        BY <2>3, <3>2 DEF TurboDrops
      <3> QED BY <1>4, <3>1, <3>2
    <2>5. dropped' \in [Order -> BOOLEAN]
      <3>1. dropped' = dropped \/ dropped' = [dropped EXCEPT ![o] = TRUE]
        BY <1>4, Zenon DEF TurboMoves, TurboDrops
      <3> QED BY <2>3, <3>1, Zenon
    <2> QED BY <2>1, <2>2, <2>4, <2>5 DEF TInv, TypeOK, courseVars, orderVars, moneyVars, Row, FreeRow
  <1> QED BY <1>1, <1>2, <1>3, <1>4 DEF Next

(* Whatever the handlers interleave and wherever a backend stops, a        *)
(* handler holds statements of its kind only, on an order or a payment     *)
(* that exists, and the PENDING rows keep to their partial unique index.   *)
THEOREM Inductive == Spec => []TInv
  BY InitTInv, NextTInv, PTL DEF Spec

(* Every variable keeps its type, and no two PENDING rows are about the    *)
(* same order and means of payment, for both fleets.                       *)
THEOREM TypeCorrect == Spec => []TypeOK
  <1>1. TInv => TypeOK
    BY DEF TInv
  <1> QED BY <1>1, Inductive, PTL

-----------------------------------------------------------------------------
(* One handler at a time *)

One == \E p : Req = {p}

LEMMA AfterDone ==
  ASSUME Reqs, NEW p \in Req, ~Free(p), Done(p)
  PROVE  /\ Tail(req[p].prog) = <<>> => Free(p)'
         /\ Tail(req[p].prog) # <<>> =>
              ~Free(p)' /\ req'[p].prog = Tail(req[p].prog) /\ req'[p].order = req[p].order
  <1>1. PICK t : t = Tail(req[p].prog)
    OBVIOUS
  <1>2. ReqOK(req[p]) /\ t \in Seq(Kind(req[p])) /\ p \in DOMAIN req
    BY <1>1, HeadTail DEF Reqs
  <1>3. <<>> \o t = t
    BY <1>2, ConcatEmptySeq
  <1>4. PICK r : r = [req[p] EXCEPT !.prog = t]
    OBVIOUS
  <1>5. r.prog = t /\ r.order = req[p].order
    BY <1>2, <1>4 DEF ReqOK
  <1>6. req' = [req EXCEPT ![p] = IF r.prog = <<>> THEN Idle ELSE r]
    BY <1>1, <1>3, <1>4 DEF Done, Become, Goto
  <1>7. req'[p] = IF t = <<>> THEN Idle ELSE r
    BY <1>2, <1>5, <1>6
  <1>8. CASE t = <<>>
    <2>1. req'[p].prog = <<>>
      BY <1>7, <1>8 DEF Idle
    <2> QED BY <1>1, <1>8, <2>1 DEF Free
  <1>9. CASE t # <<>>
    BY <1>1, <1>5, <1>7, <1>9 DEF Free
  <1> QED BY <1>8, <1>9

LEMMA AfterBecome ==
  ASSUME Reqs, NEW p \in Req, ~Free(p), NEW x, Become(p, <<x>>)
  PROVE  /\ ~Free(p)' /\ req'[p].order = req[p].order
         /\ Head(req'[p].prog) = x /\ Tail(req'[p].prog) = Tail(req[p].prog)
  <1>1. PICK t : t = Tail(req[p].prog)
    OBVIOUS
  <1>2. ReqOK(req[p]) /\ t \in Seq(Kind(req[p])) /\ p \in DOMAIN req
    BY <1>1, HeadTail DEF Reqs
  <1>3. PICK s : s = <<x>> \o t
    OBVIOUS
  <1>4. s # <<>> /\ Head(s) = x /\ Tail(s) = t
    <2> DEFINE S == Kind(req[p]) \cup {x}
    <2>1. t \in Seq(S) /\ <<x>> \in Seq(S)
      <3>1. Kind(req[p]) \subseteq S /\ x \in S
        OBVIOUS
      <3> HIDE DEF S
      <3> QED BY <1>2, <3>1, SeqGrows, OneIn
    <2> HIDE DEF S
    <2>2. /\ s \in Seq(S) /\ Len(s) = 1 + Len(t)
          /\ \A i \in 1 .. 1 + Len(t) : s[i] = IF i <= 1 THEN <<x>>[i] ELSE t[i - 1]
      BY <1>3, <2>1, ConcatProperties
    <2>3. Len(t) \in Nat
      BY <2>1, LenProperties
    <2>4. s # <<>> /\ s[1] = x
      BY <2>2, <2>3
    <2>5. Tail(s) \in Seq(S) /\ Len(Tail(s)) = Len(t) /\ \A i \in 1 .. Len(t) : Tail(s)[i] = s[i + 1]
      BY <2>2, <2>3, <2>4, HeadTailProperties
    <2>6. \A i \in 1 .. Len(t) : Tail(s)[i] = t[i]
      BY <2>2, <2>3, <2>5
    <2>7. Tail(s) = t
      BY <2>1, <2>5, <2>6, SeqEqual
    <2>8. Head(s) = s[1]
      BY <2>2, <2>4
    <2> QED BY <2>4, <2>7, <2>8
  <1>5. PICK r : r = [req[p] EXCEPT !.prog = s]
    OBVIOUS
  <1>6. r.prog = s /\ r.order = req[p].order
    BY <1>2, <1>5 DEF ReqOK
  <1>7. req' = [req EXCEPT ![p] = IF r.prog = <<>> THEN Idle ELSE r]
    BY <1>1, <1>3, <1>5 DEF Become, Goto
  <1>8. req'[p] = r
    BY <1>2, <1>4, <1>6, <1>7
  <1> QED BY <1>1, <1>4, <1>6, <1>8 DEF Free

LEMMA AfterBegin ==
  ASSUME Reqs, NEW p \in Req, NEW o, NEW s, s # <<>>, Begin(p, o, s)
  PROVE  ~Free(p)' /\ req'[p].order = o /\ req'[p].prog = s
  <1>1. PICK r : r = [Idle EXCEPT !.order = o, !.prog = s]
    OBVIOUS
  <1>2. r.prog = s /\ r.order = o
    BY <1>1 DEF Idle
  <1>3. req'[p] = r
    BY <1>1, <1>2 DEF Begin, Goto, Reqs
  <1> QED BY <1>2, <1>3 DEF Free

(* Each tail, its first statement and what follows it.                     *)
LEMMA Tails ==
  /\ TransitNext # <<>> /\ Head(TransitNext) = <<"delivery", "IN_ROUTE">> /\ Tail(TransitNext) = PickedNext
  /\ PickedNext # <<>> /\ Head(PickedNext) = <<"sync", "PICKED_UP">> /\ Tail(PickedNext) = <<>>
  /\ HandedNext # <<>> /\ Head(HandedNext) = <<"close", "course">> /\ Tail(HandedNext) = SettleNext
  /\ SettleNext # <<>> /\ Head(SettleNext) = <<"settle", "">> /\ Tail(SettleNext) = <<>>
  /\ CloseNext # <<>> /\ Head(CloseNext) = <<"close", "course">> /\ Tail(CloseNext) = <<>>
  /\ HouseNext # <<>> /\ Head(HouseNext) = <<"close", "courseW">> /\ Tail(HouseNext) = <<>>
  /\ CollectNext # <<>> /\ Head(CollectNext) = <<"sync", "COLLECTED">> /\ Tail(CollectNext) = <<>>
  /\ CollectThen # <<>> /\ Head(CollectThen) = <<"sync", "COLLECTED">> /\ Tail(CollectThen) = CloseNext
  /\ CompleteThen # <<>> /\ Head(CompleteThen) = <<"sync", "COMPLETED">> /\ Tail(CompleteThen) = CloseNext
  /\ DeclareThen # <<>> /\ Head(DeclareThen) = <<"declare", "">> /\ Tail(DeclareThen) = CollectThen
  /\ DeclareHouse # <<>> /\ Head(DeclareHouse) = <<"declare", "">> /\ Tail(DeclareHouse) = HouseNext
  /\ CascadeNext # <<>> /\ Head(CascadeNext) = <<"cascade", "">> /\ Tail(CascadeNext) = <<>>
  /\ AddNext # <<>> /\ Head(AddNext) = <<"addCascade", "">> /\ Tail(AddNext) = <<>>
  /\ CancelNext # <<>> /\ Head(CancelNext) = <<"syncW", "CANCELLED">> /\ Tail(CancelNext) = <<>>
  <1>1. TransitNext # <<>> /\ Head(TransitNext) = <<"delivery", "IN_ROUTE">> /\ Tail(TransitNext) = PickedNext
    BY Part2, Zenon DEF TransitNext, PickedNext
  <1>2. PickedNext # <<>> /\ Head(PickedNext) = <<"sync", "PICKED_UP">> /\ Tail(PickedNext) = <<>>
    BY Part1, Zenon DEF PickedNext
  <1>3. HandedNext # <<>> /\ Head(HandedNext) = <<"close", "course">> /\ Tail(HandedNext) = SettleNext
    BY Part2, Zenon DEF HandedNext, SettleNext
  <1>4. SettleNext # <<>> /\ Head(SettleNext) = <<"settle", "">> /\ Tail(SettleNext) = <<>>
    BY Part1, Zenon DEF SettleNext
  <1>5. CloseNext # <<>> /\ Head(CloseNext) = <<"close", "course">> /\ Tail(CloseNext) = <<>>
    BY Part1, Zenon DEF CloseNext
  <1>6. HouseNext # <<>> /\ Head(HouseNext) = <<"close", "courseW">> /\ Tail(HouseNext) = <<>>
    BY Part1, Zenon DEF HouseNext
  <1>7. CollectNext # <<>> /\ Head(CollectNext) = <<"sync", "COLLECTED">> /\ Tail(CollectNext) = <<>>
    BY Part1, Zenon DEF CollectNext
  <1>8. CollectThen # <<>> /\ Head(CollectThen) = <<"sync", "COLLECTED">> /\ Tail(CollectThen) = CloseNext
    BY Part2, Zenon DEF CollectThen, CloseNext
  <1>9. CompleteThen # <<>> /\ Head(CompleteThen) = <<"sync", "COMPLETED">> /\ Tail(CompleteThen) = CloseNext
    BY Part2, Zenon DEF CompleteThen, CloseNext
  <1>10. DeclareThen # <<>> /\ Head(DeclareThen) = <<"declare", "">> /\ Tail(DeclareThen) = CollectThen
    <2>1. PICK x, y, z : x = <<"declare", "">> /\ y = <<"sync", "COLLECTED">> /\ z = <<"close", "course">>
      OBVIOUS
    <2>2. DeclareThen = <<x, y, z>> /\ CollectThen = <<y, z>>
      BY <2>1, Zenon DEF DeclareThen, CollectThen
    <2>3. DeclareThen # <<>> /\ Head(DeclareThen) = x /\ Tail(DeclareThen) = CollectThen
      BY <2>2, Part3, Zenon
    <2> QED BY <2>1, <2>3, Zenon
  <1>11. DeclareHouse # <<>> /\ Head(DeclareHouse) = <<"declare", "">> /\ Tail(DeclareHouse) = HouseNext
    BY Part2, Zenon DEF DeclareHouse, HouseNext
  <1>12. CascadeNext # <<>> /\ Head(CascadeNext) = <<"cascade", "">> /\ Tail(CascadeNext) = <<>>
    BY Part1, Zenon DEF CascadeNext
  <1>13. AddNext # <<>> /\ Head(AddNext) = <<"addCascade", "">> /\ Tail(AddNext) = <<>>
    BY Part1, Zenon DEF AddNext
  <1>14. CancelNext # <<>> /\ Head(CancelNext) = <<"syncW", "CANCELLED">> /\ Tail(CancelNext) = <<>>
    BY Part1, Zenon DEF CancelNext
  <1> QED BY <1>1, <1>2, <1>3, <1>4, <1>5, <1>6, <1>7, <1>8, <1>9, <1>10, <1>11, <1>12, <1>13, <1>14

(* The tails that settle the money of an order are told from the others.   *)
LEMMA Distinct ==
  /\ HouseNext \notin {CollectNext, CollectThen, DeclareThen} /\ CompleteThen \notin {CollectNext, CollectThen, DeclareThen}
  /\ <<>> \notin {CollectNext, CollectThen, CompleteThen, DeclareThen}
  <1>1. /\ <<"close", "courseW">> # <<"sync", "COLLECTED">> /\ <<"close", "courseW">> # <<"declare", "">>
        /\ <<"sync", "COMPLETED">> # <<"sync", "COLLECTED">> /\ <<"sync", "COMPLETED">> # <<"declare", "">>
    OBVIOUS
  <1>2. /\ Head(HouseNext) = <<"close", "courseW">> /\ Head(CompleteThen) = <<"sync", "COMPLETED">>
        /\ Head(CollectNext) = <<"sync", "COLLECTED">> /\ Head(CollectThen) = <<"sync", "COLLECTED">>
        /\ Head(DeclareThen) = <<"declare", "">>
    BY Tails, Zenon
  <1>3. CollectNext # <<>> /\ CollectThen # <<>> /\ CompleteThen # <<>> /\ DeclareThen # <<>>
    BY Tails
  <1>4. HouseNext # CollectNext /\ HouseNext # CollectThen /\ HouseNext # DeclareThen
    BY <1>1, <1>2, Zenon
  <1>5. CompleteThen # CollectNext /\ CompleteThen # CollectThen /\ CompleteThen # DeclareThen
    BY <1>1, <1>2, Zenon
  <1> QED BY <1>3, <1>4, <1>5

(* p is at statement <<n, a>> of a program for o, and t is left behind it. *)
Holds(p, n, a, t, o) ==
    /\ ~Free(p) /\ req[p].order = o
    /\ Head(req[p].prog) = <<n, a>> /\ Tail(req[p].prog) = t

Names == OrderNames \cup {"courseW", "pickupW", "cancel", "cancelW", "alertW", "claim", "cascade"}

LEMMA Pair == ASSUME NEW S, NEW T, NEW x \in S \X T PROVE x[1] \in S /\ x = <<x[1], x[2]>>
  OBVIOUS

LEMMA SomeName ==
  ASSUME Reqs, NEW p \in Req, ~Free(p)
  PROVE  \E n, a, t, o : n \in Names /\ Holds(p, n, a, t, o)
  <1>1. Head(req[p].prog) \in Kind(req[p])
    BY HeadTail DEF Reqs
  <1>2. Head(req[p].prog) \in AllOps
    BY <1>1 DEF Kind, AllOps
  <1>3. PICK x : x = Head(req[p].prog)
    OBVIOUS
  <1>4. x = <<x[1], x[2]>> /\ x[1] \in Names
    <2>1. \A S, T : x \in S \X T /\ S \subseteq Names => x = <<x[1], x[2]>> /\ x[1] \in Names
      BY Pair
    <2>2. x \in AllOps
      BY <1>2, <1>3
    <2>3. CASE x \in CourseOps
      <3>1. {"courseW"} \subseteq Names /\ {"pickupW", "cancel", "cancelW", "alertW"} \subseteq Names
        BY DEF Names, OrderNames
      <3> QED BY <2>1, <2>3, <3>1, Zenon DEF CourseOps
    <2>4. CASE x \in PayOps
      <3>1. {"claim", "cascade"} \subseteq Names /\ {"paidW"} \subseteq Names
        BY DEF Names, OrderNames
      <3> QED BY <2>1, <2>4, <3>1, Zenon DEF PayOps
    <2>5. CASE x \in OrderOps
      <3>1. /\ {"course", "courseW"} \subseteq Names /\ {"close"} \subseteq Names /\ {"delivery", "deliveryW"} \subseteq Names
            /\ {"attemptW"} \subseteq Names /\ {"sync", "syncW", "confirmW"} \subseteq Names /\ {"syncW"} \subseteq Names
            /\ {"add"} \subseteq Names /\ {"paidW"} \subseteq Names
            /\ {"drop", "left", "leftW", "settle", "declare", "declareW", "failW", "addCascade", "refund"} \subseteq Names
        BY DEF Names, OrderNames
      <3> QED BY <2>1, <2>5, <3>1, Zenon DEF OrderOps
    <2> QED BY <2>2, <2>3, <2>4, <2>5 DEF AllOps
  <1> QED BY <1>3, <1>4 DEF Holds

LEMMA HoldsAt ==
  ASSUME NEW p, NEW n, NEW a, NEW t, NEW o, Holds(p, n, a, t, o)
  PROVE  /\ Mine(p) = o /\ Arg(p) = a /\ ~Free(p)
         /\ \A m : At(p, m) <=> m = n
         /\ Turn(p) <=> Follows(n, a, t) /\ Doing(n, a, t, o)
  <1>1. PICK r : r = req[p]
    OBVIOUS
  <1>2. /\ r.prog # <<>> /\ r.order = o /\ Head(r.prog) = <<n, a>> /\ Tail(r.prog) = t
        /\ Head(r.prog)[1] = n /\ Head(r.prog)[2] = a
    BY <1>1 DEF Holds, Free
  <1>3. Mine(p) = o /\ Arg(p) = a /\ ~Free(p) /\ \A m : At(p, m) <=> m = n
    BY <1>1, <1>2 DEF Mine, Arg, At, Free
  <1>4. Turn(p) <=> Follows(n, a, t) /\ Doing(n, a, t, o)
    BY <1>1, <1>2, Zenon DEF Turn, Free, Mine
  <1> QED BY <1>3, <1>4

LEMMA HoldsNext ==
  ASSUME NEW p, NEW n, NEW a, NEW t, NEW o, Holds(p, n, a, t, o)'
  PROVE  /\ Mine(p)' = o /\ Arg(p)' = a /\ ~Free(p)'
         /\ \A m : At(p, m)' <=> m = n
         /\ Turn(p)' <=> Follows(n, a, t) /\ Doing(n, a, t, o)'
  <1>1. PICK r : r = req'[p]
    OBVIOUS
  <1>2. /\ r.prog # <<>> /\ r.order = o /\ Head(r.prog) = <<n, a>> /\ Tail(r.prog) = t
        /\ Head(r.prog)[1] = n /\ Head(r.prog)[2] = a
    BY <1>1 DEF Holds, Free
  <1>3. Mine(p)' = o /\ Arg(p)' = a /\ ~Free(p)' /\ \A m : At(p, m)' <=> m = n
    BY <1>1, <1>2 DEF Mine, Arg, At, Free
  <1>4. Turn(p)' <=> Follows(n, a, t) /\ Doing(n, a, t, o)'
    BY <1>1, <1>2, Zenon DEF Turn, Free, Mine
  <1> QED BY <1>3, <1>4

LEMMA DoneHolds ==
  ASSUME Reqs, NEW p \in Req, NEW n, NEW a, NEW t, NEW o, Holds(p, n, a, t, o), Done(p)
  PROVE  /\ t = <<>> => Free(p)'
         /\ \A m, b, u : t # <<>> /\ Head(t) = <<m, b>> /\ Tail(t) = u => Holds(p, m, b, u, o)'
  BY AfterDone DEF Holds

LEMMA BecomeHolds ==
  ASSUME Reqs, NEW p \in Req, NEW n, NEW a, NEW t, NEW o, Holds(p, n, a, t, o), NEW m, NEW b, Become(p, <<<<m, b>>>>)
  PROVE  Holds(p, m, b, t, o)'
  <1>1. PICK x : x = <<m, b>>
    OBVIOUS
  <1>2. ~Free(p)' /\ req'[p].order = req[p].order /\ Head(req'[p].prog) = x /\ Tail(req'[p].prog) = Tail(req[p].prog)
    BY <1>1, AfterBecome DEF Holds
  <1> QED BY <1>1, <1>2 DEF Holds

LEMMA BeginHolds ==
  ASSUME Reqs, NEW p \in Req, NEW o, NEW s, s # <<>>, Begin(p, o, s), NEW m, NEW b, NEW t, Head(s) = <<m, b>>, Tail(s) = t
  PROVE  Holds(p, m, b, t, o)'
  BY AfterBegin DEF Holds

(* The next statement of a program finds what it relies on.                *)
LEMMA DoneTurn ==
  ASSUME Reqs, NEW p \in Req, NEW n \in Names, NEW a, NEW t, NEW o, Holds(p, n, a, t, o), Turn(p), Done(p),
         fleet' = fleet, payee'[o] = payee[o] \/ n \notin {"declare", "declareW", "deliveryW"}
  PROVE  Turn(p)'
  <1>1. Follows(n, a, t) /\ Doing(n, a, t, o)
    BY HoldsAt
  <1>2. CASE t = <<>>
    BY <1>2, DoneHolds DEF Turn
  <1>3. CASE t # <<>>
    <2>1. \A m, b, u : Head(t) = <<m, b>> /\ Tail(t) = u => Holds(p, m, b, u, o)'
      BY <1>3, DoneHolds, Zenon
    <2>2. \A m, b, u : Head(t) = <<m, b>> /\ Tail(t) = u /\ Follows(m, b, u) /\ Doing(m, b, u, o)' => Turn(p)'
      BY <2>1, HoldsNext, Zenon
    <2>3. On("CHICKEN_NATION")' <=> On("CHICKEN_NATION")
      BY DEF On
    <2>4. ASSUME t = TransitNext, ~On("CHICKEN_NATION") PROVE Turn(p)'
      <3>1. Head(t) = <<"delivery", "IN_ROUTE">> /\ Tail(t) = PickedNext
        BY <2>4, Tails, Zenon
      <3>2. Follows("delivery", "IN_ROUTE", PickedNext)
        BY DEF Follows
      <3>3. Doing("delivery", "IN_ROUTE", PickedNext, o)'
        BY <2>3, <2>4, Distinct DEF Doing
      <3> QED BY <2>2, <3>1, <3>2, <3>3, Zenon
    <2>5. ASSUME t = PickedNext, ~On("CHICKEN_NATION") PROVE Turn(p)'
      <3>1. Head(t) = <<"sync", "PICKED_UP">> /\ Tail(t) = <<>>
        BY <2>5, Tails, Zenon
      <3>2. Follows("sync", "PICKED_UP", <<>>)
        BY DEF Follows
      <3>3. Doing("sync", "PICKED_UP", <<>>, o)'
        BY <2>3, <2>5, Distinct DEF Doing
      <3> QED BY <2>2, <3>1, <3>2, <3>3, Zenon
    <2>6. ASSUME t = HandedNext, ~On("CHICKEN_NATION") PROVE Turn(p)'
      <3>1. Head(t) = <<"close", "course">> /\ Tail(t) = SettleNext
        BY <2>6, Tails, Zenon
      <3>2. Follows("close", "course", SettleNext)
        BY DEF Follows
      <3>3. Doing("close", "course", SettleNext, o)'
        BY <2>3, <2>6, Distinct DEF Doing
      <3> QED BY <2>2, <3>1, <3>2, <3>3, Zenon
    <2>7. ASSUME t = SettleNext, ~On("CHICKEN_NATION") PROVE Turn(p)'
      <3>1. Head(t) = <<"settle", "">> /\ Tail(t) = <<>>
        BY <2>7, Tails, Zenon
      <3>2. Follows("settle", "", <<>>)
        BY DEF Follows
      <3>3. Doing("settle", "", <<>>, o)'
        BY <2>3, <2>7, Distinct DEF Doing
      <3> QED BY <2>2, <3>1, <3>2, <3>3, Zenon
    <2>8. ASSUME t = CloseNext, ~On("CHICKEN_NATION") PROVE Turn(p)'
      <3>1. Head(t) = <<"close", "course">> /\ Tail(t) = <<>>
        BY <2>8, Tails, Zenon
      <3>2. Follows("close", "course", <<>>)
        BY DEF Follows
      <3>3. Doing("close", "course", <<>>, o)'
        BY <2>3, <2>8, Distinct DEF Doing
      <3> QED BY <2>2, <3>1, <3>2, <3>3, Zenon
    <2>9. ASSUME t = HouseNext PROVE Turn(p)'
      <3>1. Head(t) = <<"close", "courseW">> /\ Tail(t) = <<>>
        BY <2>9, Tails, Zenon
      <3>2. Follows("close", "courseW", <<>>)
        BY DEF Follows
      <3>3. Doing("close", "courseW", <<>>, o)'
        BY <2>3, <2>9, Distinct DEF Doing
      <3> QED BY <2>2, <3>1, <3>2, <3>3, Zenon
    <2>10. ASSUME t = CollectNext, ~On("CHICKEN_NATION"), ~payee'[o] PROVE Turn(p)'
      <3>1. Head(t) = <<"sync", "COLLECTED">> /\ Tail(t) = <<>>
        BY <2>10, Tails, Zenon
      <3>2. Follows("sync", "COLLECTED", <<>>)
        BY DEF Follows
      <3>3. Doing("sync", "COLLECTED", <<>>, o)'
        BY <2>3, <2>10, Distinct DEF Doing
      <3> QED BY <2>2, <3>1, <3>2, <3>3, Zenon
    <2>11. ASSUME t = CollectThen, ~On("CHICKEN_NATION"), ~payee'[o] PROVE Turn(p)'
      <3>1. Head(t) = <<"sync", "COLLECTED">> /\ Tail(t) = CloseNext
        BY <2>11, Tails, Zenon
      <3>2. Follows("sync", "COLLECTED", CloseNext)
        BY DEF Follows
      <3>3. Doing("sync", "COLLECTED", CloseNext, o)'
        BY <2>3, <2>11, Distinct DEF Doing
      <3> QED BY <2>2, <3>1, <3>2, <3>3, Zenon
    <2>12. ASSUME t = CompleteThen, ~On("CHICKEN_NATION"), payee'[o] PROVE Turn(p)'
      <3>1. Head(t) = <<"sync", "COMPLETED">> /\ Tail(t) = CloseNext
        BY <2>12, Tails, Zenon
      <3>2. Follows("sync", "COMPLETED", CloseNext)
        BY DEF Follows
      <3>3. Doing("sync", "COMPLETED", CloseNext, o)'
        BY <2>3, <2>12, Distinct DEF Doing
      <3> QED BY <2>2, <3>1, <3>2, <3>3, Zenon
    <2>13. ASSUME t = DeclareThen, ~On("CHICKEN_NATION"), ~payee'[o] PROVE Turn(p)'
      <3>1. Head(t) = <<"declare", "">> /\ Tail(t) = CollectThen
        BY <2>13, Tails, Zenon
      <3>2. Follows("declare", "", CollectThen)
        BY DEF Follows
      <3>3. Doing("declare", "", CollectThen, o)'
        BY <2>3, <2>13, Distinct DEF Doing
      <3> QED BY <2>2, <3>1, <3>2, <3>3, Zenon
    <2>14. ASSUME t = DeclareHouse PROVE Turn(p)'
      <3>1. Head(t) = <<"declare", "">> /\ Tail(t) = HouseNext
        BY <2>14, Tails, Zenon
      <3>2. Follows("declare", "", HouseNext)
        BY DEF Follows
      <3>3. Doing("declare", "", HouseNext, o)'
        BY <2>3, <2>14, Distinct DEF Doing
      <3> QED BY <2>2, <3>1, <3>2, <3>3, Zenon
    <2>15. ASSUME t = CascadeNext PROVE Turn(p)'
      <3>1. Head(t) = <<"cascade", "">> /\ Tail(t) = <<>>
        BY <2>15, Tails, Zenon
      <3>2. Follows("cascade", "", <<>>)
        BY DEF Follows
      <3>3. Doing("cascade", "", <<>>, o)'
        BY <2>3, <2>15, Distinct DEF Doing
      <3> QED BY <2>2, <3>1, <3>2, <3>3, Zenon
    <2>16. ASSUME t = AddNext PROVE Turn(p)'
      <3>1. Head(t) = <<"addCascade", "">> /\ Tail(t) = <<>>
        BY <2>16, Tails, Zenon
      <3>2. Follows("addCascade", "", <<>>)
        BY DEF Follows
      <3>3. Doing("addCascade", "", <<>>, o)'
        BY <2>3, <2>16, Distinct DEF Doing
      <3> QED BY <2>2, <3>1, <3>2, <3>3, Zenon
    <2>17. ASSUME t = CancelNext PROVE Turn(p)'
      <3>1. Head(t) = <<"syncW", "CANCELLED">> /\ Tail(t) = <<>>
        BY <2>17, Tails, Zenon
      <3>2. Follows("syncW", "CANCELLED", <<>>)
        BY DEF Follows
      <3>3. Doing("syncW", "CANCELLED", <<>>, o)'
        BY <2>3, <2>17, Distinct DEF Doing
      <3> QED BY <2>2, <3>1, <3>2, <3>3, Zenon
    <2>18. CASE n \in {"course", "courseW"}
      BY <1>1, <1>3, <2>18, <2>4, <2>7 DEF Follows, Doing
    <2>19. CASE n = "close"
      BY <1>1, <1>3, <2>19, <2>7 DEF Follows, Doing
    <2>20. CASE n = "delivery"
      BY <1>1, <1>3, <2>20, <2>5, <2>6 DEF Follows, Doing
    <2>21. CASE n = "deliveryW"
      BY <1>1, <1>3, <2>21, <2>12, <2>11, <2>13 DEF Follows, Doing
    <2>22. CASE n \in {"sync", "syncW"}
      BY <1>1, <1>3, <2>22, <2>8 DEF Follows, Doing
    <2>23. CASE n \in {"declare", "declareW"}
      BY <1>1, <1>3, <2>23, <2>10, <2>11, <2>9 DEF Follows, Doing
    <2>24. CASE n = "confirmW"
      BY <1>1, <1>3, <2>24, <2>9, <2>14 DEF Follows, Doing
    <2>25. CASE n = "failW"
      BY <1>1, <1>3, <2>25, <2>9 DEF Follows, Doing
    <2>26. CASE n = "claim"
      BY <1>1, <1>3, <2>26, <2>15 DEF Follows, Doing
    <2>27. CASE n = "add"
      BY <1>1, <1>3, <2>27, <2>16 DEF Follows, Doing
    <2>28. CASE n = "refund"
      BY <1>1, <1>3, <2>28, <2>17 DEF Follows, Doing
    <2> QED BY <1>1, <1>3, <2>18, <2>19, <2>20, <2>21, <2>22, <2>23, <2>24, <2>25, <2>26, <2>27, <2>28 DEF Follows, Names, OrderNames
  <1> QED BY <1>2, <1>3

LEMMA BecomeTurn ==
  ASSUME Reqs, NEW p \in Req, NEW n, NEW a, NEW t, NEW o, Holds(p, n, a, t, o), NEW m, NEW b, Become(p, <<<<m, b>>>>),
         Follows(m, b, t), Doing(m, b, t, o)'
  PROVE  Turn(p)'
  <1>1. Holds(p, m, b, t, o)'
    BY BecomeHolds
  <1> QED BY <1>1, HoldsNext

LEMMA FreeTurn == ASSUME NEW p \in Req, Reqs, Stop(p) PROVE Turn(p)' /\ Free(p)'
  <1>1. req'[p].prog = <<>>
    BY DEF Stop, Goto, Idle, Reqs
  <1> QED BY <1>1 DEF Turn, Free

(* The settlement of an order is the one program that grows by two.        *)
LEMMA GrownHolds ==
  ASSUME Reqs, NEW p \in Req, NEW n, NEW a, NEW o, Holds(p, n, a, <<>>, o), NEW x, NEW y, Become(p, <<x, y>>)
  PROVE  Head(req'[p].prog) = x /\ Tail(req'[p].prog) = <<y>> /\ ~Free(p)' /\ req'[p].order = o
  <1>1. <<x, y>> \o <<>> = <<x, y>>
    <2>1. \A S : x \in S /\ y \in S => <<x, y>> \o <<>> = <<x, y>>
      BY TwoIn, ConcatEmptySeq
    <2>2. x \in {x, y} /\ y \in {x, y}
      OBVIOUS
    <2> QED BY <2>1, <2>2
  <1>2. PICK r : r = [req[p] EXCEPT !.prog = <<x, y>>]
    OBVIOUS
  <1>3. ReqOK(req[p]) /\ p \in DOMAIN req /\ req[p].order = o /\ Tail(req[p].prog) = <<>>
    BY DEF Reqs, Holds
  <1>4. r.prog = <<x, y>> /\ r.order = o
    BY <1>2, <1>3 DEF ReqOK
  <1>5. r.prog # <<>> /\ Head(r.prog) = x /\ Tail(r.prog) = <<y>>
    BY <1>4, Part2, Zenon
  <1>6. req' = [req EXCEPT ![p] = IF r.prog = <<>> THEN Idle ELSE r]
    BY <1>1, <1>2, <1>3 DEF Become, Goto
  <1>7. req'[p] = r
    BY <1>3, <1>5, <1>6
  <1> QED BY <1>4, <1>5, <1>7 DEF Free

LEMMA WritesTurn ==
  ASSUME Reqs, NEW p \in Req, Turn(p),
         \/ CourseWrite(p) \/ PickUpWrite(p) \/ CancelWrite(p) \/ AlertWrite(p)
         \/ AdvanceDelivery(p) \/ DeliveryWrite(p) \/ AttemptWrite(p) \/ LeftWrite(p) \/ SyncWrite(p)
         \/ DeclareWrite(p) \/ ConfirmWrite(p) \/ FailWrite(p) \/ AddRow(p) \/ PaidWrite(p) \/ Refund(p)
  PROVE  Turn(p)'
  <1>1. Done(p) /\ ~Free(p) /\ fleet' = fleet
    BY DEF CourseWrite, PickUpWrite, CancelWrite, AlertWrite, AdvanceDelivery, DeliveryWrite, AttemptWrite, LeftWrite,
           SyncWrite, DeclareWrite, ConfirmWrite, FailWrite, AddRow, PaidWrite, Refund, At, courseVars
  <1>2. PICK n, a, t, o : n \in Names /\ Holds(p, n, a, t, o)
    BY <1>1, SomeName, Zenon
  <1>3. UNCHANGED payee \/ At(p, "paidW") \/ At(p, "refund")
    BY DEF CourseWrite, PickUpWrite, CancelWrite, AlertWrite, AdvanceDelivery, DeliveryWrite, AttemptWrite, LeftWrite,
           SyncWrite, DeclareWrite, ConfirmWrite, FailWrite, AddRow, PaidWrite, Refund, orderVars
  <1>4. payee'[o] = payee[o] \/ n \notin {"declare", "declareW", "deliveryW"}
    BY <1>2, <1>3, HoldsAt
  <1> QED BY <1>1, <1>2, <1>4, DoneTurn


LEMMA ReadsTurn ==
  ASSUME TInv, NEW p \in Req, Turn(p),
         \/ AdvanceCourse(p) \/ Close(p) \/ CancelRead(p) \/ DropWrite(p) \/ Left(p)
         \/ Sync(p) \/ Settle(p) \/ Declare(p) \/ ClaimPaiement(p) \/ Cascade(p) \/ AddCascade(p)
  PROVE  Turn(p)'
  <1>1. Reqs /\ ~Free(p) /\ fleet' = fleet /\ UNCHANGED <<statut, payee, commande>>
    BY DEF TInv, AdvanceCourse, Close, CancelRead, DropWrite, Left, Sync, Settle, Declare, ClaimPaiement, Cascade, AddCascade,
           At, courseVars, orderVars
  <1>2. PICK n, a, t, o : n \in Names /\ Holds(p, n, a, t, o)
    BY <1>1, SomeName, Zenon
  <1>3. /\ Mine(p) = o /\ Arg(p) = a
        /\ \A m : At(p, m) <=> m = n
        /\ Follows(n, a, t) /\ Doing(n, a, t, o)
    BY <1>2, HoldsAt
  <1>4. CASE Done(p)
    BY <1>1, <1>2, <1>4, DoneTurn
  <1>5. CASE Stop(p)
    BY <1>1, <1>5, FreeTurn
  <1>6. \A m, b : Become(p, <<<<m, b>>>>) /\ Follows(m, b, t) /\ Doing(m, b, t, o)' => Turn(p)'
    BY <1>1, <1>2, BecomeTurn
  <1>7. On("CHICKEN_NATION")' <=> On("CHICKEN_NATION")
    BY <1>1 DEF On
  <1>8. CASE AdvanceCourse(p) /\ ~Done(p)
    <2>1. n = "course" /\ Become(p, <<<<"courseW", a>>>>) /\ AllOver' = AllOver
      BY <1>3, <1>8 DEF AdvanceCourse, AllOver, orderVars
    <2>2. Follows("courseW", a, t)
      BY <1>3, <2>1 DEF Follows
    <2>3. Doing("courseW", a, t, o)'
      BY <1>3, <1>7, <2>1 DEF Doing
    <2> QED BY <1>6, <2>1, <2>2, <2>3
  <1>9. CASE Close(p) /\ ~Done(p)
    <2>1. n = "close" /\ Become(p, <<<<a, "COMPLETED">>>>) /\ AllOver /\ AllOver' = AllOver /\ a \in {"course", "courseW"}
      BY <1>1, <1>3, <1>9, Held DEF Close, AllOver, orderVars
    <2>2. Follows(a, "COMPLETED", t)
      BY <1>3, <2>1 DEF Follows
    <2>3. Doing(a, "COMPLETED", t, o)'
      BY <1>3, <1>7, <2>1 DEF Doing, Follows
    <2> QED BY <1>6, <2>1, <2>2, <2>3
  <1>10. CASE CancelRead(p) /\ ~Stop(p)
    <2>1. n = "cancel" /\ Become(p, <<<<"cancelW", "">>>>)
      BY <1>3, <1>10 DEF CancelRead, Op
    <2>2. Follows("cancelW", "", t)
      BY <1>3, <2>1 DEF Follows
    <2>3. Doing("cancelW", "", t, o)'
      BY <1>3, <1>7, <2>1 DEF Doing
    <2> QED BY <1>6, <2>1, <2>2, <2>3
  <1>11. CASE DropWrite(p) /\ ~Done(p)
    <2>1. n = "drop" /\ Become(p, <<<<"left", "">>>>)
      BY <1>3, <1>11 DEF DropWrite, Op
    <2>2. Follows("left", "", t)
      BY <1>3, <2>1 DEF Follows
    <2>3. Doing("left", "", t, o)'
      BY <1>3, <1>7, <2>1 DEF Doing
    <2> QED BY <1>6, <2>1, <2>2, <2>3
  <1>12. CASE Left(p) /\ ~Done(p)
    <2>1. n = "left" /\ Become(p, <<<<"leftW", "">>>>)
      BY <1>3, <1>12 DEF Left, Op
    <2>2. Follows("leftW", "", t)
      BY <1>3, <2>1 DEF Follows
    <2>3. Doing("leftW", "", t, o)'
      BY <1>3, <1>7, <2>1 DEF Doing
    <2> QED BY <1>6, <2>1, <2>2, <2>3
  <1>13. CASE Sync(p) /\ ~Done(p)
    <2>1. n = "sync" /\ Become(p, <<<<"syncW", a>>>>) /\ Lower(o, a)
      BY <1>3, <1>13 DEF Sync, Lower
    <2>2. Lower(o, a)'
      BY <1>1, <2>1 DEF Lower
    <2>3. Follows("syncW", a, t)
      BY <1>3, <2>1 DEF Follows
    <2>4. Doing("syncW", a, t, o)'
      BY <1>1, <1>3, <1>7, <2>1, <2>2 DEF Doing
    <2> QED BY <1>6, <2>1, <2>3, <2>4
  <1>14. CASE Settle(p) /\ ~Done(p)
    <2>1. n = "settle" /\ t = <<>> /\ ~On("CHICKEN_NATION")
      BY <1>3, <1>14 DEF Settle, Follows, Doing
    <2>2. CASE payee[o]
      <3>1. Become(p, <<<<"sync", "COMPLETED">>>>)
        BY <1>3, <1>14, <2>2 DEF Settle
      <3>2. Follows("sync", "COMPLETED", t)
        BY <2>1 DEF Follows
      <3>3. Doing("sync", "COMPLETED", t, o)'
        BY <1>1, <1>7, <2>1, <2>2 DEF Doing
      <3> QED BY <1>6, <3>1, <3>2, <3>3
    <2>3. CASE ~payee[o]
      <3>1. PICK x, y : x = <<"declare", "">> /\ y = <<"sync", "COLLECTED">>
        OBVIOUS
      <3>2. Become(p, <<x, y>>)
        BY <1>3, <1>14, <2>3, <3>1 DEF Settle, Op
      <3>3. Head(req'[p].prog) = x /\ Tail(req'[p].prog) = <<y>> /\ ~Free(p)' /\ req'[p].order = o
        BY <1>1, <1>2, <2>1, <3>2, GrownHolds
      <3>4. Holds(p, "declare", "", CollectNext, o)'
        BY <3>1, <3>3 DEF Holds, CollectNext
      <3>5. Follows("declare", "", CollectNext)
        BY DEF Follows
      <3>6. Doing("declare", "", CollectNext, o)'
        BY <1>1, <1>7, <2>1, <2>3 DEF Doing
      <3> QED BY <3>4, <3>5, <3>6, HoldsNext
    <2> QED BY <2>2, <2>3
  <1>15. CASE Declare(p) /\ ~Done(p)
    <2>1. n = "declare" /\ Become(p, <<<<"declareW", "">>>>) /\ Pending(o) = {}
      BY <1>3, <1>15 DEF Declare, Op
    <2>2. Pending(o)' = {}
      BY <1>15, <2>1 DEF Declare, Pending, moneyVars
    <2>3. Follows("declareW", "", t)
      BY <1>3, <2>1 DEF Follows
    <2>4. Doing("declareW", "", t, o)'
      BY <1>1, <1>3, <1>7, <2>1, <2>2 DEF Doing
    <2> QED BY <1>6, <2>1, <2>3, <2>4
  <1>16. CASE Cascade(p) /\ ~Done(p)
    <2>1. n = "cascade" /\ Become(p, <<<<"paidW", IF commande[o] = "COLLECTED" THEN "COMPLETED" ELSE "">>>>)
      BY <1>3, <1>16 DEF Cascade
    <2>2. PICK b : b = IF commande[o] = "COLLECTED" THEN "COMPLETED" ELSE ""
      OBVIOUS
    <2>3. Follows("paidW", b, t)
      BY <1>3, <2>1 DEF Follows
    <2>4. Doing("paidW", b, t, o)'
      BY <1>1, <1>3, <1>7, <2>1, <2>2 DEF Doing
    <2> QED BY <1>6, <2>1, <2>2, <2>3, <2>4
  <1>17. CASE AddCascade(p)
    <2>1. n = "addCascade"
          /\ Become(p, <<<<"paidW", IF Covered(o) /\ commande[o] = "COLLECTED" THEN "COMPLETED" ELSE "">>>>)
      BY <1>3, <1>17 DEF AddCascade
    <2>2. PICK b : b = IF Covered(o) /\ commande[o] = "COLLECTED" THEN "COMPLETED" ELSE ""
      OBVIOUS
    <2>3. Covered(o)' = Covered(o)
      BY <1>17 DEF AddCascade, Covered, moneyVars
    <2>4. Follows("paidW", b, t)
      BY <1>3, <2>1 DEF Follows
    <2>5. Doing("paidW", b, t, o)'
      BY <1>1, <1>3, <1>7, <2>1, <2>2, <2>3 DEF Doing
    <2> QED BY <1>6, <2>1, <2>2, <2>4, <2>5
  <1>18. ClaimPaiement(p) => Done(p) \/ Stop(p)
    BY DEF ClaimPaiement
  <1> QED BY <1>4, <1>5, <1>8, <1>9, <1>10, <1>11, <1>12, <1>13, <1>14, <1>15, <1>16, <1>17, <1>18


(* What a handler that starts has checked, by its first statement.         *)
Checked(m, b, o) ==
    /\ m \in {"courseW", "pickupW", "cancel", "alertW", "claim", "course", "delivery", "drop", "deliveryW", "attemptW",
              "confirmW", "failW", "add", "paidW", "refund"}
    /\ m = "courseW" => On("CHICKEN_NATION") /\ b = "AT_RESTAURANT" /\ statut = "ACCEPTED"
    /\ m = "pickupW" =>
         \/ On("CHICKEN_NATION") /\ May("markPickedUp")
         \/ /\ \A x \in Order : commande[x] = "READY"
            /\ statut \in {"ACCEPTED", "AT_RESTAURANT", "PENDING_ASSIGNMENT"}
    /\ m = "confirmW" => Owned(o, "ARRIVED") /\ b \in {"COLLECTED", "COMPLETED"}
    /\ m = "paidW" => May("cash")
    /\ m = "refund" => May("adminCancel")
    /\ m = "drop" => o \in Order /\ dropped[o]

LEMMA Begun ==
  ASSUME Reqs, NEW p \in Req, NEW o, NEW s, s # <<>>, Begin(p, o, s), NEW m, NEW b, NEW t, Head(s) = <<m, b>>, Tail(s) = t,
         Follows(m, b, t), Doing(m, b, t, o)', Checked(m, b, o)
  PROVE  Turn(p)' /\ \E n, a, u, k : Holds(p, n, a, u, k)' /\ Checked(n, a, k)
  <1>1. Holds(p, m, b, t, o)'
    BY BeginHolds
  <1> QED BY <1>1, HoldsNext

LEMMA BegunOne ==
  ASSUME Reqs, NEW p \in Req, NEW o, NEW m, NEW b, Begin(p, o, <<<<m, b>>>>),
         Follows(m, b, <<>>), Doing(m, b, <<>>, o)', Checked(m, b, o)
  PROVE  Turn(p)' /\ \E n, a, u, k : Holds(p, n, a, u, k)' /\ Checked(n, a, k)
  <1>1. PICK s : s = <<<<m, b>>>>
    OBVIOUS
  <1>2. s # <<>> /\ Head(s) = <<m, b>> /\ Tail(s) = <<>>
    BY <1>1, Part1, Zenon
  <1> QED BY <1>1, <1>2, Begun

LEMMA BegunTwo ==
  ASSUME Reqs, NEW p \in Req, NEW o, NEW m, NEW b, NEW y, Begin(p, o, <<<<m, b>>, y>>),
         Follows(m, b, <<y>>), Doing(m, b, <<y>>, o)', Checked(m, b, o)
  PROVE  Turn(p)' /\ \E n, a, u, k : Holds(p, n, a, u, k)' /\ Checked(n, a, k)
  <1>1. PICK s : s = <<<<m, b>>, y>>
    OBVIOUS
  <1>2. s # <<>> /\ Head(s) = <<m, b>> /\ Tail(s) = <<y>>
    BY <1>1, Part2, Zenon
  <1> QED BY <1>1, <1>2, Begun

LEMMA BegunThree ==
  ASSUME Reqs, NEW p \in Req, NEW o, NEW m, NEW b, NEW y, NEW z, Begin(p, o, <<<<m, b>>, y, z>>),
         Follows(m, b, <<y, z>>), Doing(m, b, <<y, z>>, o)', Checked(m, b, o)
  PROVE  Turn(p)' /\ \E n, a, u, k : Holds(p, n, a, u, k)' /\ Checked(n, a, k)
  <1>1. PICK s : s = <<<<m, b>>, y, z>>
    OBVIOUS
  <1>2. s # <<>> /\ Head(s) = <<m, b>> /\ Tail(s) = <<y, z>>
    BY <1>1, Part3, Zenon
  <1> QED BY <1>1, <1>2, Begun

LEMMA StartsTurn ==
  ASSUME TInv, NEW p \in Req, Starts(p)
  PROVE  Turn(p)' /\ \E n, a, u, k : Holds(p, n, a, u, k)' /\ Checked(n, a, k)
  <1>1. UNCHANGED <<courseVars, orderVars, moneyVars, worldVars>> /\ Reqs
    BY DEF Starts, MarkAtRestaurant, MarkPickedUp, ValidatePickup, CancelCourse, AutoCancel, DetecterRetards,
           ConfirmerEncaissement, Webhook, WebhookCancelled, ValiderCode, StartDelivery, MarkArrived, ConfirmDelivery,
           FailDelivery, AddPaiement, MarkPaidCash, AdminCancel, TInv
  <1>2. On("CHICKEN_NATION")' = On("CHICKEN_NATION") /\ livraison' = livraison /\ payee' = payee
    BY <1>1 DEF On, courseVars, orderVars
  <1>3. CASE MarkAtRestaurant(p)
    <2>1. Follows("courseW", "AT_RESTAURANT", <<>>)
      BY DEF Follows
    <2>2. Doing("courseW", "AT_RESTAURANT", <<>>, NONE)'
      BY Distinct DEF Doing
    <2>3. Checked("courseW", "AT_RESTAURANT", NONE)
      BY <1>3 DEF Checked, MarkAtRestaurant
    <2> QED BY <1>1, <1>3, <2>1, <2>2, <2>3, BegunOne DEF MarkAtRestaurant
  <1>4. CASE MarkPickedUp(p) \/ ValidatePickup(p)
    <2>1. Follows("pickupW", "", <<>>)
      BY DEF Follows
    <2>2. Doing("pickupW", "", <<>>, NONE)'
      BY Distinct DEF Doing
    <2>3. Checked("pickupW", "", NONE)
      BY <1>4 DEF Checked, MarkPickedUp, ValidatePickup
    <2> QED BY <1>1, <1>4, <2>1, <2>2, <2>3, BegunOne DEF MarkPickedUp, ValidatePickup, Op
  <1>5. CASE CancelCourse(p) \/ AutoCancel(p)
    <2>1. Follows("cancel", "", <<>>)
      BY DEF Follows
    <2>2. Doing("cancel", "", <<>>, NONE)'
      BY Distinct DEF Doing
    <2>3. Checked("cancel", "", NONE)
      BY DEF Checked
    <2> QED BY <1>1, <1>5, <2>1, <2>2, <2>3, BegunOne DEF CancelCourse, AutoCancel, Op
  <1>6. CASE DetecterRetards(p)
    <2>1. Follows("alertW", "", <<>>)
      BY DEF Follows
    <2>2. Doing("alertW", "", <<>>, NONE)'
      BY Distinct DEF Doing
    <2>3. Checked("alertW", "", NONE)
      BY DEF Checked
    <2> QED BY <1>1, <1>6, <2>1, <2>2, <2>3, BegunOne DEF DetecterRetards, Op
  <1>7. CASE ConfirmerEncaissement(p)
    <2>1. PICK i \in Paiement :
            Free(p) /\ Goto(p, [prog |-> <<Op("claim"), Op("cascade")>>, order |-> paiement[i].order, row |-> i])
      BY <1>7 DEF ConfirmerEncaissement
    <2>2. PICK o, s : o = paiement[i].order /\ s = <<Op("claim"), Op("cascade")>>
      OBVIOUS
    <2>3. s # <<>> /\ Head(s) = Op("claim") /\ Tail(s) = <<Op("cascade")>>
      BY <2>2, Part2, Zenon
    <2>4. PICK r : r = [prog |-> s, order |-> o, row |-> i]
      OBVIOUS
    <2>5. r.prog = s /\ r.order = o /\ Goto(p, r)
      BY <2>1, <2>2, <2>4
    <2>6. req'[p] = r
      BY <1>1, <2>3, <2>5 DEF Goto, Reqs
    <2>7. Holds(p, "claim", "", CascadeNext, o)'
      BY <2>3, <2>5, <2>6 DEF Holds, Free, Op, CascadeNext
    <2>8. Follows("claim", "", CascadeNext)
      BY DEF Follows
    <2>9. Doing("claim", "", CascadeNext, o)'
      BY DEF Doing
    <2>10. Checked("claim", "", o)
      BY DEF Checked
    <2> QED BY <2>7, <2>8, <2>9, <2>10, HoldsNext
  <1>8. ASSUME NEW o \in Order, Webhook(p, o) PROVE Turn(p)' /\ \E n, a, u, k : Holds(p, n, a, u, k)' /\ Checked(n, a, k)
    <2>1. PICK e \in 1 .. turbo[o] : Begin(p, o, Handler[e])
      BY <1>8 DEF Webhook
    <2>2. turbo[o] \in 0 .. 5
      BY DEF TInv, TypeOK
    <2>3. e = 1 \/ e = 2 \/ e = 3 \/ e = 4 \/ e = 5
      BY <2>2
    <2>4. ~On("CHICKEN_NATION") /\ ~On("CHICKEN_NATION")'
      BY <1>2, <1>8 DEF Webhook, On
    <2>5. \/ Begin(p, o, <<<<"course", "ACCEPTED">>>>)
          \/ Begin(p, o, <<<<"course", "AT_RESTAURANT">>>>)
          \/ Begin(p, o, <<<<"course", "IN_DELIVERY">>, <<"delivery", "IN_ROUTE">>, <<"sync", "PICKED_UP">>>>)
          \/ Begin(p, o, <<<<"delivery", "DELIVERED">>, <<"close", "course">>, <<"settle", "">>>>)
      <3>1. /\ Handler[1] = <<<<"course", "ACCEPTED">>>> /\ Handler[2] = <<<<"course", "AT_RESTAURANT">>>>
            /\ Handler[3] = Carried /\ Handler[4] = Carried
            /\ Handler[5] = <<<<"delivery", "DELIVERED">>, <<"close", "course">>, <<"settle", "">>>>
        BY DEF Handler, Op
      <3>2. Begin(p, o, Handler[1]) \/ Begin(p, o, Handler[2]) \/ Begin(p, o, Handler[3]) \/ Begin(p, o, Handler[4])
            \/ Begin(p, o, Handler[5])
        BY <2>1, <2>3, Zenon
      <3> QED BY <3>1, <3>2, Zenon DEF Carried
    <2>6. /\ Follows("course", "ACCEPTED", <<>>) /\ Follows("course", "AT_RESTAURANT", <<>>)
          /\ Follows("course", "IN_DELIVERY", TransitNext) /\ Follows("delivery", "DELIVERED", HandedNext)
      BY DEF Follows
    <2>7. /\ Doing("course", "ACCEPTED", <<>>, o)' /\ Doing("course", "AT_RESTAURANT", <<>>, o)'
          /\ Doing("course", "IN_DELIVERY", TransitNext, o)' /\ Doing("delivery", "DELIVERED", HandedNext, o)'
      BY <2>4 DEF Doing
    <2>8. /\ Checked("course", "ACCEPTED", o) /\ Checked("course", "AT_RESTAURANT", o)
          /\ Checked("course", "IN_DELIVERY", o) /\ Checked("delivery", "DELIVERED", o)
      BY DEF Checked
    <2> QED BY <1>1, <2>5, <2>6, <2>7, <2>8, BegunOne, BegunThree DEF TransitNext, HandedNext
  <1>9. ASSUME NEW o \in Order, WebhookCancelled(p, o)
        PROVE  Turn(p)' /\ \E n, a, u, k : Holds(p, n, a, u, k)' /\ Checked(n, a, k)
    <2>1. Follows("drop", "", <<>>)
      BY DEF Follows
    <2>2. Doing("drop", "", <<>>, o)'
      BY Distinct DEF Doing
    <2>3. Checked("drop", "", o)
      BY <1>9 DEF Checked, WebhookCancelled
    <2> QED BY <1>1, <1>9, <2>1, <2>2, <2>3, BegunOne DEF WebhookCancelled, Op
  <1>10. ASSUME NEW o \in Order, ValiderCode(p, o)
         PROVE  Turn(p)' /\ \E n, a, u, k : Holds(p, n, a, u, k)' /\ Checked(n, a, k)
    <2>1. ~On("CHICKEN_NATION")'
      BY <1>2, <1>10 DEF ValiderCode, On
    <2>2. CASE CodeOk(p, o)
      <3>1. PICK s \in {CompleteThen, CollectThen, DeclareThen} :
              Begin(p, o, CodeProgram(s)) /\ (s = CompleteThen => payee[o]) /\ (s # CompleteThen => ~payee[o])
        BY <2>2, CodePrograms
      <3>2. PICK c : c = CodeProgram(s)
        OBVIOUS
      <3>3. c # <<>> /\ Head(c) = <<"deliveryW", "DELIVERED">> /\ Tail(c) = s
        BY <3>2, CodeSplit
      <3>4. Follows("deliveryW", "DELIVERED", s)
        BY <3>1 DEF Follows
      <3>5. Doing("deliveryW", "DELIVERED", s, o)'
        BY <1>2, <2>1, <3>1, Distinct DEF Doing
      <3>6. Checked("deliveryW", "DELIVERED", o)
        BY DEF Checked
      <3> QED BY <1>1, <3>1, <3>2, <3>3, <3>4, <3>5, <3>6, Begun
    <2>3. CASE CodeWrong(p, o)
      <3>1. PICK k : Begin(p, o, <<<<"attemptW", k>>>>)
        BY <2>3 DEF CodeWrong
      <3>2. Follows("attemptW", k, <<>>)
        BY DEF Follows
      <3>3. Doing("attemptW", k, <<>>, o)'
        BY <2>1, Distinct DEF Doing
      <3>4. Checked("attemptW", k, o)
        BY DEF Checked
      <3> QED BY <1>1, <3>1, <3>2, <3>3, <3>4, BegunOne
    <2> QED BY <1>10, <2>2, <2>3 DEF ValiderCode
  <1>11. ASSUME NEW o \in Order, StartDelivery(p, o) \/ MarkArrived(p, o)
         PROVE  Turn(p)' /\ \E n, a, u, k : Holds(p, n, a, u, k)' /\ Checked(n, a, k)
    <2>1. PICK b \in {"IN_ROUTE", "ARRIVED"} : Begin(p, o, <<<<"deliveryW", b>>>>)
      BY <1>11 DEF StartDelivery, MarkArrived
    <2>2. livraison'[o] \notin DeliveryOver
      BY <1>2, <1>11 DEF StartDelivery, MarkArrived, Owned, DeliveryOver
    <2>3. Follows("deliveryW", b, <<>>)
      BY DEF Follows
    <2>4. Doing("deliveryW", b, <<>>, o)'
      BY <2>2, Distinct DEF Doing
    <2>5. Checked("deliveryW", b, o)
      BY DEF Checked
    <2> QED BY <1>1, <2>1, <2>3, <2>4, <2>5, BegunOne
  <1>12. ASSUME NEW o \in Order, ConfirmDelivery(p, o)
         PROVE  Turn(p)' /\ \E n, a, u, k : Holds(p, n, a, u, k)' /\ Checked(n, a, k)
    <2>1. \A b \in {"COLLECTED", "COMPLETED"} : Checked("confirmW", b, o)
      BY <1>12 DEF Checked, ConfirmDelivery
    <2>2. CASE payee[o]
      <3>1. Begin(p, o, <<<<"confirmW", "COMPLETED">>, <<"close", "courseW">>>>)
        BY <1>12, <2>2, ConfirmPrograms
      <3>2. Follows("confirmW", "COMPLETED", HouseNext)
        BY DEF Follows
      <3>3. Doing("confirmW", "COMPLETED", HouseNext, o)'
        BY <1>2, <2>2, Distinct DEF Doing
      <3> QED BY <1>1, <2>1, <3>1, <3>2, <3>3, BegunTwo DEF HouseNext
    <2>3. CASE ~payee[o]
      <3>1. Begin(p, o, <<<<"confirmW", "COLLECTED">>, <<"declare", "">>, <<"close", "courseW">>>>)
        BY <1>12, <2>3, ConfirmPrograms
      <3>2. Follows("confirmW", "COLLECTED", DeclareHouse)
        BY DEF Follows
      <3>3. Doing("confirmW", "COLLECTED", DeclareHouse, o)'
        BY <1>2, <2>3, Distinct DEF Doing
      <3> QED BY <1>1, <2>1, <3>1, <3>2, <3>3, BegunThree DEF DeclareHouse
    <2> QED BY <2>2, <2>3
  <1>13. ASSUME NEW o \in Order, FailDelivery(p, o)
         PROVE  Turn(p)' /\ \E n, a, u, k : Holds(p, n, a, u, k)' /\ Checked(n, a, k)
    <2>1. Follows("failW", "", HouseNext)
      BY DEF Follows
    <2>2. Doing("failW", "", HouseNext, o)'
      BY Distinct DEF Doing
    <2>3. Checked("failW", "", o)
      BY DEF Checked
    <2> QED BY <1>1, <1>13, <2>1, <2>2, <2>3, BegunTwo DEF FailDelivery, Op, HouseNext
  <1>14. ASSUME NEW o \in Order, AddPaiement(p, o)
         PROVE  Turn(p)' /\ \E n, a, u, k : Holds(p, n, a, u, k)' /\ Checked(n, a, k)
    <2>1. PICK m : Begin(p, o, <<<<"add", m>>, <<"addCascade", "">>>>)
      BY <1>14 DEF AddPaiement, Op
    <2>2. Follows("add", m, AddNext)
      BY DEF Follows
    <2>3. Doing("add", m, AddNext, o)'
      BY DEF Doing
    <2>4. Checked("add", m, o)
      BY DEF Checked
    <2> QED BY <1>1, <2>1, <2>2, <2>3, <2>4, BegunTwo DEF AddNext
  <1>15. ASSUME NEW o \in Order, MarkPaidCash(p, o)
         PROVE  Turn(p)' /\ \E n, a, u, k : Holds(p, n, a, u, k)' /\ Checked(n, a, k)
    <2>1. Follows("paidW", "COMPLETED", <<>>)
      BY DEF Follows
    <2>2. Doing("paidW", "COMPLETED", <<>>, o)'
      BY Distinct DEF Doing
    <2>3. Checked("paidW", "COMPLETED", o)
      BY <1>15 DEF Checked, MarkPaidCash
    <2> QED BY <1>1, <1>15, <2>1, <2>2, <2>3, BegunOne DEF MarkPaidCash
  <1>16. ASSUME NEW o \in Order, AdminCancel(p, o)
         PROVE  Turn(p)' /\ \E n, a, u, k : Holds(p, n, a, u, k)' /\ Checked(n, a, k)
    <2>1. Follows("refund", "", CancelNext)
      BY DEF Follows
    <2>2. Doing("refund", "", CancelNext, o)'
      BY DEF Doing
    <2>3. Checked("refund", "", o)
      BY <1>16 DEF Checked, AdminCancel
    <2> QED BY <1>1, <1>16, <2>1, <2>2, <2>3, BegunTwo DEF AdminCancel, Op, CancelNext
  <1> QED BY <1>3, <1>4, <1>5, <1>6, <1>7, <1>8, <1>9, <1>10, <1>11, <1>12, <1>13, <1>14, <1>15, <1>16 DEF Starts


(* The steps that write the course, or a delivery, and the others.         *)
LEMMA CourseStill == ASSUME CourseDone, UNCHANGED <<statut, livraison>> PROVE CourseDone'
  BY DEF CourseDone, AllOver

LEMMA CourseDoneKept == ASSUME TInv, NEW p \in Req, Turn(p), CourseDone, Steps(p) PROVE CourseDone'
  <1>1. CASE \/ AdvanceCourse(p) \/ Close(p) \/ CancelRead(p) \/ AlertWrite(p) \/ AttemptWrite(p) \/ Left(p) \/ Sync(p)
             \/ SyncWrite(p) \/ Settle(p) \/ Declare(p) \/ DeclareWrite(p) \/ ClaimPaiement(p) \/ Cascade(p) \/ AddRow(p)
             \/ AddCascade(p) \/ PaidWrite(p) \/ Refund(p)
    <2>1. UNCHANGED <<statut, livraison>>
      BY <1>1 DEF AdvanceCourse, Close, CancelRead, AlertWrite, AttemptWrite, Left, Sync, SyncWrite, Settle, Declare,
                  DeclareWrite, ClaimPaiement, Cascade, AddRow, AddCascade, PaidWrite, Refund, courseVars, orderVars
    <2> QED BY <2>1, CourseStill
  <1>2. ASSUME ~Free(p) PROVE \E n, a, t, o : n \in Names /\ Holds(p, n, a, t, o)
    BY <1>2, SomeName DEF TInv
  <1>3. livraison \in [Order -> DOMAIN DeliveryRank \cup {"FAILED", "CANCELLED"}] /\ Reqs
    BY DEF TInv, TypeOK
  <1>4. CASE CourseWrite(p)
    <2>1. PICK n, a, t, o : n \in Names /\ Holds(p, n, a, t, o)
      BY <1>2, <1>4 DEF CourseWrite, At
    <2>2. n = "courseW" /\ statut' = a /\ livraison' = livraison /\ Doing(n, a, t, o)
      BY <1>4, <2>1, HoldsAt DEF CourseWrite, orderVars
    <2> QED BY <2>2 DEF Doing, CourseDone, AllOver
  <1>5. CASE PickUpWrite(p)
    BY <1>5 DEF PickUpWrite, CourseDone
  <1>6. CASE CancelWrite(p)
    BY <1>6 DEF CancelWrite, CourseDone
  <1>7. CASE LeftWrite(p)
    BY <1>7 DEF LeftWrite, CourseDone, AllOver, orderVars, CourseOver
  <1>8. CASE AdvanceDelivery(p) \/ DeliveryWrite(p) \/ DropWrite(p) \/ ConfirmWrite(p) \/ FailWrite(p)
    <2>1. PICK n, a, t, o : n \in Names /\ Holds(p, n, a, t, o)
      BY <1>2, <1>8 DEF AdvanceDelivery, DeliveryWrite, DropWrite, ConfirmWrite, FailWrite, At
    <2>2. /\ Mine(p) = o /\ Arg(p) = a
          /\ \A m : At(p, m) <=> m = n
          /\ Doing(n, a, t, o)
      BY <2>1, HoldsAt
    <2>3. o \in Order /\ (n \in {"delivery", "deliveryW"} => a \in {"IN_ROUTE", "ARRIVED", "DELIVERED"})
      BY <1>3, <1>8, <2>1, <2>2, Held DEF AdvanceDelivery, DeliveryWrite, DropWrite, ConfirmWrite, FailWrite, OrderNames, Holds
    <2>4. statut' = statut
      BY <1>8 DEF AdvanceDelivery, DeliveryWrite, DropWrite, ConfirmWrite, FailWrite, courseVars
    <2>5. SUFFICES ASSUME statut = "COMPLETED", AllOver PROVE AllOver'
      BY <2>4 DEF CourseDone
    <2>6. \A x \in Order : livraison[x] \in DeliveryOver
      BY <2>5 DEF AllOver
    <2>7. CASE AdvanceDelivery(p)
      <3>1. livraison[o] \in DeliveryOver
        BY <2>3, <2>6
      <3>2. livraison[o] \in DOMAIN DeliveryRank => ~(DeliveryRank[livraison[o]] < DeliveryRank[a])
        BY <2>2, <2>3, <2>7, <3>1 DEF DeliveryOver, DeliveryRank, AdvanceDelivery
      <3>3. livraison' = livraison
        BY <2>2, <2>7, <3>2 DEF AdvanceDelivery
      <3> QED BY <2>6, <3>3 DEF AllOver
    <2>8. CASE DeliveryWrite(p)
      <3>1. n = "deliveryW" /\ livraison' = [livraison EXCEPT ![o] = a]
        BY <2>2, <2>8 DEF DeliveryWrite
      <3>2. a = "DELIVERED"
        BY <2>2, <2>3, <2>6, <3>1 DEF Doing
      <3> QED BY <1>3, <2>6, <3>1, <3>2 DEF AllOver, DeliveryOver
    <2>9. CASE DropWrite(p)
      BY <1>3, <2>2, <2>6, <2>9 DEF DropWrite, AllOver, DeliveryOver
    <2>10. CASE ConfirmWrite(p)
      BY <1>3, <2>2, <2>6, <2>10 DEF ConfirmWrite, AllOver, DeliveryOver
    <2>11. CASE FailWrite(p)
      BY <1>3, <2>2, <2>6, <2>11 DEF FailWrite, AllOver, DeliveryOver
    <2> QED BY <1>8, <2>7, <2>8, <2>9, <2>10, <2>11
  <1> QED BY <1>1, <1>4, <1>5, <1>6, <1>7, <1>8 DEF Steps

LEMMA StepsTurn == ASSUME TInv, NEW p \in Req, Turn(p), Steps(p) PROVE Turn(p)'
  <1>1. Reqs
    BY DEF TInv
  <1> QED BY <1>1, WritesTurn, ReadsTurn DEF Steps

LEMMA TurnStill == ASSUME NEW p \in Req, Turn(p), UNCHANGED <<req, fleet, livraison, commande, payee, moneyVars>> PROVE Turn(p)'
  BY DEF Turn, Doing, Free, Mine, On, AllOver, Lower, Covered, Pending, moneyVars

LEMMA NextSeqInv == ASSUME One, TInv, SeqInv, [Next]_vars PROVE SeqInv'
  <1>1. PICK p : Req = {p}
    BY DEF One
  <1>2. Turn(p) /\ CourseDone /\ Reqs
    BY <1>1 DEF SeqInv, TInv
  <1>3. Turn(p)' /\ CourseDone' => SeqInv'
    BY <1>1 DEF SeqInv
  <1>4. CASE Starts(p)
    <2>1. UNCHANGED <<statut, livraison>>
      BY <1>4 DEF Starts, MarkAtRestaurant, MarkPickedUp, ValidatePickup, CancelCourse, AutoCancel, DetecterRetards,
             ConfirmerEncaissement, Webhook, WebhookCancelled, ValiderCode, StartDelivery, MarkArrived, ConfirmDelivery,
             FailDelivery, AddPaiement, MarkPaidCash, AdminCancel, courseVars, orderVars
    <2> QED BY <1>1, <1>2, <1>3, <1>4, <2>1, StartsTurn, CourseStill
  <1>5. CASE Steps(p)
    BY <1>1, <1>2, <1>3, <1>5, StepsTurn, CourseDoneKept
  <1>6. CASE Crash(p)
    <2>1. UNCHANGED <<statut, livraison>> /\ Stop(p)
      BY <1>6 DEF Crash, courseVars, orderVars
    <2> QED BY <1>1, <1>2, <1>3, <2>1, FreeTurn, CourseStill
  <1>7. CASE UNCHANGED vars \/ \E o \in Order : TurboMoves(o) \/ TurboDrops(o)
    <2>1. UNCHANGED <<req, fleet, statut, livraison, commande, payee, moneyVars>>
      BY <1>7 DEF vars, TurboMoves, TurboDrops, courseVars, orderVars, moneyVars
    <2> QED BY <1>1, <1>2, <1>3, <2>1, TurnStill, CourseStill
  <1> QED BY <1>1, <1>4, <1>5, <1>6, <1>7 DEF Next

LEMMA InitSeqInv == ASSUME Init PROVE SeqInv
  <1>1. \A p \in Req : Free(p)
    BY DEF Init, Free, Idle
  <1>2. CourseDone
    BY DEF Init, CourseDone
  <1> QED BY <1>1, <1>2 DEF SeqInv, Turn

(* When the handlers of the course follow one another, whatever they are   *)
(* and wherever one stops: what each relies on is still so when it writes. *)
THEOREM OneAtATime == ASSUME One PROVE Spec => []SeqInv
  <1>1. TInv /\ SeqInv /\ [Next]_vars => SeqInv'
    BY NextSeqInv
  <1>2. Init => SeqInv
    BY InitSeqInv
  <1> QED BY <1>1, <1>2, Inductive, PTL DEF Spec

(* For both fleets a COMPLETED course has no delivery left: for the house  *)
(* this needs the handlers to follow one another, checkCourseCompletion    *)
(* counts the deliveries and then writes the course by id.                 *)
THEOREM CourseEnds == ASSUME One PROVE Spec => []CourseDone
  <1>1. SeqInv => CourseDone
    BY DEF SeqInv
  <1> QED BY <1>1, OneAtATime, PTL


-----------------------------------------------------------------------------
(* The row a cashier confirms *)

(* A handler that confirms a payment holds the row of its own order, until *)
(* somebody frees it: a new row takes a key that no handler holds.         *)
RowInv ==
    \A p \in Req : req[p].row # NONE =>
       paiement[req[p].row] = FreeRow \/ paiement[req[p].row].order = req[p].order

LEMMA GotoSame ==
  ASSUME Reqs, NEW p \in Req, NEW r, Goto(p, r), r.row = req[p].row, r.order = req[p].order
  PROVE  \A q \in Req : req'[q].row = NONE \/ (req'[q].row = req[q].row /\ req'[q].order = req[q].order)
  <1>1. PICK x : x = IF r.prog = <<>> THEN Idle ELSE r
    OBVIOUS
  <1>2. req' = [req EXCEPT ![p] = x]
    BY <1>1 DEF Goto
  <1>3. x.row = NONE \/ (x.row = req[p].row /\ x.order = req[p].order)
    BY <1>1 DEF Idle
  <1> QED BY <1>2, <1>3 DEF Reqs

LEMMA SameRow ==
  ASSUME Reqs, NEW p \in Req, Stop(p) \/ \E s : Become(p, s)
  PROVE  \A q \in Req : req'[q].row = NONE \/ (req'[q].row = req[q].row /\ req'[q].order = req[q].order)
  <1>1. CASE Stop(p)
    <2>1. req' = [req EXCEPT ![p] = Idle] /\ Idle.row = NONE
      BY <1>1 DEF Stop, Goto, Idle
    <2> QED BY <2>1 DEF Reqs
  <1>2. ASSUME NEW s, Become(p, s)
        PROVE  \A q \in Req : req'[q].row = NONE \/ (req'[q].row = req[q].row /\ req'[q].order = req[q].order)
    <2>1. PICK t : t = s \o Tail(req[p].prog)
      OBVIOUS
    <2>2. PICK r : r = [req[p] EXCEPT !.prog = t]
      OBVIOUS
    <2>3. r.row = req[p].row /\ r.order = req[p].order
      BY <2>2 DEF Reqs, ReqOK
    <2>4. Goto(p, r)
      BY <1>2, <2>1, <2>2 DEF Become
    <2> QED BY <2>3, <2>4, GotoSame
  <1> QED BY <1>1, <1>2

LEMMA RowStill ==
  ASSUME RowInv,
         \A q \in Req : req'[q].row = NONE \/ (req'[q].row = req[q].row /\ req'[q].order = req[q].order),
         \A q \in Req : req[q].row # NONE => paiement'[req[q].row] \in {paiement[req[q].row], FreeRow}
  PROVE  RowInv'
  <1>1. SUFFICES ASSUME NEW q \in Req, req'[q].row # NONE
                 PROVE  paiement'[req'[q].row] = FreeRow \/ paiement'[req'[q].row].order = req'[q].order
    BY DEF RowInv
  <1>2. req'[q].row = req[q].row /\ req'[q].order = req[q].order
    BY <1>1
  <1> QED BY <1>1, <1>2 DEF RowInv

LEMMA NextRowInv == ASSUME TInv, RowInv, [Next]_vars PROVE RowInv'
  <1>1. Reqs /\ paiement \in [Paiement -> Row \cup {FreeRow}] /\ \A q \in Req : req[q].row \in Paiement \cup {NONE}
    BY DEF TInv, Reqs, ReqOK
  <1>2. ASSUME NEW p \in Req, Starts(p) PROVE RowInv'
    <2>1. UNCHANGED paiement
      BY <1>2 DEF Starts, MarkAtRestaurant, MarkPickedUp, ValidatePickup, CancelCourse, AutoCancel, DetecterRetards,
             ConfirmerEncaissement, Webhook, WebhookCancelled, ValiderCode, StartDelivery, MarkArrived, ConfirmDelivery,
             FailDelivery, AddPaiement, MarkPaidCash, AdminCancel, moneyVars
    <2>2. \/ \E o, s : Begin(p, o, s)
          \/ \E i \in Paiement : Goto(p, [prog |-> <<Op("claim"), Op("cascade")>>, order |-> paiement[i].order, row |-> i])
      BY <1>2 DEF Starts, MarkAtRestaurant, MarkPickedUp, ValidatePickup, CancelCourse, AutoCancel, DetecterRetards,
             ConfirmerEncaissement, Webhook, WebhookCancelled, ValiderCode, CodeOk, CodeWrong, StartDelivery, MarkArrived,
             ConfirmDelivery, FailDelivery, AddPaiement, MarkPaidCash, AdminCancel
    <2>3. ASSUME NEW x, req' = [req EXCEPT ![p] = x], x.row = NONE \/ (x.row \in Paiement /\ paiement[x.row].order = x.order)
          PROVE  RowInv'
      BY <1>1, <2>1, <2>3 DEF Reqs, RowInv
    <2>4. ASSUME NEW o, NEW s, Begin(p, o, s) PROVE RowInv'
      <3>1. PICK r : r = [Idle EXCEPT !.order = o, !.prog = s]
        OBVIOUS
      <3>2. PICK x : x = IF r.prog = <<>> THEN Idle ELSE r
        OBVIOUS
      <3>3. r.row = NONE /\ Idle.row = NONE
        BY <3>1 DEF Idle
      <3>4. req' = [req EXCEPT ![p] = x]
        BY <2>4, <3>1, <3>2 DEF Begin, Goto
      <3> QED BY <2>3, <3>2, <3>3, <3>4
    <2>5. ASSUME NEW i \in Paiement,
                 Goto(p, [prog |-> <<Op("claim"), Op("cascade")>>, order |-> paiement[i].order, row |-> i])
          PROVE  RowInv'
      <3>1. PICK s : s = <<Op("claim"), Op("cascade")>>
        OBVIOUS
      <3>2. PICK r : r = [prog |-> s, order |-> paiement[i].order, row |-> i]
        OBVIOUS
      <3>3. PICK x : x = IF r.prog = <<>> THEN Idle ELSE r
        OBVIOUS
      <3>4. req' = [req EXCEPT ![p] = x]
        BY <2>5, <3>1, <3>2, <3>3 DEF Goto
      <3>5. x.row = NONE \/ (x.row = i /\ x.order = paiement[i].order)
        BY <3>2, <3>3 DEF Idle
      <3> QED BY <2>3, <3>4, <3>5
    <2> QED BY <2>2, <2>4, <2>5
  <1>3. ASSUME NEW p \in Req, Steps(p) \/ Crash(p) PROVE RowInv'
    <2>1. Stop(p) \/ \E s : Become(p, s)
      BY <1>3 DEF Steps, AdvanceCourse, CourseWrite, Close, PickUpWrite, CancelRead, CancelWrite, AlertWrite, AdvanceDelivery,
             DeliveryWrite, AttemptWrite, DropWrite, Left, LeftWrite, Sync, SyncWrite, Settle, Declare, DeclareWrite,
             ConfirmWrite, FailWrite, ClaimPaiement, Cascade, AddRow, AddCascade, PaidWrite, Refund, Crash, Done
    <2>2. \A q \in Req : req[q].row # NONE => paiement'[req[q].row] \in {paiement[req[q].row], FreeRow}
      <3>1. CASE UNCHANGED paiement
        BY <3>1
      <3>2. CASE DeclareWrite(p) /\ ~UNCHANGED paiement
        <4>1. PICK b \in Batches : \E key \in [DOMAIN b -> Fresh] :
                \A i \in Paiement : (\A m \in DOMAIN b : key[m] # i) => paiement'[i] = paiement[i]
          BY <3>2, Declared
        <4>2. PICK key \in [DOMAIN b -> Fresh] :
                \A i \in Paiement : (\A m \in DOMAIN b : key[m] # i) => paiement'[i] = paiement[i]
          BY <4>1
        <4>3. \A m \in DOMAIN b : \A q \in Req : req[q].row # key[m]
          BY <4>2 DEF Fresh
        <4> QED BY <1>1, <4>2, <4>3
      <3>3. CASE ClaimPaiement(p) /\ ~UNCHANGED paiement
        <4>1. paiement' = [paiement EXCEPT ![req[p].row] = FreeRow]
          BY <3>3 DEF ClaimPaiement, moneyVars
        <4> QED BY <1>1, <4>1
      <3>4. UNCHANGED paiement \/ DeclareWrite(p) \/ ClaimPaiement(p)
        BY <1>3 DEF Steps, AdvanceCourse, CourseWrite, Close, PickUpWrite, CancelRead, CancelWrite, AlertWrite, AdvanceDelivery,
               DeliveryWrite, AttemptWrite, DropWrite, Left, LeftWrite, Sync, SyncWrite, Settle, Declare,
               ConfirmWrite, FailWrite, Cascade, AddRow, AddCascade, PaidWrite, Refund, Crash, moneyVars
      <3> QED BY <3>1, <3>2, <3>3, <3>4
    <2> QED BY <1>1, <2>1, <2>2, SameRow, RowStill
  <1>4. CASE UNCHANGED vars \/ \E o \in Order : TurboMoves(o) \/ TurboDrops(o)
    <2>1. UNCHANGED <<req, paiement>>
      BY <1>4 DEF vars, TurboMoves, TurboDrops, moneyVars
    <2> QED BY <2>1 DEF RowInv
  <1> QED BY <1>2, <1>3, <1>4 DEF Next

(* A confirming handler keeps a hold on its payment whatever interleaves:  *)
(* the row is the one of its order that it was given, or has been freed,   *)
(* never a row another declaration made in its place.                      *)
THEOREM RowsHeld == Spec => []RowInv
  <1>1. Init => RowInv
    BY DEF Init, RowInv, Idle
  <1>2. TInv /\ RowInv /\ [Next]_vars => RowInv'
    BY NextRowInv
  <1> QED BY <1>1, <1>2, Inductive, PTL DEF Spec


-----------------------------------------------------------------------------
(* The money of an order, between the statements of one handler            *)

LEMMA StartsStill ==
  ASSUME NEW p \in Req, Starts(p)
  PROVE  Free(p) /\ UNCHANGED <<courseVars, orderVars, moneyVars, worldVars>>
  <1>1. CASE \/ MarkAtRestaurant(p) \/ MarkPickedUp(p) \/ ValidatePickup(p)
             \/ CancelCourse(p) \/ AutoCancel(p) \/ DetecterRetards(p) \/ ConfirmerEncaissement(p)
    BY <1>1 DEF MarkAtRestaurant, MarkPickedUp, ValidatePickup, CancelCourse, AutoCancel, DetecterRetards,
           ConfirmerEncaissement, Begin
  <1>2. CASE \E o \in Order : \/ Webhook(p, o) \/ WebhookCancelled(p, o) \/ ValiderCode(p, o)
                             \/ StartDelivery(p, o) \/ MarkArrived(p, o)
    BY <1>2 DEF Webhook, WebhookCancelled, ValiderCode, CodeOk, CodeWrong, StartDelivery, MarkArrived, Begin
  <1>3. CASE \E o \in Order : \/ ConfirmDelivery(p, o) \/ FailDelivery(p, o)
                             \/ AddPaiement(p, o) \/ MarkPaidCash(p, o) \/ AdminCancel(p, o)
    BY <1>3 DEF ConfirmDelivery, FailDelivery, AddPaiement, MarkPaidCash, AdminCancel, Begin
  <1> QED BY <1>1, <1>2, <1>3 DEF Starts

LEMMA OnlyOne ==
  ASSUME NEW p, Req = {p}
  PROVE  /\ \A o : BeingCancelled(o) <=> Mine(p) = o /\ At(p, "syncW") /\ Arg(p) = "CANCELLED"
         /\ \A o : BeingCancelled(o)' <=> (Mine(p) = o /\ At(p, "syncW") /\ Arg(p) = "CANCELLED")'
  BY DEF BeingCancelled

(* Nothing written, by a handler that was not cancelling an order.         *)
LEMMA PaidQuiet ==
  ASSUME NEW p, Req = {p}, CompletedIsPaid, UNCHANGED <<commande, payee>>, ~At(p, "syncW")
  PROVE  CompletedIsPaid'
  BY OnlyOne DEF CompletedIsPaid

LEMMA StepsPaid ==
  ASSUME TInv, NEW p, Req = {p}, Turn(p), CompletedIsPaid, Steps(p)
  PROVE  CompletedIsPaid'
  <1>1. Reqs /\ p \in Req /\ ~Free(p)
    BY DEF TInv, Steps, AdvanceCourse, CourseWrite, Close, PickUpWrite, CancelRead, CancelWrite, AlertWrite, AdvanceDelivery,
           DeliveryWrite, AttemptWrite, DropWrite, Left, LeftWrite, Sync, SyncWrite, Settle, Declare, DeclareWrite,
           ConfirmWrite, FailWrite, ClaimPaiement, Cascade, AddRow, AddCascade, PaidWrite, Refund, At
  <1>2. PICK n, a, t, o : n \in Names /\ Holds(p, n, a, t, o)
    BY <1>1, SomeName
  <1>3. /\ Mine(p) = o /\ Arg(p) = a
        /\ \A m : At(p, m) <=> m = n
        /\ Follows(n, a, t) /\ Doing(n, a, t, o)
    BY <1>2, HoldsAt
  <1>4. (n \in OrderNames => o \in Order) /\ (n = "paidW" => a \in {"", "COMPLETED"})
    BY <1>1, <1>3, Held
  <1>5. payee \in [Order -> BOOLEAN] /\ commande \in [Order -> DOMAIN OrderRank \cup {"CANCELLED"}]
    BY DEF TInv, TypeOK
  <1>6. CASE \/ AdvanceCourse(p) \/ CourseWrite(p) \/ Close(p) \/ CancelRead(p) \/ AlertWrite(p)
             \/ AdvanceDelivery(p) \/ DeliveryWrite(p) \/ AttemptWrite(p)
             \/ DropWrite(p) \/ Left(p) \/ LeftWrite(p)
             \/ Sync(p) \/ Settle(p) \/ Declare(p) \/ DeclareWrite(p)
             \/ ClaimPaiement(p) \/ Cascade(p) \/ AddRow(p) \/ AddCascade(p)
    <2>1. UNCHANGED <<commande, payee>> /\ n # "syncW"
      BY <1>3, <1>6 DEF AdvanceCourse, CourseWrite, Close, CancelRead, AlertWrite, AdvanceDelivery, DeliveryWrite,
             AttemptWrite, DropWrite, Left, LeftWrite, Sync, Settle, Declare, DeclareWrite, ClaimPaiement, Cascade, AddRow,
             AddCascade, orderVars
    <2> QED BY <1>3, <2>1, PaidQuiet
  <1>7. CASE PickUpWrite(p)
    BY <1>7 DEF PickUpWrite, CompletedIsPaid
  <1>8. CASE CancelWrite(p)
    <2>1. n # "syncW" /\ payee' = payee /\ \A x \in Order : commande'[x] = commande[x] \/ commande'[x] = "CANCELLED"
      BY <1>3, <1>8 DEF CancelWrite
    <2> QED BY <1>3, <2>1, OnlyOne DEF CompletedIsPaid
  <1>9. CASE SyncWrite(p)
    <2>1. n = "syncW" /\ commande' = [commande EXCEPT ![o] = a] /\ payee' = payee
      BY <1>3, <1>9 DEF SyncWrite
    <2>2. o \in Order
      BY <1>4, <2>1 DEF OrderNames
    <2>3. a = "COMPLETED" => payee[o]
      BY <1>3, <2>1 DEF Doing
    <2>4. ASSUME NEW x \in Order, commande'[x] = "COMPLETED" PROVE payee'[x]
      <3>1. CASE x = o
        BY <1>5, <2>1, <2>2, <2>3, <2>4, <3>1
      <3>2. CASE x # o
        <4>1. commande[x] = "COMPLETED" /\ ~BeingCancelled(x)
          BY <1>3, <1>5, <2>1, <2>4, <3>2, OnlyOne
        <4> QED BY <2>1, <4>1 DEF CompletedIsPaid
      <3> QED BY <3>1, <3>2
    <2> QED BY <2>4 DEF CompletedIsPaid
  <1>10. CASE ConfirmWrite(p) \/ FailWrite(p)
    <2>1. \E s : /\ commande' = [commande EXCEPT ![o] = s] /\ payee' = payee
                 /\ n # "syncW" /\ n \in OrderNames /\ (s = "COMPLETED" => payee[o])
      BY <1>3, <1>10 DEF ConfirmWrite, FailWrite, Doing, OrderNames
    <2>2. o \in Order
      BY <1>4, <2>1
    <2>3. ASSUME NEW x \in Order, commande'[x] = "COMPLETED" PROVE payee'[x]
      <3>1. CASE x = o
        BY <1>5, <2>1, <2>2, <2>3, <3>1
      <3>2. CASE x # o
        <4>1. commande[x] = "COMPLETED" /\ ~BeingCancelled(x)
          BY <1>3, <1>5, <2>1, <2>3, <3>2, OnlyOne
        <4> QED BY <2>1, <4>1 DEF CompletedIsPaid
      <3> QED BY <3>1, <3>2
    <2> QED BY <2>3 DEF CompletedIsPaid
  <1>11. CASE PaidWrite(p)
    <2>1. /\ n = "paidW" /\ payee' = [payee EXCEPT ![o] = TRUE]
          /\ commande' = IF a = "" THEN commande ELSE [commande EXCEPT ![o] = a]
      BY <1>3, <1>11 DEF PaidWrite
    <2>2. o \in Order
      BY <1>4, <2>1 DEF OrderNames
    <2>3. payee'[o] /\ \A x \in Order : x # o => payee'[x] = payee[x] /\ commande'[x] = commande[x]
      <3>1. payee'[o] /\ \A x \in Order : x # o => payee'[x] = payee[x]
        BY <1>5, <2>1, <2>2, Zenon
      <3>2. \A x \in Order : x # o => commande'[x] = commande[x]
        BY <1>5, <2>1
      <3> QED BY <3>1, <3>2
    <2>4. \A x : ~BeingCancelled(x)
      BY <1>3, <2>1, OnlyOne
    <2> QED BY <2>3, <2>4 DEF CompletedIsPaid
  <1>12. CASE Refund(p)
    <2>1. n = "refund" /\ Done(p) /\ commande' = commande /\ \A x \in Order : x # o => payee'[x] = payee[x]
      <3>1. n = "refund" /\ Done(p) /\ commande' = commande
        BY <1>3, <1>12 DEF Refund
      <3>2. PICK v : payee' = payee \/ payee' = [payee EXCEPT ![o] = v]
        BY <1>3, <1>12, Zenon DEF Refund
      <3> QED BY <1>5, <3>1, <3>2, Zenon
    <2>2. t = CancelNext
      BY <1>3, <2>1 DEF Follows
    <2>3. Holds(p, "syncW", "CANCELLED", <<>>, o)'
      BY <1>1, <1>2, <2>1, <2>2, DoneHolds, Tails, Zenon
    <2>4. BeingCancelled(o)'
      BY <2>3, HoldsNext, OnlyOne
    <2>5. \A x : ~BeingCancelled(x)
      BY <1>3, <2>1, OnlyOne
    <2> QED BY <2>1, <2>4, <2>5 DEF CompletedIsPaid
  <1> QED BY <1>6, <1>7, <1>8, <1>9, <1>10, <1>11, <1>12 DEF Steps

LEMMA NextPaid == ASSUME One, ~CanCrash, TInv, SeqInv, CompletedIsPaid, [Next]_vars PROVE CompletedIsPaid'
  <1>1. PICK p : Req = {p}
    BY DEF One
  <1>2. Turn(p) /\ p \in Req
    BY <1>1 DEF SeqInv
  <1>3. CASE Starts(p)
    <2>1. UNCHANGED <<commande, payee>> /\ ~At(p, "syncW")
      BY <1>2, <1>3, StartsStill DEF orderVars, At
    <2> QED BY <1>1, <2>1, PaidQuiet
  <1>4. CASE Steps(p)
    BY <1>1, <1>2, <1>4, StepsPaid
  <1>5. CASE UNCHANGED vars \/ \E o \in Order : TurboMoves(o) \/ TurboDrops(o)
    <2>1. UNCHANGED <<commande, payee, req>>
      BY <1>5 DEF vars, TurboMoves, TurboDrops, orderVars
    <2> QED BY <2>1 DEF CompletedIsPaid, BeingCancelled, Mine, At, Free, Arg
  <1>6. ~Crash(p)
    BY DEF Crash
  <1> QED BY <1>1, <1>3, <1>4, <1>5, <1>6 DEF Next

(* An order is never COMPLETED without being paid, when the handlers of    *)
(* the course follow one another and none stops half-way: updateStatus     *)
(* refunds the order and cancels it in two statements.                     *)
THEOREM OnlyPaidComplete == ASSUME One, ~CanCrash PROVE Spec => []CompletedIsPaid
  <1>1. Init => CompletedIsPaid
    BY DEF Init, CompletedIsPaid
  <1>2. TInv /\ SeqInv /\ CompletedIsPaid /\ [Next]_vars => CompletedIsPaid'
    BY NextPaid
  <1> QED BY <1>1, <1>2, Inductive, OneAtATime, PTL DEF Spec


-----------------------------------------------------------------------------
(* An order that was collected and waits for its money *)

(* CollectedInv for the one order o, when p is the handler that runs.      *)
Waits(o, p) == commande[o] = "COLLECTED" =>
    /\ payee[o] /\ Covered(o) =>
         Mine(p) = o /\ (At(p, "addCascade") \/ At(p, "cascade") \/ (At(p, "paidW") /\ Arg(p) = "COMPLETED"))
    /\ ~payee[o] /\ On("CHICKEN_NATION") =>
         \/ Pending(o) # {} \/ encaisse[o] > 0
         \/ Mine(p) = o /\ (At(p, "declare") \/ At(p, "declareW") \/ At(p, "syncW"))

LEMMA OnlyWaits ==
  ASSUME NEW p, Req = {p}
  PROVE  /\ CollectedInv <=> \A o \in Order : Waits(o, p)
         /\ CollectedInv' <=> \A o \in Order : Waits(o, p)'
  BY DEF CollectedInv, Waits

(* What is not touched of an order that the handler is not about.          *)
LEMMA OtherWaits ==
  ASSUME NEW p, NEW o, Waits(o, p),
         Mine(p) # o \/ \A m \in {"addCascade", "cascade", "paidW", "declare", "declareW", "syncW"} : ~At(p, m),
         UNCHANGED fleet, payee'[o] = payee[o], encaisse'[o] = encaisse[o], Pending(o) \subseteq Pending(o)',
         commande'[o] = commande[o]
  PROVE  Waits(o, p)'
  BY DEF Waits, On, Covered

LEMMA StepsCollected ==
  ASSUME TInv, NEW p, Req = {p}, Turn(p), CollectedInv, RowInv, Steps(p)
  PROVE  CollectedInv'
  <1>1. Reqs /\ p \in Req /\ ~Free(p) /\ fleet' = fleet
    BY DEF TInv, Steps, AdvanceCourse, CourseWrite, Close, PickUpWrite, CancelRead, CancelWrite, AlertWrite, AdvanceDelivery,
           DeliveryWrite, AttemptWrite, DropWrite, Left, LeftWrite, Sync, SyncWrite, Settle, Declare, DeclareWrite,
           ConfirmWrite, FailWrite, ClaimPaiement, Cascade, AddRow, AddCascade, PaidWrite, Refund, At, courseVars
  <1>2. PICK n, a, t, o : n \in Names /\ Holds(p, n, a, t, o)
    BY <1>1, SomeName
  <1>3. /\ Mine(p) = o /\ Arg(p) = a
        /\ \A m : At(p, m) <=> m = n
        /\ Follows(n, a, t) /\ Doing(n, a, t, o)
    BY <1>2, HoldsAt
  <1>4. (n \in OrderNames => o \in Order) /\ (n = "paidW" => a \in {"", "COMPLETED"}) /\ (n = "add" => a \in 1 .. TOTAL)
        /\ (n = "claim" => req[p].row \in Paiement)
    BY <1>1, <1>3, Held
  <1>5. /\ payee \in [Order -> BOOLEAN] /\ commande \in [Order -> DOMAIN OrderRank \cup {"CANCELLED"}]
        /\ encaisse \in [Order -> 0 .. TOTAL] /\ paiement \in [Paiement -> Row \cup {FreeRow}]
    BY DEF TInv, TypeOK
  <1>6. \A x \in Order : Waits(x, p)
    BY OnlyWaits
  <1>7. UNCHANGED paiement => \A x : Pending(x)' = Pending(x)
    BY DEF Pending
  <1>8. SUFFICES ASSUME NEW x \in Order PROVE Waits(x, p)'
    BY OnlyWaits
  <1>9. CASE \/ AdvanceCourse(p) \/ CourseWrite(p) \/ Close(p) \/ CancelRead(p) \/ AlertWrite(p)
             \/ AdvanceDelivery(p) \/ DeliveryWrite(p) \/ AttemptWrite(p)
             \/ DropWrite(p) \/ Left(p) \/ LeftWrite(p) \/ Sync(p) \/ Settle(p)
             \/ (ClaimPaiement(p) /\ UNCHANGED moneyVars)
    <2>1. UNCHANGED <<commande, payee, encaisse, paiement>>
      BY <1>9 DEF AdvanceCourse, CourseWrite, Close, CancelRead, AlertWrite, AdvanceDelivery, DeliveryWrite,
             AttemptWrite, DropWrite, Left, LeftWrite, Sync, Settle, ClaimPaiement, orderVars, moneyVars
    <2>2. n \notin {"addCascade", "cascade", "paidW", "declare", "declareW", "syncW"}
      BY <1>3, <1>9 DEF AdvanceCourse, CourseWrite, Close, CancelRead, AlertWrite, AdvanceDelivery, DeliveryWrite,
             AttemptWrite, DropWrite, Left, LeftWrite, Sync, Settle, ClaimPaiement
    <2> QED BY <1>1, <1>3, <1>6, <1>7, <2>1, <2>2, OtherWaits
  <1>10. CASE PickUpWrite(p)
    BY <1>10 DEF PickUpWrite, Waits
  <1>11. CASE CancelWrite(p)
    <2>1. /\ n = "cancelW" /\ UNCHANGED <<payee, encaisse, paiement>>
          /\ commande'[x] = commande[x] \/ commande'[x] = "CANCELLED"
      BY <1>3, <1>11 DEF CancelWrite, moneyVars
    <2>2. CASE commande'[x] = commande[x]
      BY <1>1, <1>3, <1>6, <1>7, <2>1, <2>2, OtherWaits
    <2> QED BY <2>1, <2>2 DEF Waits
  <1>12. CASE SyncWrite(p)
    <2>1. n = "syncW" /\ commande' = [commande EXCEPT ![o] = a] /\ UNCHANGED <<payee, encaisse, paiement>> /\ o \in Order
      BY <1>3, <1>4, <1>12 DEF SyncWrite, moneyVars, OrderNames
    <2>2. CASE x # o
      <3>1. commande'[x] = commande[x]
        BY <1>5, <2>1, <2>2
      <3> QED BY <1>1, <1>3, <1>6, <1>7, <2>1, <2>2, <3>1, OtherWaits
    <2>3. CASE x = o
      <3>1. commande'[o] = a
        BY <1>5, <2>1
      <3>2. a = "COLLECTED" => ~payee'[o] /\ ~On("CHICKEN_NATION")'
        BY <1>1, <1>3, <2>1 DEF Doing, On
      <3> QED BY <2>3, <3>1, <3>2 DEF Waits
    <2> QED BY <2>2, <2>3
  <1>13. CASE FailWrite(p)
    <2>1. n = "failW" /\ commande' = [commande EXCEPT ![o] = "CANCELLED"] /\ UNCHANGED <<payee, encaisse, paiement>>
      BY <1>3, <1>13 DEF FailWrite, moneyVars
    <2>2. CASE commande'[x] = commande[x]
      BY <1>1, <1>3, <1>6, <1>7, <2>1, <2>2, OtherWaits
    <2>3. CASE commande'[x] = "CANCELLED"
      BY <2>3 DEF Waits
    <2> QED BY <1>5, <2>1, <2>2, <2>3
  <1>14. CASE ConfirmWrite(p)
    <2>1. n = "confirmW" /\ commande' = [commande EXCEPT ![o] = a] /\ UNCHANGED <<payee, encaisse, paiement>> /\ o \in Order
          /\ Done(p)
      BY <1>3, <1>4, <1>14 DEF ConfirmWrite, moneyVars, OrderNames
    <2>2. CASE x # o
      <3>1. commande'[x] = commande[x]
        BY <1>5, <2>1, <2>2
      <3> QED BY <1>1, <1>3, <1>6, <1>7, <2>1, <2>2, <3>1, OtherWaits
    <2>3. CASE x = o /\ a = "COLLECTED"
      <3>1. t = DeclareHouse /\ ~payee'[o]
        BY <1>3, <2>1, <2>3 DEF Follows, Doing
      <3>2. Holds(p, "declare", "", HouseNext, o)'
        BY <1>1, <1>2, <2>1, <3>1, DoneHolds, Tails, Zenon
      <3>3. Mine(p)' = o /\ At(p, "declare")'
        BY <3>2, HoldsNext
      <3> QED BY <2>3, <3>1, <3>3 DEF Waits
    <2>4. CASE x = o /\ a # "COLLECTED"
      BY <1>5, <2>1, <2>4 DEF Waits
    <2> QED BY <2>2, <2>3, <2>4
  <1>15. CASE Declare(p)
    <2>1. n = "declare" /\ UNCHANGED <<commande, payee, encaisse, paiement>>
          /\ IF Pending(o) # {} THEN Done(p) ELSE Become(p, <<<<"declareW", "">>>>)
      BY <1>3, <1>15 DEF Declare, orderVars, moneyVars, Op
    <2>2. CASE x # o
      BY <1>1, <1>3, <1>6, <1>7, <2>1, <2>2, OtherWaits
    <2>3. CASE x = o /\ Pending(o) # {}
      <3>1. Waits(o, p) /\ Pending(o)' # {} /\ Covered(o)' = Covered(o)
        BY <1>6, <1>7, <2>1, <2>3 DEF Covered
      <3> QED BY <1>3, <2>1, <2>3, <3>1 DEF Waits
    <2>4. CASE x = o /\ Pending(o) = {}
      <3>1. Holds(p, "declareW", "", t, o)'
        BY <1>1, <1>2, <2>1, <2>4, BecomeHolds
      <3>2. Mine(p)' = o /\ At(p, "declareW")' /\ Covered(o)' = Covered(o) /\ Waits(o, p)
        BY <1>6, <2>1, <2>4, <3>1, HoldsNext DEF Covered
      <3> QED BY <1>3, <2>1, <2>4, <3>2 DEF Waits
    <2> QED BY <2>2, <2>3, <2>4
  <1>16. CASE DeclareWrite(p)
    <2>1. n = "declareW" /\ UNCHANGED <<commande, payee, encaisse>> /\ o \in Order /\ Pending(o) = {}
      BY <1>3, <1>4, <1>16 DEF DeclareWrite, orderVars, OrderNames, Doing
    <2>2. PICK b \in Batches : \E key \in [DOMAIN b -> Fresh] :
            /\ \A m \in DOMAIN b : paiement'[key[m]] = [order |-> Mine(p), mode |-> m, montant |-> b[m]]
            /\ \A i \in Paiement : (\A m \in DOMAIN b : key[m] # i) => paiement'[i] = paiement[i]
      BY <1>1, <1>3, <1>16, <2>1, Declared
    <2>3. PICK key \in [DOMAIN b -> Fresh] :
            /\ \A m \in DOMAIN b : paiement'[key[m]] = [order |-> o, mode |-> m, montant |-> b[m]]
            /\ \A i \in Paiement : (\A m \in DOMAIN b : key[m] # i) => paiement'[i] = paiement[i]
      BY <1>3, <2>2
    <2>4. \A m \in DOMAIN b : key[m] \in Paiement /\ paiement[key[m]] = FreeRow
      BY <2>3 DEF Fresh
    <2>5. CASE x # o
      <3>1. ASSUME NEW i \in Pending(x) PROVE i \in Pending(x)'
        <4>1. i \in Paiement /\ paiement[i].order = x
          BY <3>1 DEF Pending
        <4>2. paiement[i] # FreeRow
          BY <4>1, NoneAssumption DEF FreeRow
        <4>3. paiement'[i] = paiement[i]
          BY <2>3, <2>4, <4>1, <4>2
        <4> QED BY <4>1, <4>3 DEF Pending
      <3> QED BY <1>1, <1>3, <1>6, <2>1, <2>5, <3>1, OtherWaits
    <2>6. CASE x = o
      <3>1. PICK m : m \in DOMAIN b
        BY DEF Batches
      <3>2. PICK r : r = [order |-> o, mode |-> m, montant |-> b[m]]
        OBVIOUS
      <3>3. key[m] \in Paiement /\ paiement'[key[m]].order = o
        BY <2>3, <2>4, <3>1, <3>2
      <3>4. Pending(o)' # {}
        BY <3>3 DEF Pending
      <3>5. Waits(o, p) /\ Covered(o)' = Covered(o)
        BY <1>6, <2>1 DEF Covered
      <3> QED BY <1>3, <2>1, <2>6, <3>4, <3>5 DEF Waits
    <2> QED BY <2>5, <2>6
  <1>17. CASE Cascade(p)
    <2>1. n = "cascade" /\ UNCHANGED <<commande, payee, encaisse, paiement>>
          /\ IF ~Covered(o) THEN Done(p)
             ELSE Become(p, <<<<"paidW", IF commande[o] = "COLLECTED" THEN "COMPLETED" ELSE "">>>>)
      BY <1>3, <1>17 DEF Cascade, orderVars, moneyVars
    <2>2. CASE x # o
      BY <1>1, <1>3, <1>6, <1>7, <2>1, <2>2, OtherWaits
    <2>3. CASE x = o
      <3>1. Waits(o, p) /\ Covered(o)' = Covered(o) /\ Pending(o)' = Pending(o) /\ (On("CHICKEN_NATION")' <=> On("CHICKEN_NATION"))
        BY <1>1, <1>6, <1>7, <2>1, <2>3 DEF Covered, On
      <3>2. CASE Covered(o) /\ commande[o] = "COLLECTED"
        <4>1. Holds(p, "paidW", "COMPLETED", t, o)'
          BY <1>1, <1>2, <2>1, <3>2, BecomeHolds
        <4>2. Mine(p)' = o /\ At(p, "paidW")' /\ Arg(p)' = "COMPLETED"
          BY <4>1, HoldsNext
        <4> QED BY <1>3, <2>1, <2>3, <3>1, <4>2 DEF Waits
      <3>3. CASE ~Covered(o) \/ commande[o] # "COLLECTED"
        BY <1>3, <2>1, <2>3, <3>1, <3>3 DEF Waits
      <3> QED BY <3>2, <3>3
    <2> QED BY <2>2, <2>3
  <1>18. CASE AddCascade(p)
    <2>1. n = "addCascade" /\ UNCHANGED <<commande, payee, encaisse, paiement>>
          /\ Become(p, <<<<"paidW", IF Covered(o) /\ commande[o] = "COLLECTED" THEN "COMPLETED" ELSE "">>>>)
      BY <1>3, <1>18 DEF AddCascade, orderVars, moneyVars
    <2>2. CASE x # o
      BY <1>1, <1>3, <1>6, <1>7, <2>1, <2>2, OtherWaits
    <2>3. CASE x = o
      <3>1. Waits(o, p) /\ Covered(o)' = Covered(o) /\ Pending(o)' = Pending(o) /\ (On("CHICKEN_NATION")' <=> On("CHICKEN_NATION"))
        BY <1>1, <1>6, <1>7, <2>1, <2>3 DEF Covered, On
      <3>2. CASE Covered(o) /\ commande[o] = "COLLECTED"
        <4>1. Holds(p, "paidW", "COMPLETED", t, o)'
          BY <1>1, <1>2, <2>1, <3>2, BecomeHolds
        <4>2. Mine(p)' = o /\ At(p, "paidW")' /\ Arg(p)' = "COMPLETED"
          BY <4>1, HoldsNext
        <4> QED BY <1>3, <2>1, <2>3, <3>1, <4>2 DEF Waits
      <3>3. CASE ~Covered(o) \/ commande[o] # "COLLECTED"
        BY <1>3, <2>1, <2>3, <3>1, <3>3 DEF Waits
      <3> QED BY <3>2, <3>3
    <2> QED BY <2>2, <2>3
  <1>19. CASE AddRow(p)
    <2>1. n = "add" /\ UNCHANGED <<commande, payee, paiement>> /\ o \in Order /\ Done(p) /\ a \in 1 .. TOTAL
          /\ encaisse' = [encaisse EXCEPT ![o] = Min({TOTAL, encaisse[o] + a})]
      BY <1>3, <1>4, <1>19 DEF AddRow, orderVars, OrderNames
    <2>2. CASE x # o
      <3>1. encaisse'[x] = encaisse[x]
        BY <1>5, <2>1, <2>2
      <3> QED BY <1>1, <1>3, <1>6, <1>7, <2>1, <2>2, <3>1, OtherWaits
    <2>3. CASE x = o
      <3>1. encaisse[o] + a \in Nat /\ encaisse[o] + a > 0
        BY <1>5, <2>1 DEF TOTAL
      <3>2. encaisse'[o] > 0
        BY <1>5, <2>1, <3>1, MinType
      <3>3. t = AddNext
        BY <1>3, <2>1 DEF Follows
      <3>4. Holds(p, "addCascade", "", <<>>, o)'
        BY <1>1, <1>2, <2>1, <3>3, DoneHolds, Tails, Zenon
      <3>5. Mine(p)' = o /\ At(p, "addCascade")'
        BY <3>4, HoldsNext
      <3> QED BY <2>3, <3>2, <3>5 DEF Waits
    <2> QED BY <2>2, <2>3
  <1>20. CASE ClaimPaiement(p) /\ ~UNCHANGED moneyVars
    <2>1. PICK i : i = req[p].row
      OBVIOUS
    <2>2. /\ n = "claim" /\ UNCHANGED <<commande, payee>> /\ o \in Order /\ Done(p) /\ i \in Paiement /\ paiement[i] # FreeRow
          /\ encaisse' = [encaisse EXCEPT ![o] = Min({TOTAL, encaisse[o] + paiement[i].montant})]
          /\ paiement' = [paiement EXCEPT ![i] = FreeRow]
      BY <1>3, <1>4, <1>20, <2>1 DEF ClaimPaiement, orderVars, OrderNames
    <2>3. paiement[i].order = o /\ paiement[i].montant \in 1 .. TOTAL
      <3>1. i # NONE /\ req[p].order = o
        BY <1>2, <2>2, NoneAssumption DEF Holds
      <3>2. paiement[i].order = o
        BY <1>1, <2>1, <2>2, <3>1 DEF RowInv
      <3> QED BY <1>5, <2>2, <3>2 DEF Row
    <2>4. CASE x # o
      <3>1. Pending(x) \subseteq Pending(x)' /\ encaisse'[x] = encaisse[x]
        BY <1>5, <2>2, <2>3, <2>4 DEF Pending
      <3> QED BY <1>1, <1>3, <1>6, <2>2, <2>4, <3>1, OtherWaits
    <2>5. CASE x = o
      <3>1. encaisse[o] + paiement[i].montant \in Nat /\ encaisse[o] + paiement[i].montant > 0
        BY <1>5, <2>2, <2>3 DEF TOTAL
      <3>2. encaisse'[o] > 0
        BY <1>5, <2>2, <3>1, MinType
      <3>3. t = CascadeNext
        BY <1>3, <2>2 DEF Follows
      <3>4. Holds(p, "cascade", "", <<>>, o)'
        BY <1>1, <1>2, <2>2, <3>3, DoneHolds, Tails, Zenon
      <3>5. Mine(p)' = o /\ At(p, "cascade")'
        BY <3>4, HoldsNext
      <3> QED BY <2>5, <3>2, <3>5 DEF Waits
    <2> QED BY <2>4, <2>5
  <1>21. CASE PaidWrite(p)
    <2>1. /\ n = "paidW" /\ payee' = [payee EXCEPT ![o] = TRUE] /\ UNCHANGED <<encaisse, paiement>> /\ o \in Order
          /\ a \in {"", "COMPLETED"}
          /\ commande' = IF a = "" THEN commande ELSE [commande EXCEPT ![o] = a]
      BY <1>3, <1>4, <1>21 DEF PaidWrite, OrderNames, moneyVars
    <2>2. CASE x # o
      <3>1. commande'[x] = commande[x]
        BY <1>5, <2>1, <2>2
      <3>2. payee'[x] = payee[x]
        BY <1>5, <2>1, <2>2, Zenon
      <3> QED BY <1>1, <1>3, <1>6, <1>7, <2>1, <2>2, <3>1, <3>2, OtherWaits
    <2>3. CASE x = o
      <3>1. payee'[o]
        BY <1>5, <2>1, Zenon
      <3>2. commande'[o] = IF a = "" THEN commande[o] ELSE a
        BY <1>5, <2>1
      <3>3. Covered(o)' = Covered(o)
        BY <2>1 DEF Covered
      <3>4. a = "" => ~(Covered(o) /\ commande[o] = "COLLECTED")
        BY <1>3, <2>1 DEF Doing
      <3> QED BY <2>1, <2>3, <3>1, <3>2, <3>3, <3>4 DEF Waits
    <2> QED BY <2>2, <2>3
  <1>22. CASE Refund(p)
    <2>1. n = "refund" /\ Done(p) /\ UNCHANGED <<commande, paiement>> /\ o \in Order
      BY <1>3, <1>4, <1>22 DEF Refund, OrderNames
    <2>2. t = CancelNext
      BY <1>3, <2>1 DEF Follows
    <2>3. Holds(p, "syncW", "CANCELLED", <<>>, o)'
      BY <1>1, <1>2, <2>1, <2>2, DoneHolds, Tails, Zenon
    <2>4. Mine(p)' = o /\ At(p, "syncW")'
      BY <2>3, HoldsNext
    <2>5. CASE UNCHANGED <<encaisse, payee>>
      <3>1. Waits(x, p) /\ Covered(x)' = Covered(x) /\ Pending(x)' = Pending(x) /\ (On("CHICKEN_NATION")' <=> On("CHICKEN_NATION"))
        BY <1>1, <1>6, <1>7, <2>1, <2>5 DEF Covered, On
      <3> QED BY <1>3, <2>1, <2>5, <3>1 DEF Waits
    <2>6. CASE ~UNCHANGED <<encaisse, payee>>
      <3>1. PICK m \in 1 .. encaisse[o] :
              /\ encaisse' = [encaisse EXCEPT ![o] = @ - m]
              /\ payee' = [payee EXCEPT ![o] = encaisse'[o] >= TOTAL]
        BY <1>3, <1>22, <2>6, Zenon DEF Refund
      <3>2. CASE x # o
        <4>1. encaisse'[x] = encaisse[x]
          BY <1>5, <3>1, <3>2
        <4>2. PICK v : payee' = [payee EXCEPT ![o] = v]
          BY <3>1, Zenon
        <4>3. payee'[x] = payee[x]
          BY <1>5, <3>2, <4>2, Zenon
        <4> QED BY <1>1, <1>3, <1>6, <1>7, <2>1, <3>2, <4>1, <4>3, OtherWaits
      <3>3. CASE x = o
        <4>1. encaisse[o] \in 0 .. TOTAL /\ encaisse'[o] = encaisse[o] - m
          BY <1>5, <2>1, <3>1
        <4>2. ~Covered(o)'
          BY <3>1, <4>1 DEF Covered, TOTAL
        <4> QED BY <2>4, <3>3, <4>2 DEF Waits
      <3> QED BY <3>2, <3>3
    <2> QED BY <2>5, <2>6
  <1> QED BY <1>9, <1>10, <1>11, <1>12, <1>13, <1>14, <1>15, <1>16, <1>17, <1>18, <1>19, <1>20, <1>21, <1>22 DEF Steps

LEMMA NextCollected ==
  ASSUME One, ~CanCrash, TInv, SeqInv, RowInv, CollectedInv, [Next]_vars PROVE CollectedInv'
  <1>1. PICK p : Req = {p}
    BY DEF One
  <1>2. Turn(p) /\ p \in Req
    BY <1>1 DEF SeqInv
  <1>3. CASE Starts(p)
    <2>1. Free(p) /\ UNCHANGED <<fleet, commande, payee, encaisse, paiement>>
      BY <1>2, <1>3, StartsStill DEF orderVars, courseVars, moneyVars
    <2>2. \A o \in Order : Waits(o, p)
      BY <1>1, OnlyWaits
    <2>3. \A o \in Order : Pending(o)' = Pending(o)
      BY <2>1 DEF Pending
    <2>4. \A m : ~At(p, m)
      BY <2>1 DEF At
    <2>5. ASSUME NEW o \in Order PROVE Waits(o, p)'
      BY <2>1, <2>2, <2>3, <2>4, OtherWaits
    <2> QED BY <1>1, <2>5, OnlyWaits
  <1>4. CASE Steps(p)
    BY <1>1, <1>2, <1>4, StepsCollected
  <1>5. CASE UNCHANGED vars \/ \E o \in Order : TurboMoves(o) \/ TurboDrops(o)
    <2>1. UNCHANGED <<fleet, commande, payee, encaisse, paiement, req>>
      BY <1>5 DEF vars, TurboMoves, TurboDrops, orderVars, courseVars, moneyVars
    <2> QED BY <2>1 DEF CollectedInv, Mine, At, Free, Arg, Covered, On, Pending
  <1>6. ~Crash(p)
    BY DEF Crash
  <1> QED BY <1>1, <1>3, <1>4, <1>5, <1>6 DEF Next

LEMMA InitCollected == ASSUME Init PROVE CollectedInv
  BY DEF Init, CollectedInv

(* Where the money of a collected order is while the one handler that may  *)
(* touch it is between two statements (CollectedInv).                      *)
THEOREM CollectedMoves == ASSUME One, ~CanCrash PROVE Spec => []CollectedInv
  <1>1. TInv /\ SeqInv /\ RowInv /\ CollectedInv /\ [Next]_vars => CollectedInv'
    BY NextCollected
  <1>2. Init => CollectedInv
    BY InitCollected
  <1> QED BY <1>1, <1>2, Inductive, OneAtATime, RowsHeld, PTL DEF Spec

(* Between two handlers, an order of the house that was collected unpaid   *)
(* has money that waits for confirmation, or is part paid: the livreur     *)
(* declares right after he confirms (enregistrerEncaissementLivreur).      *)
THEOREM CollectedIsPayable == ASSUME One, ~CanCrash PROVE Spec => []CollectedCanBePaid
  <1>1. CollectedInv => CollectedCanBePaid
    BY DEF CollectedInv, CollectedCanBePaid, At
  <1> QED BY <1>1, CollectedMoves, PTL

(* Between two handlers no order waits COLLECTED and paid in full: the     *)
(* confirmation of its money completed it (cascade of the confirmation,    *)
(* addPaiement), or its collection found it unpaid.                        *)
THEOREM PaidComplete == ASSUME One, ~CanCrash PROVE Spec => []PaidIsCompleted
  <1>1. CollectedInv => PaidIsCompleted
    BY DEF CollectedInv, PaidIsCompleted, At
  <1> QED BY <1>1, CollectedMoves, PTL


-----------------------------------------------------------------------------
(* The orders follow their course: refinement of OrderTracking *)

LEMMA CarefulAt ==
  ASSUME NEW p, NEW n, NEW a, NEW t, NEW o, Holds(p, n, a, t, o)
  PROVE  (~Free(p) => Careful(Head(req[p].prog)[1], Arg(p), Mine(p))) <=> Careful(n, a, o)
  <1>1. PICK h : h = Head(req[p].prog)
    OBVIOUS
  <1>2. h[1] = n /\ Arg(p) = a /\ Mine(p) = o /\ ~Free(p)
    BY <1>1, HoldsAt DEF Holds
  <1> QED BY <1>1, <1>2, Zenon

LEMMA CarefulNext ==
  ASSUME NEW p, NEW n, NEW a, NEW t, NEW o, Holds(p, n, a, t, o)', Careful(n, a, o)'
  PROVE  (~Free(p) => Careful(Head(req[p].prog)[1], Arg(p), Mine(p)))'
  <1>1. PICK h : h = Head(req'[p].prog)
    OBVIOUS
  <1>2. h[1] = n /\ Arg(p)' = a /\ Mine(p)' = o
    BY <1>1, HoldsNext DEF Holds
  <1> QED BY <1>1, <1>2, Zenon

LEMMA CarefulOne ==
  ASSUME NEW p, Req = {p}
  PROVE  /\ HouseInv <=> OrdersFollow /\ (~Free(p) => Careful(Head(req[p].prog)[1], Arg(p), Mine(p)))
         /\ HouseInv' <=> OrdersFollow' /\ (~Free(p) => Careful(Head(req[p].prog)[1], Arg(p), Mine(p)))'
  BY DEF HouseInv

(* The statements of a program that no check precedes.                     *)
LEMMA DoneNext ==
  ASSUME Reqs, NEW p \in Req, NEW n \in Names, NEW a, NEW t, NEW o, Holds(p, n, a, t, o), Follows(n, a, t), Done(p)
  PROVE  \/ Free(p)'
         \/ \E m \in {"delivery", "sync", "close", "settle", "declare", "cascade", "addCascade"} : \E b, u : Holds(p, m, b, u, o)'
         \/ n = "refund" /\ Holds(p, "syncW", "CANCELLED", <<>>, o)'
  <1>1. CASE t = <<>>
    BY <1>1, DoneHolds
  <1>2. CASE t # <<>>
    <2>1. \A m, b, u : Head(t) = <<m, b>> /\ Tail(t) = u => Holds(p, m, b, u, o)'
      BY <1>2, DoneHolds, Zenon
    <2>2. \/ t \in {TransitNext, PickedNext, HandedNext, SettleNext, CloseNext, HouseNext, CollectNext, CollectThen, CompleteThen,
                    DeclareThen, DeclareHouse, CascadeNext, AddNext}
          \/ n = "refund" /\ t = CancelNext
      BY <1>2 DEF Follows, Names, OrderNames
    <2>3. CASE n = "refund" /\ t = CancelNext
      BY <2>1, <2>3, Tails, Zenon
    <2>4. CASE t \in {TransitNext, PickedNext, HandedNext, SettleNext, CloseNext, HouseNext, CollectNext, CollectThen, CompleteThen,
                      DeclareThen, DeclareHouse, CascadeNext, AddNext}
      <3>1. \E m \in {"delivery", "sync", "close", "settle", "declare", "cascade", "addCascade"} : \E b : Head(t) = <<m, b>>
        BY <2>4, Tails
      <3> QED BY <2>1, <3>1
    <2> QED BY <2>2, <2>3, <2>4
  <1> QED BY <1>1, <1>2

(* What a step leaves to the handler is careful again.                     *)
LEMMA StepsCareful ==
  ASSUME TInv, NEW p, Req = {p}, Turn(p), OrdersFollow, Steps(p), ~Free(p) => Careful(Head(req[p].prog)[1], Arg(p), Mine(p))
  PROVE  (~Free(p) => Careful(Head(req[p].prog)[1], Arg(p), Mine(p)))'
  <1>1. Reqs /\ p \in Req /\ ~Free(p) /\ fleet' = fleet /\ (Done(p) \/ Stop(p) \/ \E s : Become(p, s))
    BY DEF TInv, Steps, AdvanceCourse, CourseWrite, Close, PickUpWrite, CancelRead, CancelWrite, AlertWrite, AdvanceDelivery,
           DeliveryWrite, AttemptWrite, DropWrite, Left, LeftWrite, Sync, SyncWrite, Settle, Declare, DeclareWrite,
           ConfirmWrite, FailWrite, ClaimPaiement, Cascade, AddRow, AddCascade, PaidWrite, Refund, At, courseVars
  <1>2. PICK n, a, t, o : n \in Names /\ Holds(p, n, a, t, o)
    BY <1>1, SomeName
  <1>3. /\ Mine(p) = o /\ Arg(p) = a
        /\ \A m : At(p, m) <=> m = n
        /\ Follows(n, a, t) /\ Doing(n, a, t, o) /\ Careful(n, a, o)
    BY <1>1, <1>2, HoldsAt, CarefulAt
  <1>4. On("CHICKEN_NATION")' <=> On("CHICKEN_NATION")
    BY <1>1 DEF On
  <1>5. CASE Stop(p)
    BY <1>1, <1>5, FreeTurn
  <1>6. CASE Done(p)
    <2>1. ASSUME NEW m \in {"delivery", "sync", "close", "settle", "declare", "cascade", "addCascade"}, NEW b, NEW u,
                 Holds(p, m, b, u, o)'
          PROVE  (~Free(p) => Careful(Head(req[p].prog)[1], Arg(p), Mine(p)))'
      <3>1. Careful(m, b, o)'
        BY DEF Careful
      <3> QED BY <2>1, <3>1, CarefulNext
    <2>2. ASSUME n = "refund", Holds(p, "syncW", "CANCELLED", <<>>, o)'
          PROVE  (~Free(p) => Careful(Head(req[p].prog)[1], Arg(p), Mine(p)))'
      <3>1. ~On("CHICKEN_NATION")'
        BY <1>3, <1>4, <2>2 DEF Careful
      <3>2. Careful("syncW", "CANCELLED", o)'
        BY <3>1 DEF Careful
      <3> QED BY <2>2, <3>2, CarefulNext
    <2> QED BY <1>1, <1>2, <1>3, <1>6, <2>1, <2>2, DoneNext
  <1>7. ASSUME NEW m, NEW b, Become(p, <<<<m, b>>>>), Careful(m, b, o)'
        PROVE  (~Free(p) => Careful(Head(req[p].prog)[1], Arg(p), Mine(p)))'
    BY <1>1, <1>2, <1>7, BecomeHolds, CarefulNext
  <1>8. CASE AdvanceCourse(p) /\ ~Done(p)
    <2>1. n = "course" /\ Become(p, <<<<"courseW", a>>>>)
      BY <1>3, <1>8 DEF AdvanceCourse
    <2>2. Careful("courseW", a, o)'
      BY <1>3, <1>4, <2>1 DEF Careful, Doing
    <2> QED BY <1>7, <2>1, <2>2
  <1>9. CASE Close(p) /\ ~Done(p)
    <2>1. Become(p, <<<<a, "COMPLETED">>>>) /\ a \in {"course", "courseW"}
      BY <1>1, <1>3, <1>9, Held DEF Close
    <2>2. Careful(a, "COMPLETED", o)'
      BY <2>1 DEF Careful
    <2> QED BY <1>7, <2>1, <2>2
  <1>10. CASE CancelRead(p) /\ ~Stop(p)
    <2>1. Become(p, <<<<"cancelW", "">>>>)
      BY <1>10 DEF CancelRead, Op
    <2>2. Careful("cancelW", "", o)'
      BY DEF Careful
    <2> QED BY <1>7, <2>1, <2>2
  <1>11. CASE (DropWrite(p) \/ Left(p)) /\ ~Done(p)
    <2>1. n \in {"drop", "left"} /\ \E m \in {"left", "leftW"} : Become(p, <<<<m, "">>>>)
      BY <1>3, <1>11 DEF DropWrite, Left, Op
    <2>2. PICK m \in {"left", "leftW"} : Become(p, <<<<m, "">>>>)
      BY <2>1
    <2>3. Careful(m, "", o)'
      BY <1>3, <1>4, <2>1 DEF Careful
    <2> QED BY <1>7, <2>2, <2>3
  <1>12. CASE Sync(p) /\ ~Done(p)
    <2>1. n = "sync" /\ Become(p, <<<<"syncW", a>>>>)
      BY <1>3, <1>12 DEF Sync
    <2>2. Careful("syncW", a, o)'
      BY <1>3, <1>4, <2>1 DEF Careful, Doing
    <2> QED BY <1>7, <2>1, <2>2
  <1>13. CASE Settle(p) /\ ~Done(p)
    <2>1. n = "settle" /\ t = <<>> /\ ~On("CHICKEN_NATION")'
      BY <1>3, <1>4, <1>13 DEF Settle, Follows, Doing
    <2>2. CASE payee[o]
      <3>1. Become(p, <<<<"sync", "COMPLETED">>>>)
        BY <1>3, <1>13, <2>2 DEF Settle
      <3>2. Careful("sync", "COMPLETED", o)'
        BY DEF Careful
      <3> QED BY <1>7, <3>1, <3>2
    <2>3. CASE ~payee[o]
      <3>1. PICK x, y : x = <<"declare", "">> /\ y = <<"sync", "COLLECTED">>
        OBVIOUS
      <3>2. Become(p, <<x, y>>)
        BY <1>3, <1>13, <2>3, <3>1 DEF Settle, Op
      <3>3. Head(req'[p].prog) = x /\ Tail(req'[p].prog) = <<y>> /\ ~Free(p)' /\ req'[p].order = o
        BY <1>1, <1>2, <2>1, <3>2, GrownHolds
      <3>4. Holds(p, "declare", "", <<y>>, o)'
        BY <3>1, <3>3 DEF Holds
      <3>5. Careful("declare", "", o)'
        BY DEF Careful
      <3> QED BY <3>4, <3>5, CarefulNext
    <2> QED BY <2>2, <2>3
  <1>14. CASE Declare(p) /\ ~Done(p)
    <2>1. Become(p, <<<<"declareW", "">>>>)
      BY <1>14 DEF Declare, Op
    <2>2. Careful("declareW", "", o)'
      BY DEF Careful
    <2> QED BY <1>7, <2>1, <2>2
  <1>15. CASE (Cascade(p) \/ AddCascade(p)) /\ ~Done(p)
    <2>1. commande' = commande /\ \E b : Become(p, <<<<"paidW", b>>>>) /\ (b = "" \/ commande[o] = "COLLECTED")
      BY <1>3, <1>15 DEF Cascade, AddCascade, orderVars
    <2>2. PICK b : Become(p, <<<<"paidW", b>>>>) /\ (b = "" \/ commande[o] = "COLLECTED")
      BY <2>1
    <2>3. Careful("paidW", b, o)'
      BY <2>1, <2>2 DEF Careful
    <2> QED BY <1>7, <2>2, <2>3
  <1>16. \/ Done(p) \/ Stop(p) \/ AdvanceCourse(p) \/ Close(p) \/ CancelRead(p) \/ DropWrite(p) \/ Left(p) \/ Sync(p)
         \/ Settle(p) \/ Declare(p) \/ Cascade(p) \/ AddCascade(p)
    BY DEF Steps, CourseWrite, PickUpWrite, CancelWrite, AlertWrite, AdvanceDelivery, DeliveryWrite, AttemptWrite, LeftWrite,
           SyncWrite, DeclareWrite, ConfirmWrite, FailWrite, ClaimPaiement, AddRow, PaidWrite, Refund
  <1> QED BY <1>5, <1>6, <1>8, <1>9, <1>10, <1>11, <1>12, <1>13, <1>14, <1>15, <1>16


LEMMA FollowStill ==
  ASSUME OrdersFollow, UNCHANGED <<fleet, statut, livraison, commande, dropped>> PROVE OrdersFollow'
  BY DEF OrdersFollow, On

LEMMA StepsFollow ==
  ASSUME TInv, NEW p, Req = {p}, Turn(p), CourseDone, OrdersFollow, Steps(p),
         ~Free(p) => Careful(Head(req[p].prog)[1], Arg(p), Mine(p))
  PROVE  OrdersFollow'
  <1>1. Reqs /\ p \in Req /\ ~Free(p) /\ fleet' = fleet /\ dropped' = dropped
    BY DEF TInv, Steps, AdvanceCourse, CourseWrite, Close, PickUpWrite, CancelRead, CancelWrite, AlertWrite, AdvanceDelivery,
           DeliveryWrite, AttemptWrite, DropWrite, Left, LeftWrite, Sync, SyncWrite, Settle, Declare, DeclareWrite,
           ConfirmWrite, FailWrite, ClaimPaiement, Cascade, AddRow, AddCascade, PaidWrite, Refund, At, courseVars, worldVars
  <1>2. PICK n, a, t, o : n \in Names /\ Holds(p, n, a, t, o)
    BY <1>1, SomeName
  <1>3. /\ Mine(p) = o /\ Arg(p) = a
        /\ \A m : At(p, m) <=> m = n
        /\ Follows(n, a, t) /\ Doing(n, a, t, o) /\ Careful(n, a, o)
    BY <1>1, <1>2, HoldsAt, CarefulAt
  <1>4. (n \in OrderNames => o \in Order) /\ (n = "deliveryW" => a \in {"IN_ROUTE", "ARRIVED", "DELIVERED"})
        /\ (n = "paidW" => a \in {"", "COMPLETED"})
    BY <1>1, <1>3, Held
  <1>5. /\ livraison \in [Order -> DOMAIN DeliveryRank \cup {"FAILED", "CANCELLED"}]
        /\ commande \in [Order -> DOMAIN OrderRank \cup {"CANCELLED"}]
    BY DEF TInv, TypeOK
  <1>6. SUFFICES ASSUME On("CHICKEN_NATION"), NEW x \in Order, livraison'[x] \notin DeliveryOver
                 PROVE  commande'[x] = IF statut' \in {"ACCEPTED", "AT_RESTAURANT"} THEN "READY" ELSE "PICKED_UP"
    BY <1>1 DEF OrdersFollow, On
  <1>7. CASE \/ AdvanceCourse(p) \/ Close(p) \/ CancelRead(p) \/ AlertWrite(p) \/ AttemptWrite(p) \/ Left(p) \/ Sync(p)
             \/ Settle(p) \/ Declare(p) \/ DeclareWrite(p) \/ ClaimPaiement(p) \/ Cascade(p) \/ AddRow(p) \/ AddCascade(p)
             \/ Refund(p)
    <2>1. UNCHANGED <<statut, livraison, commande>>
      BY <1>7 DEF AdvanceCourse, Close, CancelRead, AlertWrite, AttemptWrite, Left, Sync, Settle, Declare, DeclareWrite,
             ClaimPaiement, Cascade, AddRow, AddCascade, Refund, courseVars, orderVars
    <2> QED BY <1>1, <1>6, <2>1, FollowStill DEF OrdersFollow, On
  <1>8. livraison[x] \notin DeliveryOver => commande[x] = IF statut \in {"ACCEPTED", "AT_RESTAURANT"} THEN "READY" ELSE "PICKED_UP"
    BY <1>6 DEF OrdersFollow
  <1>9. CASE CourseWrite(p)
    <2>1. n = "courseW" /\ statut' = a /\ UNCHANGED <<livraison, commande>>
      BY <1>3, <1>9 DEF CourseWrite, orderVars
    <2>2. a # "COMPLETED"
      BY <1>3, <1>6, <2>1 DEF Doing, AllOver
    <2>3. a = "AT_RESTAURANT" /\ statut = "ACCEPTED"
      BY <1>3, <1>6, <2>1, <2>2 DEF Careful
    <2> QED BY <1>6, <1>8, <2>1, <2>3
  <1>10. CASE PickUpWrite(p)
    BY <1>10 DEF PickUpWrite
  <1>11. CASE CancelWrite(p)
    <2>1. livraison' = [y \in Order |-> IF livraison[y] \in DeliveryOver THEN livraison[y] ELSE "CANCELLED"]
      BY <1>11 DEF CancelWrite
    <2>2. livraison'[x] \in DeliveryOver
      BY <2>1 DEF DeliveryOver
    <2> QED BY <1>6, <2>2
  <1>12. CASE AdvanceDelivery(p) \/ DropWrite(p) \/ LeftWrite(p) \/ SyncWrite(p)
    <2>1. n \in {"delivery", "drop", "leftW", "syncW"}
      BY <1>3, <1>12 DEF AdvanceDelivery, DropWrite, LeftWrite, SyncWrite
    <2> QED BY <1>3, <1>6, <2>1 DEF Doing, Careful
  <1>13. CASE DeliveryWrite(p)
    <2>1. n = "deliveryW" /\ UNCHANGED <<statut, commande>> /\ livraison' = [livraison EXCEPT ![o] = a]
      BY <1>3, <1>13 DEF DeliveryWrite, courseVars
    <2>2. livraison[o] \notin DeliveryOver
      BY <1>3, <1>6, <2>1 DEF Doing
    <2>3. livraison[x] \notin DeliveryOver
      BY <1>5, <1>6, <2>1, <2>2
    <2> QED BY <1>8, <2>1, <2>3
  <1>14. CASE ConfirmWrite(p) \/ FailWrite(p)
    <2>1. n \in OrderNames /\ statut' = statut
      BY <1>3, <1>14 DEF ConfirmWrite, FailWrite, OrderNames, courseVars
    <2>2. PICK d, c : livraison' = [livraison EXCEPT ![o] = d] /\ d \in DeliveryOver /\ commande' = [commande EXCEPT ![o] = c]
      BY <1>3, <1>14 DEF ConfirmWrite, FailWrite, DeliveryOver
    <2>3. x # o
      BY <1>4, <1>5, <1>6, <2>1, <2>2
    <2>4. livraison'[x] = livraison[x] /\ commande'[x] = commande[x]
      BY <1>5, <2>2, <2>3
    <2> QED BY <1>6, <1>8, <2>1, <2>4
  <1>15. CASE PaidWrite(p)
    <2>1. n = "paidW" /\ UNCHANGED <<statut, livraison>> /\ o \in Order
          /\ commande' = IF a = "" THEN commande ELSE [commande EXCEPT ![o] = a]
      BY <1>3, <1>4, <1>15 DEF PaidWrite, courseVars, OrderNames
    <2>2. a = "" \/ x # o
      BY <1>3, <1>6, <1>8, <2>1 DEF Careful
    <2>3. commande'[x] = commande[x]
      BY <1>5, <2>1, <2>2
    <2> QED BY <1>6, <1>8, <2>1, <2>3
  <1> QED BY <1>7, <1>9, <1>10, <1>11, <1>12, <1>13, <1>14, <1>15 DEF Steps

LEMMA NextHouse == ASSUME One, Respectful, TInv, SeqInv, HouseInv, [Next]_vars PROVE HouseInv'
  <1>1. PICK p : Req = {p}
    BY DEF One
  <1>2. /\ p \in Req /\ Turn(p) /\ CourseDone /\ Reqs
        /\ OrdersFollow /\ (~Free(p) => Careful(Head(req[p].prog)[1], Arg(p), Mine(p)))
    BY <1>1, CarefulOne DEF SeqInv, TInv
  <1>3. CASE Starts(p)
    <2>1. UNCHANGED <<fleet, statut, livraison, commande, dropped>>
      BY <1>2, <1>3, StartsStill DEF courseVars, orderVars, worldVars
    <2>2. PICK m, b, u, o : Holds(p, m, b, u, o)' /\ Checked(m, b, o)
      BY <1>2, <1>3, StartsTurn
    <2>3. ~(On("CHICKEN_NATION") /\ (May("markPickedUp") \/ May("adminCancel"))) /\ ~May("cash")
      BY <1>2 DEF Respectful, On, May, TInv, TypeOK, Fleets
    <2>4. On("CHICKEN_NATION")' <=> On("CHICKEN_NATION")
      BY <2>1 DEF On
    <2>5. ~(On("CHICKEN_NATION") /\ m = "drop")
      BY <1>2, <2>2 DEF Checked, OrdersFollow
    <2>6. Careful(m, b, o)'
      <3>1. m = "pickupW" => \A x \in Order : commande'[x] = "READY"
        BY <2>1, <2>2, <2>3 DEF Checked
      <3>2. m = "confirmW" => /\ On("CHICKEN_NATION")' /\ statut' = "IN_DELIVERY" /\ livraison'[o] = "ARRIVED"
                              /\ b \in {"COLLECTED", "COMPLETED"}
        BY <2>1, <2>2, <2>4 DEF Checked, Owned
      <3>3. m # "paidW"
        BY <2>2, <2>3 DEF Checked
      <3>4. On("CHICKEN_NATION")' => /\ m \notin {"refund", "syncW", "drop", "left", "leftW"}
                                     /\ m = "courseW" => b = "AT_RESTAURANT" /\ statut' = "ACCEPTED"
        BY <2>1, <2>2, <2>3, <2>4, <2>5 DEF Checked
      <3> QED BY <3>1, <3>2, <3>3, <3>4 DEF Careful
    <2> QED BY <1>1, <1>2, <2>1, <2>2, <2>6, CarefulNext, CarefulOne, FollowStill
  <1>4. CASE Steps(p)
    BY <1>1, <1>2, <1>4, StepsCareful, StepsFollow, CarefulOne
  <1>5. CASE Crash(p)
    <2>1. UNCHANGED <<fleet, statut, livraison, commande, dropped>> /\ Stop(p)
      BY <1>5 DEF Crash, courseVars, orderVars, worldVars
    <2> QED BY <1>1, <1>2, <2>1, FreeTurn, CarefulOne, FollowStill
  <1>6. CASE UNCHANGED vars \/ \E o \in Order : TurboMoves(o) \/ TurboDrops(o)
    <2>1. UNCHANGED <<req, fleet, statut, livraison, commande>> /\ (On("CHICKEN_NATION") => dropped' = dropped)
      BY <1>6 DEF vars, TurboMoves, TurboDrops, courseVars, orderVars, On
    <2>2. OrdersFollow'
      BY <1>2, <2>1 DEF OrdersFollow, On
    <2>3. ~Free(p)' => Careful(Head(req[p].prog)[1], Arg(p), Mine(p))'
      BY <1>2, <2>1 DEF Careful, Free, Arg, Mine, On
    <2> QED BY <1>1, <2>2, <2>3, CarefulOne
  <1> QED BY <1>1, <1>3, <1>4, <1>5, <1>6 DEF Next


LEMMA InitHouse == ASSUME Init PROVE HouseInv
  <1>1. \A p \in Req : Free(p)
    BY DEF Init, Free, Idle
  <1>2. OrdersFollow
    BY DEF Init, OrdersFollow, On, DeliveryOver
  <1> QED BY <1>1, <1>2 DEF HouseInv

(* When the operations look at the order they write and the handlers       *)
(* follow one another, the orders of the house follow their course.        *)
THEOREM HouseFollows == ASSUME One, Respectful PROVE Spec => []HouseInv
  <1>1. Init => HouseInv
    BY InitHouse
  <1>2. TInv /\ SeqInv /\ HouseInv /\ [Next]_vars => HouseInv'
    BY NextHouse
  <1> QED BY <1>1, <1>2, Inductive, OneAtATime, PTL DEF Spec

LEMMA TrackStill == ASSUME UNCHANGED <<commande, payee>> PROVE [Tracking!Next]_(Tracking!vars)
  BY DEF Tracking!vars

LEMMA TrackAdvance ==
  ASSUME NEW o \in Order, NEW s \in Stages, Lower(o, s), commande[o] \in DOMAIN OrderRank \cup {"CANCELLED"},
         commande' = [commande EXCEPT ![o] = s],
         payee' = payee \/ payee' = [payee EXCEPT ![o] = TRUE], s = "COMPLETED" => payee'[o]
  PROVE  [Tracking!Next]_(Tracking!vars)
  <1>1. s \in DOMAIN Tracking!Rank
    BY DEF Tracking!Rank, Stages
  <1>2. commande[o] \notin Tracking!Over /\ Tracking!Rank[s] > Tracking!Rank[commande[o]]
    BY DEF Lower, Tracking!Rank, Tracking!Over, OrderRank, OrderOver, Stages
  <1>3. Tracking!Advance(o, s)
    BY <1>2, Zenon DEF Tracking!Advance
  <1> QED BY <1>1, <1>3 DEF Tracking!Next

LEMMA StepsTrack ==
  ASSUME TInv, NEW p, Req = {p}, Turn(p), HouseInv, Steps(p)
  PROVE  [Tracking!Next]_(Tracking!vars)
  <1>1. Reqs /\ p \in Req /\ ~Free(p)
    BY DEF TInv, Steps, AdvanceCourse, CourseWrite, Close, PickUpWrite, CancelRead, CancelWrite, AlertWrite, AdvanceDelivery,
           DeliveryWrite, AttemptWrite, DropWrite, Left, LeftWrite, Sync, SyncWrite, Settle, Declare, DeclareWrite,
           ConfirmWrite, FailWrite, ClaimPaiement, Cascade, AddRow, AddCascade, PaidWrite, Refund, At
  <1>2. PICK n, a, t, o : n \in Names /\ Holds(p, n, a, t, o)
    BY <1>1, SomeName
  <1>3. /\ Mine(p) = o /\ Arg(p) = a
        /\ \A m : At(p, m) <=> m = n
        /\ Doing(n, a, t, o) /\ Careful(n, a, o) /\ OrdersFollow
    BY <1>1, <1>2, HoldsAt, CarefulAt, CarefulOne
  <1>4. /\ n \in OrderNames => o \in Order
        /\ n = "syncW" => a \in Stages \cup {"CANCELLED"}
        /\ n = "paidW" => a \in {"", "COMPLETED"}
    BY <1>1, <1>3, Held
  <1>5. /\ payee \in [Order -> BOOLEAN] /\ commande \in [Order -> DOMAIN OrderRank \cup {"CANCELLED"}]
        /\ encaisse \in [Order -> 0 .. TOTAL]
    BY DEF TInv, TypeOK
  <1>6. CASE \/ AdvanceCourse(p) \/ CourseWrite(p) \/ Close(p) \/ CancelRead(p) \/ AlertWrite(p)
             \/ AdvanceDelivery(p) \/ DeliveryWrite(p) \/ AttemptWrite(p)
             \/ DropWrite(p) \/ Left(p) \/ LeftWrite(p)
             \/ Sync(p) \/ Settle(p) \/ Declare(p) \/ DeclareWrite(p)
             \/ ClaimPaiement(p) \/ Cascade(p) \/ AddRow(p) \/ AddCascade(p)
    <2>1. UNCHANGED <<commande, payee>>
      BY <1>6 DEF AdvanceCourse, CourseWrite, Close, CancelRead, AlertWrite, AdvanceDelivery, DeliveryWrite,
             AttemptWrite, DropWrite, Left, LeftWrite, Sync, Settle, Declare, DeclareWrite, ClaimPaiement, Cascade, AddRow,
             AddCascade, orderVars
    <2> QED BY <2>1, TrackStill
  <1>7. CASE PickUpWrite(p)
    <2>1. /\ \A x \in Order : commande[x] = "READY"
          /\ commande' = [x \in Order |-> "PICKED_UP"] /\ payee' = payee
      BY <1>3, <1>7 DEF PickUpWrite, Careful
    <2>2. Tracking!PickUp(Order)
      BY <2>1 DEF Tracking!PickUp
    <2>3. Order \in SUBSET Order
      OBVIOUS
    <2> QED BY <2>2, <2>3 DEF Tracking!Next
  <1>8. CASE CancelWrite(p)
    <2>1. /\ livraison' = [x \in Order |-> IF livraison[x] \in DeliveryOver THEN livraison[x] ELSE "CANCELLED"]
          /\ commande' = [x \in Order |->
               IF livraison'[x] \notin DeliveryOver /\ commande[x] \notin OrderOver THEN "CANCELLED" ELSE commande[x]]
          /\ payee' = payee
      BY <1>8 DEF CancelWrite
    <2>2. \A x \in Order : livraison'[x] \in DeliveryOver
      BY <2>1 DEF DeliveryOver
    <2>3. commande' = commande
      BY <1>5, <2>1, <2>2
    <2> QED BY <2>1, <2>3, TrackStill
  <1>9. CASE SyncWrite(p)
    <2>1. n = "syncW" /\ commande' = [commande EXCEPT ![o] = a] /\ payee' = payee /\ o \in Order
      BY <1>3, <1>4, <1>9 DEF SyncWrite, OrderNames
    <2>2. CASE a = "CANCELLED"
      BY <2>1, <2>2 DEF Tracking!Cancel, Tracking!Next
    <2>3. CASE a # "CANCELLED"
      <3>1. Lower(o, a) /\ a \in Stages /\ (a = "COMPLETED" => payee[o])
        BY <1>3, <1>4, <2>1, <2>3 DEF Doing
      <3> QED BY <1>5, <2>1, <3>1, TrackAdvance
    <2> QED BY <2>2, <2>3
  <1>10. CASE ConfirmWrite(p)
    <2>1. n = "confirmW" /\ commande' = [commande EXCEPT ![o] = a] /\ payee' = payee /\ o \in Order
      BY <1>3, <1>4, <1>10 DEF ConfirmWrite, OrderNames
    <2>2. a \in {"COLLECTED", "COMPLETED"} /\ (a = "COMPLETED" => payee[o])
      BY <1>3, <2>1 DEF Doing, Careful
    <2>3. commande[o] = "PICKED_UP"
      BY <1>3, <2>1 DEF Careful, OrdersFollow, DeliveryOver
    <2>4. Lower(o, a) /\ a \in Stages
      BY <2>2, <2>3 DEF Lower, OrderRank, OrderOver, Stages
    <2> QED BY <1>5, <2>1, <2>2, <2>4, TrackAdvance
  <1>11. CASE FailWrite(p)
    <2>1. commande' = [commande EXCEPT ![o] = "CANCELLED"] /\ payee' = payee /\ o \in Order
      BY <1>3, <1>4, <1>11 DEF FailWrite, OrderNames
    <2> QED BY <2>1 DEF Tracking!Cancel, Tracking!Next
  <1>12. CASE PaidWrite(p)
    <2>1. /\ n = "paidW" /\ payee' = [payee EXCEPT ![o] = TRUE] /\ o \in Order /\ a \in {"", "COMPLETED"}
          /\ commande' = IF a = "" THEN commande ELSE [commande EXCEPT ![o] = a]
      BY <1>3, <1>4, <1>12 DEF PaidWrite, OrderNames
    <2>2. CASE a = ""
      <3>1. Tracking!Pay(o)
        BY <2>1, <2>2, Zenon DEF Tracking!Pay
      <3> QED BY <2>1, <3>1 DEF Tracking!Next
    <2>3. CASE a = "COMPLETED"
      <3>1. commande[o] = "COLLECTED" /\ commande' = [commande EXCEPT ![o] = a]
        BY <1>3, <2>1, <2>3 DEF Careful
      <3>2. Lower(o, a) /\ a \in Stages
        BY <2>3, <3>1 DEF Lower, OrderRank, OrderOver, Stages
      <3>3. payee'[o]
        BY <1>5, <2>1, Zenon
      <3>4. commande[o] \in DOMAIN OrderRank \cup {"CANCELLED"}
        BY <1>5, <2>1
      <3> QED BY <2>1, <3>1, <3>2, <3>3, <3>4, TrackAdvance, Zenon
    <2> QED BY <2>1, <2>2, <2>3
  <1>13. CASE Refund(p)
    <2>1. n = "refund" /\ commande' = commande /\ o \in Order
      BY <1>3, <1>4, <1>13 DEF Refund, OrderNames
    <2>2. CASE payee' = payee
      BY <2>1, <2>2, TrackStill
    <2>3. CASE payee' # payee
      <3>1. PICK m \in 1 .. encaisse[o] :
              /\ encaisse' = [encaisse EXCEPT ![o] = @ - m]
              /\ payee' = [payee EXCEPT ![o] = encaisse'[o] >= TOTAL]
        BY <1>3, <1>13, <2>3, Zenon DEF Refund
      <3>2. encaisse[o] \in 0 .. TOTAL /\ encaisse'[o] = encaisse[o] - m
        BY <1>5, <2>1, <3>1
      <3>3. (encaisse'[o] >= TOTAL) = FALSE
        BY <3>1, <3>2 DEF TOTAL
      <3>4. payee' = [payee EXCEPT ![o] = FALSE]
        BY <3>1, <3>3, Zenon
      <3>5. Tracking!Refund(o)
        BY <2>1, <3>4, Zenon DEF Tracking!Refund
      <3> QED BY <2>1, <3>5 DEF Tracking!Next
    <2> QED BY <2>2, <2>3
  <1> QED BY <1>6, <1>7, <1>8, <1>9, <1>10, <1>11, <1>12, <1>13 DEF Steps

LEMMA NextTrack ==
  ASSUME One, TInv, SeqInv, HouseInv, [Next]_vars PROVE [Tracking!Next]_(Tracking!vars)
  <1>1. PICK p : Req = {p}
    BY DEF One
  <1>2. Turn(p)
    BY <1>1 DEF SeqInv
  <1>3. CASE Steps(p)
    BY <1>1, <1>2, <1>3, StepsTrack
  <1>4. CASE Starts(p) \/ Crash(p) \/ UNCHANGED vars \/ \E o \in Order : TurboMoves(o) \/ TurboDrops(o)
    <2>1. CASE Starts(p)
      <3>1. p \in Req
        BY <1>1
      <3> QED BY <2>1, <3>1, StartsStill, TrackStill DEF orderVars
    <2>2. CASE Crash(p) \/ UNCHANGED vars \/ \E o \in Order : TurboMoves(o) \/ TurboDrops(o)
      <3>1. UNCHANGED <<commande, payee>>
        BY <2>2 DEF vars, Crash, TurboMoves, TurboDrops, orderVars
      <3> QED BY <3>1, TrackStill
    <2> QED BY <1>4, <2>1, <2>2
  <1> QED BY <1>1, <1>3, <1>4 DEF Next

(* What the customer is promised: an order only goes forward, is paid when *)
(* it is completed, and stays as it is once it is over, unless the back    *)
(* office cancels it.  The handlers follow one another, may stop anywhere, *)
(* and look at the order they write.                                       *)
THEOREM CourseImplementsTracking == ASSUME One, Respectful PROVE Spec => TrackingSpec
  <1>1. Init => Tracking!Init
    BY DEF Init, Tracking!Init
  <1>2. TInv /\ SeqInv /\ HouseInv /\ [Next]_vars => [Tracking!Next]_(Tracking!vars)
    BY NextTrack
  <1> QED BY <1>1, <1>2, Inductive, OneAtATime, HouseFollows, PTL DEF Spec, TrackingSpec, Tracking!Spec

=============================================================================
