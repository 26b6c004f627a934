---------------------------- MODULE OnlinePayment ----------------------------
(***************************************************************************)
(* The payment of one ONLINE order through KKiaPay.                        *)
(*                                                                         *)
(* Four paths lead to the same rows: the webhook (a BullMQ job, retried on *)
(* a transient error), the cron that replays payments left unconfirmed,    *)
(* the confirmation by an administrator, and the call of the customer's    *)
(* application.  The first three run processTransactionSuccess; the last   *)
(* one runs payWithKkiapay, which only sets paied.  A payment can be       *)
(* refunded, alone or with the cancellation of the order.                  *)
(*                                                                         *)
(* Each handler is a sequence of database statements; h[w] is what worker  *)
(* w has read so far and pc is the statement it is at.                     *)
(***************************************************************************)
EXTENDS Naturals, SequencesExt

CONSTANTS
    Tx,            \* transactions of KKiaPay for this order
    Amounts,       \* what a transaction may pay
    Price,         \* amount of the order, tolerance deducted
    Worker,
    Kinds,         \* the handlers each worker runs
    MaxAttempts,   \* attempts of a job of the queue
    MaxFaults,     \* bound: transient errors, or stops of a backend
    MaxWebhooks,   \* bound: deliveries of webhooks by KKiaPay
    NONE

ASSUME BoundsAssumption == Price \in Nat /\ Amounts \subseteq Nat /\ MaxAttempts \in Nat \ {0}

VARIABLES
    order,     \* status, paied and deleted of the order
    kk,        \* what KKiaPay says of a transaction
    sum,       \* what it was for
    rows,      \* the Paiement rows, in order of creation
    job,       \* the job of the webhook of a transaction
    sent,      \* webhooks KKiaPay has delivered
    h,         \* the handler a worker is in
    points,    \* gains of points of the order: live and revoked
    bells,     \* times the kitchen was told of the payment
    faults

vars == <<order, kk, sum, rows, job, sent, h, points, bells, faults>>

Idle == [kind |-> "none", pc |-> "idle", tx |-> NONE, seen |-> "none"]

SumSuccess == SumFunction([i \in DOMAIN rows |-> IF rows[i].status = "SUCCESS" THEN sum[rows[i].tx] ELSE 0])

Known(t) == \E i \in DOMAIN rows : rows[i].tx = t

Init ==
    /\ order = [status |-> "PENDING", paied |-> FALSE, deleted |-> FALSE]
    /\ kk = [t \in Tx |-> "none"]
    /\ sum = [t \in Tx |-> 0]
    /\ rows = <<>>
    /\ job = [t \in Tx |-> [state |-> "none", attempts |-> 0]]
    /\ sent = 0
    /\ h = [w \in Worker |-> Idle]
    /\ points = [live |-> 0, revoked |-> 0]
    /\ bells = 0 /\ faults = 0

At(w, pc) == h[w].pc = pc
Goto(w, pc) == h' = [h EXCEPT ![w].pc = pc]

-----------------------------------------------------------------------------
(* KKiaPay: the customer pays or fails to; the webhook of a success comes  *)
(* once, again, or never.  A job stays in the queue under its transaction  *)
(* until it is done, so a second delivery of a queued one adds nothing.    *)

CustomerPays(t) ==
    /\ kk[t] = "none"
    /\ \E s \in {"SUCCESS", "FAILED"}, a \in Amounts :
         /\ kk' = [kk EXCEPT ![t] = s]
         /\ sum' = [sum EXCEPT ![t] = a]
    /\ UNCHANGED <<order, rows, job, sent, h, points, bells, faults>>

IngestWebhook(t) ==
    /\ kk[t] # "none" /\ sent < MaxWebhooks
    /\ sent' = sent + 1
    /\ IF job[t].state = "none"
       THEN job' = [job EXCEPT ![t] = [state |-> "waiting", attempts |-> 0]]
       ELSE UNCHANGED job
    /\ UNCHANGED <<order, kk, sum, rows, h, points, bells, faults>>

-----------------------------------------------------------------------------
(* Starts, each with the first read of its handler.                        *)

Begin(w, k, t, pc) ==
    /\ At(w, "idle") /\ k \in Kinds[w]
    /\ h' = [h EXCEPT ![w] = [kind |-> k, pc |-> pc, tx |-> t, seen |-> "none"]]

(* processTransactionSuccess acknowledges an unknown or deleted order.     *)
Found == IF order.deleted THEN "end" ELSE "verify"

StartWebhook(w, t) ==
    /\ job[t].state = "waiting"
    /\ Begin(w, "webhook", t, Found)
    /\ job' = [job EXCEPT ![t].state = "active"]
    /\ UNCHANGED <<order, kk, sum, rows, sent, points, bells, faults>>

LastSuccess(t) ==
    \E i \in DOMAIN rows :
        /\ rows[i].tx = t /\ rows[i].status = "SUCCESS"
        /\ \A j \in DOMAIN rows : rows[j].status = "SUCCESS" => j <= i

Unconfirmed == order.status = "PENDING" /\ ~order.paied

(* Mutant: the cron looks at accepted orders.                              *)
ReconcileAccepted(w, t) ==
    /\ order.status = "ACCEPTED" /\ ~order.paied /\ LastSuccess(t)
    /\ Begin(w, "cron", t, Found)
    /\ UNCHANGED <<order, kk, sum, rows, job, sent, points, bells, faults>>

StartReconcile(w, t) ==
    /\ Unconfirmed /\ LastSuccess(t)
    /\ Begin(w, "cron", t, Found)
    /\ UNCHANGED <<order, kk, sum, rows, job, sent, points, bells, faults>>

confirmPaymentManually(w, t) ==
    /\ order.status = "PENDING" /\ ~order.deleted
    /\ Begin(w, "manual", t, Found)
    /\ UNCHANGED <<order, kk, sum, rows, job, sent, points, bells, faults>>

payWithKkiapay(w, t) ==
    /\ Begin(w, "app", t, "verify")
    /\ UNCHANGED <<order, kk, sum, rows, job, sent, points, bells, faults>>

StartRefund(w, t) ==
    /\ Known(t)
    /\ Begin(w, "refund", t, "refund")
    /\ UNCHANGED <<order, kk, sum, rows, job, sent, points, bells, faults>>

(* updateStatus to CANCELLED by an administrator, from any status; the     *)
(* payment refunded is one that has succeeded, if there is one.            *)
Refundable == {t \in Tx : \E i \in DOMAIN rows : rows[i] = [tx |-> t, status |-> "SUCCESS"]}

StartCancel(w) ==
    /\ order.status # "CANCELLED"
    /\ \E t \in IF Refundable = {} THEN {NONE} ELSE Refundable :
         /\ At(w, "idle") /\ "cancel" \in Kinds[w]
         /\ h' = [h EXCEPT ![w] = [kind |-> "cancel", tx |-> t, seen |-> order.status,
                                   pc |-> IF t = NONE THEN "cancel" ELSE "refund"]]
    /\ UNCHANGED <<order, kk, sum, rows, job, sent, points, bells, faults>>

-----------------------------------------------------------------------------
(* processTransactionSuccess and payWithKkiapay, statement by statement.   *)

(* A transaction KKiaPay does not know is an error for good.               *)
Verify(w) ==
    LET t == h[w].tx IN
    /\ At(w, "verify")
    /\ h' = [h EXCEPT ![w] = [kind |-> h[w].kind, tx |-> t, seen |-> kk[t],
                              pc |-> IF kk[t] = "none" THEN "end" ELSE "dedupe"]]
    /\ UNCHANGED <<order, kk, sum, rows, job, sent, points, bells, faults>>

(* create with dedupeByReference: looks for the reference, ...             *)
Dedupe(w) ==
    /\ At(w, "dedupe")
    /\ Goto(w, IF Known(h[w].tx) THEN "total" ELSE "create")
    /\ UNCHANGED <<order, kk, sum, rows, job, sent, points, bells, faults>>

(* ... and inserts it in another statement; no index makes it unique.      *)
Create(w) ==
    /\ At(w, "create")
    /\ rows' = Append(rows, [tx |-> h[w].tx, status |-> h[w].seen])
    /\ Goto(w, "total")
    /\ UNCHANGED <<order, kk, sum, job, sent, points, bells, faults>>

(* Mutant: any successful transaction covers the order.                    *)
CoveredByToken(w) == h[w].seen = "SUCCESS"

Covered(w) == h[w].seen = "SUCCESS" /\ SumSuccess >= Price

Total(w) ==
    /\ At(w, "total")
    /\ Goto(w, IF ~Covered(w) THEN "end" ELSE IF h[w].kind = "app" THEN "mark" ELSE "claim")
    /\ UNCHANGED <<order, kk, sum, rows, job, sent, points, bells, faults>>

(* Mutant: the claim only spares the orders that are completed.            *)
Accept(w) ==
    /\ order' = [order EXCEPT !.status = "ACCEPTED", !.paied = TRUE]
    /\ Goto(w, "ring")
    /\ UNCHANGED <<kk, sum, rows, job, sent, points, bells, faults>>
ClaimNotCompleted(w) ==
    /\ At(w, "claim")
    /\ IF order.status # "COMPLETED" THEN Accept(w)
       ELSE Goto(w, "check") /\ UNCHANGED <<order, kk, sum, rows, job, sent, points, bells, faults>>

(* The transition is claimed on the status; whoever wins it tells the      *)
(* kitchen, and every one of them goes on to the effects done by key.      *)
Claim(w) ==
    /\ At(w, "claim")
    /\ IF order.status = "PENDING"
       THEN /\ order' = [order EXCEPT !.status = "ACCEPTED", !.paied = TRUE]
            /\ Goto(w, "ring")
       ELSE /\ UNCHANGED order
            /\ Goto(w, "check")
    /\ UNCHANGED <<kk, sum, rows, job, sent, points, bells, faults>>

Ring(w) ==
    /\ At(w, "ring")
    /\ bells' = bells + 1
    /\ Goto(w, "check")
    /\ UNCHANGED <<order, kk, sum, rows, job, sent, points, faults>>

(* Mutant: addPoints does not look for an earlier gain.                    *)
CreditAgain(w) ==
    /\ At(w, "check")
    /\ Goto(w, "credit")
    /\ UNCHANGED <<order, kk, sum, rows, job, sent, points, bells, faults>>

(* addPoints: a gain of this order that is still live stops a second one.  *)
CheckPoints(w) ==
    /\ At(w, "check")
    /\ Goto(w, IF points.live > 0 THEN "end" ELSE "credit")
    /\ UNCHANGED <<order, kk, sum, rows, job, sent, points, bells, faults>>

Credit(w) ==
    /\ At(w, "credit")
    /\ points' = [points EXCEPT !.live = @ + 1]
    /\ Goto(w, "end")
    /\ UNCHANGED <<order, kk, sum, rows, job, sent, bells, faults>>

(* The application's own confirmation leaves the status where it is.       *)
Mark(w) ==
    /\ At(w, "mark")
    /\ order' = [order EXCEPT !.paied = TRUE]
    /\ Goto(w, "end")
    /\ UNCHANGED <<kk, sum, rows, job, sent, points, bells, faults>>

(* A finished job leaves the queue, so the same webhook can come again.    *)
End(w) ==
    /\ At(w, "end")
    /\ h' = [h EXCEPT ![w] = Idle]
    /\ IF h[w].kind = "webhook"
       THEN job' = [job EXCEPT ![h[w].tx] = [state |-> "none", attempts |-> 0]]
       ELSE UNCHANGED job
    /\ UNCHANGED <<order, kk, sum, rows, sent, points, bells, faults>>

Retry(t) ==
    IF job[t].attempts + 1 < MaxAttempts
    THEN [state |-> "waiting", attempts |-> job[t].attempts + 1]
    ELSE [state |-> "dead", attempts |-> MaxAttempts]

(* Mutants: the job of a handler that fails is forgotten, not retried;     *)
(* every error is swallowed, and the job acknowledged.             *)
FaultForgotten(w) ==
    /\ h[w].pc \in {"check", "credit"}
    /\ faults < MaxFaults
    /\ faults' = faults + 1
    /\ h' = [h EXCEPT ![w] = Idle]
    /\ UNCHANGED <<order, kk, sum, rows, job, sent, points, bells>>
FaultSwallowed(w) ==
    /\ h[w].pc \in {"check", "credit"}
    /\ faults < MaxFaults
    /\ faults' = faults + 1
    /\ Goto(w, "end")
    /\ UNCHANGED <<order, kk, sum, rows, job, sent, points, bells>>

(* A transient error is thrown again: the queue retries the job, the other *)
(* callers drop what they were doing.                                      *)
Fault(w) ==
    /\ h[w].pc \in {"verify", "dedupe", "create", "total", "claim", "check", "credit", "mark"}
    /\ faults < MaxFaults
    /\ faults' = faults + 1
    /\ h' = [h EXCEPT ![w] = Idle]
    /\ IF h[w].kind = "webhook"
       THEN job' = [job EXCEPT ![h[w].tx] = Retry(h[w].tx)]
       ELSE UNCHANGED job
    /\ UNCHANGED <<order, kk, sum, rows, sent, points, bells>>

-----------------------------------------------------------------------------
(* Refund and cancellation.                                                *)

Revert(t) == [i \in DOMAIN rows |-> IF rows[i].tx = t THEN [rows[i] EXCEPT !.status = "REVERTED"] ELSE rows[i]]

(* KKiaPay accepts the refund, and the row and the flag follow, or it      *)
(* refuses; what a cancellation then gives instead is in Coupons.          *)
Refund(w) ==
    LET t == h[w].tx IN
    /\ At(w, "refund")
    /\ Goto(w, IF h[w].kind = "cancel" THEN "cancel" ELSE "end")
    /\ \/ /\ kk[t] = "SUCCESS" /\ t \in Refundable
          /\ kk' = [kk EXCEPT ![t] = "REVERTED"]
          /\ rows' = Revert(t)
          /\ order' = [order EXCEPT !.paied = (SumSuccess' >= Price)]
       \/ UNCHANGED <<order, kk, rows>>
    /\ UNCHANGED <<sum, job, sent, points, bells, faults>>

CancelWrite(w) ==
    /\ At(w, "cancel")
    /\ order' = [order EXCEPT !.status = "CANCELLED", !.deleted = @ \/ h[w].seen = "PENDING"]
    /\ Goto(w, "revoke")
    /\ UNCHANGED <<kk, sum, rows, job, sent, points, bells, faults>>

(* The listener of the cancellation takes the points of the order back.    *)
revokeEarnedPointsForOrder(w) ==
    /\ At(w, "revoke")
    /\ points' = [live |-> 0, revoked |-> points.revoked + points.live]
    /\ Goto(w, "end")
    /\ UNCHANGED <<order, kk, sum, rows, job, sent, bells, faults>>

(* The kitchen and the delivery take an accepted order further.            *)
Serve ==
    /\ order.status = "ACCEPTED"
    /\ order' = [order EXCEPT !.status = "COMPLETED"]
    /\ UNCHANGED <<kk, sum, rows, job, sent, h, points, bells, faults>>

-----------------------------------------------------------------------------
Statement(w) ==
    \/ Verify(w) \/ Dedupe(w) \/ Create(w) \/ Total(w)
    \/ Claim(w) \/ Ring(w) \/ CheckPoints(w) \/ Credit(w) \/ Mark(w) \/ End(w)
    \/ Refund(w) \/ CancelWrite(w) \/ revokeEarnedPointsForOrder(w)

Next ==
    \/ \E t \in Tx : CustomerPays(t) \/ IngestWebhook(t)
    \/ \E w \in Worker, t \in Tx :
          \/ StartWebhook(w, t) \/ StartReconcile(w, t)
          \/ confirmPaymentManually(w, t) \/ payWithKkiapay(w, t) \/ StartRefund(w, t)
    \/ \E w \in Worker : StartCancel(w) \/ Statement(w) \/ Fault(w)
    \/ Serve

(* A handler that runs goes on.  The queue and the cron are not put off    *)
(* for ever by the other handlers of their backend.                        *)
Fairness ==
    /\ \A w \in Worker : WF_vars(Statement(w))
    /\ \A w \in Worker, t \in Tx : SF_vars(StartWebhook(w, t)) /\ SF_vars(StartReconcile(w, t))

Spec == Init /\ [][Next]_vars /\ Fairness

-----------------------------------------------------------------------------
(* Properties.                                                             *)

Statuses == {"PENDING", "ACCEPTED", "COMPLETED", "CANCELLED"}

(* Types of the variables; a job is active while a worker is on it, and    *)
(* given up after MaxAttempts.                                             *)
TypeOK ==
    /\ order \in [status : Statuses, paied : BOOLEAN, deleted : BOOLEAN]
    /\ kk \in [Tx -> {"none", "SUCCESS", "FAILED", "REVERTED"}]
    /\ sum \in [Tx -> Amounts \union {0}]
    /\ \A i \in DOMAIN rows : rows[i] \in [tx : Tx, status : {"SUCCESS", "FAILED", "REVERTED"}]
    /\ \A t \in Tx : /\ job[t].state \in {"none", "waiting", "active", "dead"}
                     /\ job[t].attempts <= MaxAttempts
                     /\ job[t].state = "active" <=>
                           \E w \in Worker : h[w].kind = "webhook" /\ h[w].tx = t

(* An order is confirmed only on transactions KKiaPay has really cashed,   *)
(* whose rows cover its price: neither a failed transaction nor a token    *)
(* one confirms it, whatever path it came by (linkPaiementToOrder).  Each  *)
(* row counts: a transaction two calls recorded at once counts twice.      *)
Cashed == {i \in DOMAIN rows : rows[i].status # "FAILED"}
ConfirmedIsCovered ==
    /\ \A i \in Cashed : kk[rows[i].tx] \in {"SUCCESS", "REVERTED"}
    /\ order.status \in {"ACCEPTED", "COMPLETED"} =>
          SumFunction([i \in Cashed |-> sum[rows[i].tx]]) >= Price

(* A payment has its effects once, however often its job is retried, it is *)
(* replayed by the cron or confirmed by hand: the kitchen is told once, and*)
(* not before the order was accepted, and the points are credited once.    *)
EffectsOnce == bells <= 1 /\ (bells = 1 => order.status # "PENDING") /\ points.live <= 1

(* A replayed or late payment never takes an order back to an earlier      *)
(* status, nor out of CANCELLED.                                           *)
Rank == [s \in Statuses |-> CASE s = "PENDING" -> 0 [] s = "ACCEPTED" -> 1
                              [] s = "COMPLETED" -> 2 [] s = "CANCELLED" -> 3]
NeverBack == [][Rank[order.status] <= Rank[order'.status]]_vars

(* Once a webhook of a covering payment is queued, the points are credited *)
(* in the end, errors in the middle notwithstanding, unless the order was  *)
(* cancelled or the payment refunded meanwhile.                            *)
PaidEarnsPoints ==
    \A t \in Tx :
        (job[t].state = "waiting" /\ kk[t] = "SUCCESS" /\ sum[t] >= Price)
            ~> (points.live > 0 \/ order.status = "CANCELLED" \/ kk[t] = "REVERTED")

(* A payment that was recorded does not leave its order waiting for ever,  *)
(* even if the call that recorded it stopped before the confirmation and   *)
(* no webhook ever comes: the cron replays it.                             *)
RecordedIsConfirmed ==
    \A t \in Tx : (sum[t] >= Price /\ t \in Refundable) ~> (~Unconfirmed \/ kk[t] = "REVERTED")

=============================================================================
