--------------------------- MODULE ReferralEarnings ---------------------------
(***************************************************************************)
(* One referred customer (the referee) and what the referrer earns on the  *)
(* orders the referee pays: a PRIME on the order that uses the welcome     *)
(* gift, then a COMMISSION on the orders of the following window, both     *)
(* under a ceiling.  Each payment is a queued job, run again on an error;  *)
(* an earning is unique by order and type; the back office pays earnings,  *)
(* the cancellation of an order takes back what was not paid.              *)
(***************************************************************************)
EXTENDS Naturals, FiniteSetsExt

CONSTANTS
    ROrder,
    Basket,        \* net_amount of each order
    MinBasket,     \* min_qualifying_basket
    Prime,         \* prime_amount
    Commission,    \* commission on each order
    Cap,           \* cap_per_referee; 0 for no ceiling
    Threshold,     \* payout_threshold
    RWorker,
    MaxRetries,    \* bound: errors of the jobs
    NoOrder

VARIABLES
    referral,      \* the Referral row: status, qualifying order, gift
    used,          \* the order the welcome gift was used on
    closed,        \* has the commission window closed?
    paid,          \* state of each order: "new", "paid" or "cancelled"
    late,          \* orders created after the window
    earn,          \* the ReferralEarning rows, by order and type
    job,           \* the accrual of each order: "none", "queued", "run", "done"
    revoke,        \* cancelled orders whose revocation is still to run
    rh,            \* the step each worker is at
    retried        \* orders whose job was run again

rvars == <<referral, used, closed, paid, late, earn, job, revoke, rh, retried>>

RIdle == [pc |-> "idle", order |-> NoOrder]
NoEarning == [amount |-> 0, status |-> "none"]
EarningType == {"PRIME", "COMMISSION"}
RPut(w, pc) == rh' = [rh EXCEPT ![w].pc = pc]

RInit ==
    /\ referral = [status |-> "none", order |-> NoOrder, gift |-> "none"]
    /\ used = NoOrder /\ closed = FALSE
    /\ paid = [o \in ROrder |-> "new"] /\ late = {}
    /\ earn = [o \in ROrder |-> [t \in EarningType |-> NoEarning]]
    /\ job = [o \in ROrder |-> "none"]
    /\ revoke = {}
    /\ rh = [w \in RWorker |-> RIdle]
    /\ retried = {}

-----------------------------------------------------------------------------
(* The referee enters a code before any paid order, and gets a gift; the   *)
(* gift is made after the referral and its failure is swallowed.           *)

applyReferralCode ==
    /\ referral.status = "none" /\ \A o \in ROrder : paid[o] = "new"
    /\ referral' = [referral EXCEPT !.status = "PENDING"]
    /\ UNCHANGED <<used, closed, paid, late, earn, job, revoke, rh, retried>>

createWelcomeGift ==
    /\ referral.status = "PENDING" /\ referral.gift = "none"
    /\ \A o \in ROrder : paid[o] = "new"
    /\ referral' = [referral EXCEPT !.gift = "made"]
    /\ UNCHANGED <<used, closed, paid, late, earn, job, revoke, rh, retried>>

(* An order is paid, with or without the gift in it.                       *)
PayOrder(o) ==
    /\ paid[o] = "new"
    /\ paid' = [paid EXCEPT ![o] = "paid"]
    /\ job' = [job EXCEPT ![o] = "queued"]
    /\ late' = IF closed THEN late \union {o} ELSE late
    /\ \/ UNCHANGED used
       \/ referral.gift = "made" /\ used = NoOrder /\ used' = o
    /\ UNCHANGED <<referral, closed, earn, revoke, rh, retried>>

WindowCloses ==
    /\ referral.status = "REWARDED" /\ ~closed
    /\ closed' = TRUE
    /\ UNCHANGED <<referral, used, paid, late, earn, job, revoke, rh, retried>>

-----------------------------------------------------------------------------
(* accrueForPaidOrder.                                                     *)

giftUsedOnOrder(o) == referral.gift = "none" \/ used = o

accrueForPaidOrder(w, o) ==
    /\ rh[w] = RIdle /\ job[o] = "queued"
    /\ IF referral.status = "none" \/ (referral.status = "PENDING" /\ ~giftUsedOnOrder(o))
       THEN job' = [job EXCEPT ![o] = "done"] /\ UNCHANGED rh
       ELSE /\ job' = [job EXCEPT ![o] = "run"]
            /\ rh' = [rh EXCEPT ![w] = [pc |-> "qualify", order |-> o]]
    /\ UNCHANGED <<referral, used, closed, paid, late, earn, revoke, retried>>

FinishJob(w) ==
    /\ job' = [job EXCEPT ![rh[w].order] = "done"]
    /\ rh' = [rh EXCEPT ![w] = RIdle]

qualifyReferralForPaidOrder(w) ==
    LET o == rh[w].order IN
    /\ rh[w].pc = "qualify"
    /\ IF referral.status = "PENDING"
       THEN /\ referral' = [referral EXCEPT !.status = "REWARDED", !.order = o]
            /\ RPut(w, "prime")
       ELSE RPut(w, "commission") /\ UNCHANGED referral
    /\ UNCHANGED <<used, closed, paid, late, earn, job, revoke, retried>>

ChoosePrime(w) ==
    /\ rh[w].pc = "prime"
    /\ IF Basket[rh[w].order] >= MinBasket /\ Prime > 0
       THEN /\ rh' = [rh EXCEPT ![w] = [pc |-> "cap", order |-> @.order, type |-> "PRIME", raw |-> Prime]]
            /\ UNCHANGED job
       ELSE FinishJob(w)
    /\ UNCHANGED <<referral, used, closed, paid, late, earn, revoke, retried>>

ChooseCommission(w) ==
    LET o == rh[w].order IN
    /\ rh[w].pc = "commission"
    /\ IF referral.order # o /\ o \notin late /\ Commission[o] > 0
       THEN /\ rh' = [rh EXCEPT ![w] = [pc |-> "cap", order |-> o, type |-> "COMMISSION", raw |-> Commission[o]]]
            /\ UNCHANGED job
       ELSE FinishJob(w)
    /\ UNCHANGED <<referral, used, closed, paid, late, earn, revoke, retried>>

-----------------------------------------------------------------------------
(* createEarning: the room under the ceiling is read, the row is inserted. *)

Counted(o, t) == earn[o][t].status \notin {"none", "CANCELLED"}
Amount(o, t) == IF Counted(o, t) THEN earn[o][t].amount ELSE 0
Already == FoldSet(LAMBDA p, s : Amount(p[1], p[2]) + s, 0, ROrder \X EarningType)
Smaller(a, b) == IF a < b THEN a ELSE b

CapEarning(w) ==
    /\ rh[w].pc = "cap"
    /\ IF Cap > 0 /\ Already >= Cap THEN FinishJob(w)
       ELSE /\ rh' = [rh EXCEPT ![w].pc = "insert",
                               ![w].raw = IF Cap = 0 THEN @ ELSE Smaller(@, Cap - Already)]
            /\ UNCHANGED job
    /\ UNCHANGED <<referral, used, closed, paid, late, earn, revoke, retried>>

(* The job ends with the insertion; a duplicate is ignored.                *)
createEarning(w) ==
    LET o == rh[w].order  t == rh[w].type IN
    /\ rh[w].pc = "insert"
    /\ earn' = IF earn[o][t].status # "none" THEN earn
               ELSE [earn EXCEPT ![o][t] = [amount |-> rh[w].raw, status |-> "PENDING"]]
    /\ FinishJob(w)
    /\ UNCHANGED <<referral, used, closed, paid, late, revoke, retried>>

(* A transient error sends the job back to its queue; so does an error of  *)
(* what the listener does after the accrual.                               *)
RetryJob(w, o) ==
    /\ Cardinality(retried) < MaxRetries \/ o \in retried
    /\ \/ rh[w].order = o /\ rh' = [rh EXCEPT ![w] = RIdle]
       \/ job[o] = "done" /\ o \notin retried /\ UNCHANGED rh
    /\ job' = [job EXCEPT ![o] = "queued"]
    /\ retried' = retried \union {o}
    /\ UNCHANGED <<referral, used, closed, paid, late, earn, revoke>>

-----------------------------------------------------------------------------
(* Cancellation and the back office.                                       *)

CancelPaid(o) ==
    /\ paid[o] = "paid"
    /\ paid' = [paid EXCEPT ![o] = "cancelled"]
    /\ revoke' = revoke \union {o}
    /\ UNCHANGED <<referral, used, closed, late, earn, job, rh, retried>>

(* A dish offered comes back to the referee, a voucher does not.           *)
restoreConsumedGiftsForOrder(o) ==
    /\ paid[o] = "cancelled" /\ used = o
    /\ used' = NoOrder
    /\ UNCHANGED <<referral, closed, paid, late, earn, job, revoke, rh, retried>>

revokeEarningsForCancelledOrder(o) ==
    /\ o \in revoke /\ revoke' = revoke \ {o}
    /\ earn' = [earn EXCEPT ![o] =
          [t \in EarningType |-> IF @[t].status \in {"PENDING", "PAYABLE"}
                                 THEN [@[t] EXCEPT !.status = "CANCELLED"] ELSE @[t]]]
    /\ UNCHANGED <<referral, used, closed, paid, late, job, rh, retried>>

adminMarkPayable(o, t) ==
    /\ earn[o][t].status = "PENDING"
    /\ earn' = [earn EXCEPT ![o][t].status = "PAYABLE"]
    /\ UNCHANGED <<referral, used, closed, paid, late, job, revoke, rh, retried>>

Pending == {p \in ROrder \X EarningType : earn[p[1]][p[2]].status = "PENDING"}

adminApplyPayoutThreshold ==
    /\ Pending # {}
    /\ FoldSet(LAMBDA p, s : earn[p[1]][p[2]].amount + s, 0, Pending) >= Threshold
    /\ earn' = [o \in ROrder |-> [t \in EarningType |->
          IF <<o, t>> \in Pending THEN [earn[o][t] EXCEPT !.status = "PAYABLE"] ELSE earn[o][t]]]
    /\ UNCHANGED <<referral, used, closed, paid, late, job, revoke, rh, retried>>

adminMarkPaid(o, t) ==
    /\ earn[o][t].status = "PAYABLE"
    /\ earn' = [earn EXCEPT ![o][t].status = "PAID"]
    /\ UNCHANGED <<referral, used, closed, paid, late, job, revoke, rh, retried>>

-----------------------------------------------------------------------------
(* What the referrer and the back office are shown.  A cancelled order     *)
(* keeps its flag paied.                                                   *)

In(S) == {p \in ROrder \X EarningType : earn[p[1]][p[2]].status \in S}
Amounts(S) == FoldSet(LAMBDA p, s : earn[p[1]][p[2]].amount + s, 0, S)
OfType(t) == ROrder \X {t}
Acquired == In({"PENDING", "PAYABLE", "PAID"})
Sold == {o \in ROrder : paid[o] # "new"}
Sales == FoldSet(LAMBDA o, s : Basket[o] + s, 0, Sold)
Referrals(S) == IF referral.status \in S THEN 1 ELSE 0

getReferralStats ==
    [total_referred |-> Referrals({"PENDING", "REWARDED"}), pending |-> Referrals({"PENDING"}), rewarded |-> Referrals({"REWARDED"})]
getGlobalStats ==
    [total |-> Referrals({"PENDING", "REWARDED", "CANCELLED"}), pending |-> Referrals({"PENDING"}), rewarded |-> Referrals({"REWARDED"})]

getAmbassadorDashboard ==
    [filleuls |-> Referrals({"PENDING", "REWARDED"}), qualified |-> Referrals({"REWARDED"}), ventes |-> Sales,
     gains |-> Amounts(Acquired), gains_prime |-> Amounts(Acquired \intersect OfType("PRIME")),
     gains_commission |-> Amounts(Acquired \ OfType("PRIME")),
     deja_paye |-> Amounts(In({"PAID"})), solde_payable |-> Amounts(Acquired \ In({"PAID"}))]

\* The application's screen reads the rows again, by referee and type.
getAmbassadorDashboardForApp ==
    LET wallet == getAmbassadorDashboard
        prime == Amounts(In({"PENDING", "PAYABLE", "PAID"}) \intersect OfType("PRIME"))
        commission == Amounts(In({"PENDING", "PAYABLE", "PAID"}) \intersect OfType("COMMISSION"))
    IN [qualified_count |-> wallet.qualified, pending_count |-> wallet.filleuls - wallet.qualified,
        earned_total |-> wallet.gains_prime + wallet.gains_commission,
        orders_count |-> Cardinality(Sold), sales_generated |-> Sales,
        referee_total |-> prime + commission, capped |-> Cap > 0 /\ prime + commission >= Cap]

adminListAmbassadors ==
    [pending |-> Amounts(In({"PENDING"})), payable |-> Amounts(In({"PAYABLE"})), paid |-> Amounts(In({"PAID"})),
     solde_payable |-> Amounts(In({"PENDING"})) + Amounts(In({"PAYABLE"})),
     over_threshold |-> Amounts(In({"PENDING"})) >= Threshold]

adminEarningsHistory(S) == In(S)

-----------------------------------------------------------------------------
RStep(w) ==
    \/ qualifyReferralForPaidOrder(w) \/ ChoosePrime(w) \/ ChooseCommission(w)
    \/ CapEarning(w) \/ createEarning(w)

RNext ==
    \/ applyReferralCode \/ createWelcomeGift \/ WindowCloses \/ adminApplyPayoutThreshold
    \/ \E o \in ROrder : PayOrder(o) \/ CancelPaid(o)
    \/ \E o \in ROrder : revokeEarningsForCancelledOrder(o) \/ restoreConsumedGiftsForOrder(o)
    \/ \E w \in RWorker : RStep(w) \/ \E o \in ROrder : accrueForPaidOrder(w, o) \/ RetryJob(w, o)
    \/ \E o \in ROrder, t \in EarningType : adminMarkPayable(o, t) \/ adminMarkPaid(o, t)

RSpec == RInit /\ [][RNext]_rvars

-----------------------------------------------------------------------------
(* Properties.                                                             *)

(* Types of the variables; an earning is for an order that was paid.       *)
RTypeOK ==
    /\ referral.status \in {"none", "PENDING", "REWARDED"}
    /\ referral.order # NoOrder <=> referral.status = "REWARDED"
    /\ \A o \in ROrder, t \in EarningType :
         /\ earn[o][t].status \in {"none", "PENDING", "PAYABLE", "PAID", "CANCELLED"}
         /\ earn[o][t].status # "none" => paid[o] # "new"

(* RG-14: prime and commissions of a referee stay under the ceiling, paid  *)
(* or not, whatever was cancelled and accrued again in between.            *)
WithinCap == Cap > 0 => Already <= Cap

(* The order that qualifies earns the prime and never a commission, and no *)
(* other order earns a prime, even when the jobs are run again.            *)
QualifyingEarnsPrimeOnly ==
    \A o \in ROrder :
        /\ earn[o]["PRIME"].status # "none" => o = referral.order
        /\ earn[o]["COMMISSION"].status # "none" => o # referral.order

(* "le retry BullMQ finit par accrediter": once its job is over, the order *)
(* that qualified has its prime.                                           *)
PrimeIsAccrued ==
    \A o \in ROrder :
        (o = referral.order /\ job[o] = "done" /\ Basket[o] >= MinBasket /\ Prime > 0)
            => earn[o]["PRIME"].status # "none"

(* The same for the jobs that met no error.                                *)
PrimeIsAccruedAtOnce ==
    \A o \in ROrder :
        (o = referral.order /\ job[o] = "done" /\ Basket[o] >= MinBasket /\ Prime > 0 /\ o \notin retried)
            => earn[o]["PRIME"].status # "none"

(* The screens agree: what the referrer is shown as earned is what the     *)
(* back office owes or has paid, "capped" is shown when nothing more can   *)
(* be earned, and who is over the threshold is who the payout promotes.    *)
DashboardsAgree ==
    LET wallet == getAmbassadorDashboard
        app == getAmbassadorDashboardForApp
        admin == adminListAmbassadors
    IN /\ wallet.gains = wallet.solde_payable + wallet.deja_paye
       /\ wallet.solde_payable = admin.solde_payable /\ wallet.deja_paye = admin.paid
       /\ app.earned_total = wallet.gains /\ app.referee_total = wallet.gains /\ app.sales_generated = wallet.ventes
       /\ app.capped <=> Cap > 0 /\ Already >= Cap
       /\ wallet.gains > 0 => app.orders_count > 0 /\ wallet.qualified = 1
       /\ wallet.qualified = getReferralStats.rewarded /\ app.pending_count = getGlobalStats.pending
       /\ getReferralStats.total_referred = getGlobalStats.total
       /\ adminEarningsHistory({"PENDING"}) = Pending
       /\ admin.pending > 0 => (admin.over_threshold <=> ENABLED adminApplyPayoutThreshold)

(* An earning is taken once, and what was paid out or cancelled stays so:  *)
(* no repeated job, cancellation or payout writes over it.                 *)
EarningIsFinal ==
    [][\A o \in ROrder, t \in EarningType :
         earn[o][t].status \in {"PAID", "CANCELLED"} => earn'[o][t] = earn[o][t]]_rvars
=============================================================================
