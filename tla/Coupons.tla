------------------------------- MODULE Coupons -------------------------------
(***************************************************************************)
(* A promo code and a voucher of one customer, and the orders that use     *)
(* them.  createv2 prices the order on what it reads (the promo code if it *)
(* applies, the voucher otherwise), saves it, and only then records the    *)
(* usage or debits the voucher; an error of that last step is swallowed.   *)
(* A usage is staged INACTIVE and counted when the order is accepted; the  *)
(* cancellation takes it back.                                             *)
(***************************************************************************)
EXTENDS Integers, SequencesExt

CONSTANTS
    COrder,
    Net,           \* amount of each order
    Value,         \* discount of the promo code
    MaxUsage, PerUser,
    Issued,        \* initial amount of the voucher
    CWorker,
    CKinds,        \* the handlers each worker runs
    MaxUsages,     \* bound: rows of PromoCodeUsage
    MaxErrors,     \* bound: database errors that are swallowed
    MaxMoves,      \* bound: transitions of each order
    Nil

VARIABLES
    promo,         \* is_active, DELETED and usage_count
    usages,        \* PromoCodeUsage rows
    voucher,       \* Voucher row; `dated' says its date has passed
    redemptions,   \* Redemption rows
    cord,          \* the orders: status, coupon used and discount
    ch,            \* the handler each worker is in
    errors

cvars == <<promo, usages, voucher, redemptions, cord, ch, errors>>

CIdle == [pc |-> "idle"]

CInit ==
    /\ promo = [active |-> TRUE, deleted |-> FALSE, count |-> 0]
    /\ usages = <<>>
    /\ voucher = [status |-> "ACTIVE", remaining |-> Issued, deleted |-> FALSE, dated |-> FALSE]
    /\ redemptions = <<>>
    /\ cord = [o \in COrder |-> [status |-> "none", coupon |-> "none", discount |-> 0, moves |-> 0, missed |-> FALSE]]
    /\ ch = [w \in CWorker |-> CIdle]
    /\ errors = 0

Min2(a, b) == IF a < b THEN a ELSE b
UsagesOf(o) == {i \in DOMAIN usages : usages[i].order = o}
ActiveUsages == {i \in DOMAIN usages : usages[i].active}
Free(w, k) == ch[w] = CIdle /\ k \in CKinds[w]
GoTo(w, rec) == ch' = [ch EXCEPT ![w] = rec]

-----------------------------------------------------------------------------
(* createv2 with a code: PromoCodeService.applyPromoCode, else the voucher *)
(* through checkValidityForCustomer.                                       *)

PromoApplies ==
    /\ promo.active /\ ~promo.deleted
    /\ promo.count < MaxUsage
    /\ Cardinality(ActiveUsages) < PerUser

VoucherApplies ==
    voucher.status = "ACTIVE" /\ ~voucher.deleted /\ ~voucher.dated /\ voucher.remaining > 0

createv2(w, o) ==
    /\ Free(w, "create") /\ cord[o].status = "none"
    /\ \A v \in CWorker : ch[v].pc # "idle" => ch[v].order # o
    /\ \/ /\ PromoApplies
          /\ GoTo(w, [pc |-> "save", order |-> o, coupon |-> "promo", discount |-> Min2(Value, Net[o])])
       \/ /\ VoucherApplies
          /\ GoTo(w, [pc |-> "save", order |-> o, coupon |-> "voucher", discount |-> Min2(voucher.remaining, Net[o])])
    /\ UNCHANGED <<promo, usages, voucher, redemptions, cord, errors>>

SaveOrder(w) ==
    LET h == ch[w] IN
    /\ h.pc = "save"
    /\ cord' = [cord EXCEPT ![h.order] =
          [@ EXCEPT !.status = "PENDING", !.coupon = h.coupon, !.discount = h.discount]]
    /\ GoTo(w, IF h.coupon = "promo" THEN [pc |-> "find", order |-> h.order]
               ELSE [pc |-> "debit", order |-> h.order, discount |-> h.discount])
    /\ UNCHANGED <<promo, usages, voucher, redemptions, errors>>

(* recordUsage, called by createv2 and by the application on its own.      *)
StartRecord(w, o) ==
    /\ Free(w, "record") /\ cord[o].coupon = "promo" /\ cord[o].status # "none"
    /\ GoTo(w, [pc |-> "find", order |-> o])
    /\ UNCHANGED <<promo, usages, voucher, redemptions, cord, errors>>

FindUsage(w) ==
    /\ ch[w].pc = "find"
    /\ GoTo(w, IF UsagesOf(ch[w].order) = {} THEN [pc |-> "stage", order |-> ch[w].order] ELSE CIdle)
    /\ UNCHANGED <<promo, usages, voucher, redemptions, cord, errors>>

StageUsage(w) ==
    /\ ch[w].pc = "stage" /\ Len(usages) < MaxUsages
    /\ usages' = Append(usages, [order |-> ch[w].order, active |-> FALSE])
    /\ GoTo(w, CIdle)
    /\ UNCHANGED <<promo, voucher, redemptions, cord, errors>>

-----------------------------------------------------------------------------
(* redeemVoucher: one transaction, but what it writes comes from what it   *)
(* has read, and the read takes no lock.                                   *)
RedeemRead(w) ==
    LET h == ch[w] IN
    /\ h.pc = "debit"
    /\ GoTo(w, IF voucher.status = "ACTIVE" /\ ~voucher.dated /\ voucher.remaining >= h.discount
               THEN [pc |-> "redeem", order |-> h.order, discount |-> h.discount, seen |-> voucher.remaining]
               ELSE CIdle)
    /\ UNCHANGED <<promo, usages, voucher, redemptions, cord, errors>>

RedeemWrite(w) ==
    LET left == ch[w].seen - ch[w].discount IN
    /\ ch[w].pc = "redeem"
    /\ redemptions' = Append(redemptions, [order |-> ch[w].order, amount |-> ch[w].discount])
    /\ voucher' = [voucher EXCEPT !.remaining = left, !.status = IF left = 0 THEN "REDEEMED" ELSE @]
    /\ GoTo(w, CIdle)
    /\ UNCHANGED <<promo, usages, cord, errors>>

-----------------------------------------------------------------------------
(* updateStatus: the status, then the usage of the code.  The validator    *)
(* lets an order skip to COMPLETED, and a CANCELLED one start again.       *)
Moves == {<<"PENDING", "ACCEPTED">>, <<"ACCEPTED", "COMPLETED">>, <<"PENDING", "COMPLETED">>,
          <<"PENDING", "CANCELLED">>, <<"ACCEPTED", "CANCELLED">>, <<"COMPLETED", "CANCELLED">>,
          <<"CANCELLED", "PENDING">>, <<"CANCELLED", "COMPLETED">>}

updateStatus(w, o) ==
    /\ Free(w, "status") /\ cord[o].moves < MaxMoves
    /\ \A v \in CWorker : ch[v].pc # "idle" => ch[v].order # o \/ ch[v].pc \in {"find", "stage"}
    /\ \E m \in Moves :
         /\ m[1] = cord[o].status
         /\ cord' = [cord EXCEPT ![o].status = m[2], ![o].moves = @ + 1, ![o].missed = FALSE]
         /\ GoTo(w, CASE m[2] = "ACCEPTED" /\ cord[o].coupon = "promo" -> [pc |-> "activate", order |-> o]
                      [] m[2] = "CANCELLED" -> [pc |-> "deactivate", order |-> o]
                      [] OTHER -> CIdle)
    /\ UNCHANGED <<promo, usages, voucher, redemptions, errors>>

(* One usage of the order (any: the query has no order) becomes ACTIVE, or *)
(* is created ACTIVE when none was staged.                                 *)
activateUsageForOrder(w) ==
    LET o == ch[w].order IN
    /\ ch[w].pc = "activate"
    /\ \/ \E i \in UsagesOf(o) :
            /\ usages' = [usages EXCEPT ![i].active = TRUE]
            /\ promo' = [promo EXCEPT !.count = IF usages[i].active THEN @ ELSE @ + 1]
       \/ /\ UsagesOf(o) = {} /\ Len(usages) < MaxUsages
          /\ usages' = Append(usages, [order |-> o, active |-> TRUE])
          /\ promo' = [promo EXCEPT !.count = @ + 1]
    /\ GoTo(w, CIdle)
    /\ UNCHANGED <<voucher, redemptions, cord, errors>>

(* Mutant: the count goes down even if nothing was counted.                *)
DeactivateBlind(w) ==
    LET o == ch[w].order IN
    /\ ch[w].pc = "deactivate"
    /\ usages' = [i \in DOMAIN usages |->
                    IF usages[i].order = o THEN [usages[i] EXCEPT !.active = FALSE] ELSE usages[i]]
    /\ promo' = [promo EXCEPT !.count = @ - Cardinality(UsagesOf(o))]
    /\ GoTo(w, CIdle)
    /\ UNCHANGED <<voucher, redemptions, cord, errors>>

deactivateUsageForOrder(w) ==
    LET o == ch[w].order IN
    /\ ch[w].pc = "deactivate"
    /\ usages' = [i \in DOMAIN usages |->
                    IF usages[i].order = o THEN [usages[i] EXCEPT !.active = FALSE] ELSE usages[i]]
    /\ promo' = [promo EXCEPT !.count = @ - Cardinality(UsagesOf(o) \intersect ActiveUsages)]
    /\ GoTo(w, CIdle)
    /\ UNCHANGED <<voucher, redemptions, cord, errors>>

(* An error of these last steps is logged and swallowed by their caller.   *)
Swallowed(w) ==
    /\ ch[w].pc \in {"find", "stage", "debit", "redeem", "activate", "deactivate"}
    /\ errors < MaxErrors
    /\ errors' = errors + 1
    /\ cord' = [cord EXCEPT ![ch[w].order].missed = @ \/ ch[w].pc \in {"activate", "deactivate"}]
    /\ GoTo(w, CIdle)
    /\ UNCHANGED <<promo, usages, voucher, redemptions>>

-----------------------------------------------------------------------------
(* The back office and the crons.                                          *)
toggleActive ==
    /\ promo' = [promo EXCEPT !.active = ~@]
    /\ UNCHANGED <<usages, voucher, redemptions, cord, ch, errors>>

removePromo ==
    /\ promo' = [promo EXCEPT !.deleted = TRUE]
    /\ UNCHANGED <<usages, voucher, redemptions, cord, ch, errors>>

(* update: a cancelled voucher may be made active again, not a spent one;  *)
(* a later date may be given.                                              *)
updateVoucher ==
    /\ voucher.status \in {"ACTIVE", "CANCELLED"}
    /\ \E s \in {"ACTIVE", "CANCELLED"} : voucher' = [voucher EXCEPT !.status = s, !.dated = FALSE]
    /\ UNCHANGED <<promo, usages, redemptions, cord, ch, errors>>

cancelVoucher ==
    /\ voucher.status = "ACTIVE"
    /\ voucher' = [voucher EXCEPT !.status = "CANCELLED"]
    /\ UNCHANGED <<promo, usages, redemptions, cord, ch, errors>>

removeOrRestoreVoucher ==
    /\ voucher' = [voucher EXCEPT !.deleted = ~@]
    /\ UNCHANGED <<promo, usages, redemptions, cord, ch, errors>>

DatePasses ==
    /\ ~voucher.dated
    /\ voucher' = [voucher EXCEPT !.dated = TRUE]
    /\ UNCHANGED <<promo, usages, redemptions, cord, ch, errors>>

updateExpiredVouchers ==
    /\ voucher.status = "ACTIVE" /\ voucher.dated
    /\ voucher' = [voucher EXCEPT !.status = "EXPIRED"]
    /\ UNCHANGED <<promo, usages, redemptions, cord, ch, errors>>

BackOffice ==
    \/ toggleActive \/ removePromo \/ updateVoucher \/ cancelVoucher
    \/ removeOrRestoreVoucher \/ DatePasses \/ updateExpiredVouchers

-----------------------------------------------------------------------------
CNext ==
    \/ \E w \in CWorker, o \in COrder : createv2(w, o) \/ StartRecord(w, o) \/ updateStatus(w, o)
    \/ \E w \in CWorker :
          \/ SaveOrder(w) \/ FindUsage(w) \/ StageUsage(w) \/ RedeemRead(w) \/ RedeemWrite(w)
          \/ activateUsageForOrder(w) \/ deactivateUsageForOrder(w) \/ Swallowed(w)
    \/ BackOffice

CSpec == CInit /\ [][CNext]_cvars

-----------------------------------------------------------------------------
(* Properties.                                                             *)

Debited == SumFunction([i \in DOMAIN redemptions |-> redemptions[i].amount])

(* Types of the variables; a usage belongs to an order that has the code.  *)
CTypeOK ==
    /\ promo \in [active : BOOLEAN, deleted : BOOLEAN, count : Nat]
    /\ \A i \in DOMAIN usages : cord[usages[i].order].coupon = "promo"
    /\ voucher \in [status : {"ACTIVE", "CANCELLED", "REDEEMED", "EXPIRED"}, remaining : 0 .. Issued,
                    deleted : BOOLEAN, dated : BOOLEAN]
    /\ \A o \in COrder : cord[o].discount \in 0 .. Net[o]

(* usage_count, against which the ceiling of the code is checked, is the   *)
(* number of usages that count.                                            *)
CountIsActive == promo.count = Cardinality(ActiveUsages)

(* At rest an accepted order counts once and a cancelled or pending one    *)
(* does not, whichever calls recorded it, unless the step that changes the *)
(* count failed.                                                           *)
AcceptedIsCounted ==
    \A o \in COrder :
        ((\A w \in CWorker : ch[w] = CIdle) /\ ~cord[o].missed /\ cord[o].coupon = "promo") =>
            LET n == Cardinality(UsagesOf(o) \intersect ActiveUsages) IN
            /\ cord[o].status = "ACCEPTED" => n = 1
            /\ cord[o].status = "CANCELLED" => n = 0

(* What was debited from the voucher and what remains make its amount: no  *)
(* debit is lost, whatever the back office does in between.                *)
VoucherBalance == Debited + voucher.remaining = Issued
=============================================================================
