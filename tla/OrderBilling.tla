----------------------------- MODULE OrderBilling -----------------------------
(***************************************************************************)
(* The amount of an order: set at its creation, by the application or by   *)
(* the staff, corrected by later edits, and compared with the payments     *)
(* that succeeded to keep the flag paied.  One order; an edit reads the    *)
(* row, then writes it by id; the flag is recomputed by a read and a write *)
(* of its own.                                                             *)
(***************************************************************************)
EXTENDS Integers, Sequences, FiniteSetsExt, SequencesExt

CONSTANTS
    BWorker,              \* processes of the back office and of the payments
    Baskets, Fees,        \* what the dishes of an order, and its delivery, may cost
    TotalPoints, MinPoints, PointValue, MaxPct,  \* loyalty of the customer
    CouponValue, TaxOf(_),
    Tolerance,            \* PAYMENT_AMOUNT_TOLERANCE
    MaxPayments, MaxBillingActs  \* bounds

VARIABLES
    bill,      \* the Order row, or Unborn
    pays,      \* totals of its payments; 0 once one is no longer SUCCESS
    bh,        \* the handler each process is in
    feeAlone,  \* the fee was written without the amount
    shrunk,    \* the dishes were changed for less than the discount
    clash,     \* two handlers were at work at once
    bacts      \* operations so far

bv == <<bill, pays, bh, feeAlone, shrunk, clash, bacts>>

Unborn == [type |-> "none"]
BIdle == [pc |-> "idle"]

BInit ==
    /\ bill = Unborn /\ pays = <<>>
    /\ bh = [w \in BWorker |-> BIdle]
    /\ feeAlone = FALSE /\ shrunk = FALSE /\ clash = FALSE /\ bacts = 0

Born == bill # Unborn
TotalPaid == FoldSeq(LAMBDA x, s : x + s, 0, pays)
ShouldBePaied(b) == TotalPaid >= b.amount - Tolerance

-----------------------------------------------------------------------------
(* Creation.                                                               *)

capLoyaltyDiscount(amount, net) ==
    IF MaxPct \in 1 .. 99 /\ net > 0 THEN Min({amount, (MaxPct * net) \div 100}) ELSE amount

calculateLoyaltyFee(points, net) ==
    IF points = 0 \/ points < MinPoints \/ TotalPoints < points THEN 0
    ELSE capLoyaltyDiscount(points * PointValue, net)

\* Points or a coupon, never both; a coupon is worth the basket at most.
Reductions(points, coupon, net) ==
    calculateLoyaltyFee(points, net) + IF coupon THEN Min({CouponValue, net}) ELSE 0

Placed(type, net, discount, tax, fee) ==
    bill' = [type |-> type, net |-> net, discount |-> discount, tax |-> tax, fee |-> fee,
             amount |-> net - discount + tax + fee,
             paied |-> FALSE, deleted |-> FALSE]

\* The application: the server computes the fee of a delivery.
createv2(type, net, points, coupon, fee) ==
    /\ ~Born /\ ~(points > 0 /\ coupon)
    /\ type # "DELIVERY" => fee = 0
    /\ Placed(type, net, Reductions(points, coupon, net), TaxOf(net), fee)
    /\ UNCHANGED <<pays, bh, feeAlone, shrunk, clash, bacts>>

\* The staff: the fee may be forced, for any type of order; no tax.
create(type, net, points, fee) ==
    /\ ~Born
    /\ Placed(type, net, Reductions(points, FALSE, net), 0, fee)
    /\ UNCHANGED <<pays, bh, feeAlone, shrunk, clash, bacts>>

-----------------------------------------------------------------------------
(* Handlers.                                                               *)

Acts == bacts < MaxBillingActs /\ bacts' = bacts + 1
Enters(w, h) ==
    /\ Born /\ bh[w] = BIdle
    /\ bh' = [bh EXCEPT ![w] = h]
    /\ clash' = (clash \/ \E o \in BWorker : bh[o] # BIdle)

\* What an edit asks: a basket or none (-1), a fee or none (-1), a type.
update(w, net, fee, type) ==
    /\ Acts
    /\ Enters(w, [pc |-> "update", read |-> bill, net |-> net, fee |-> fee, type |-> type])
    /\ UNCHANGED <<bill, pays, feeAlone, shrunk>>

WriteUpdate(w) ==
    /\ bh[w].pc = "update"
    /\ LET h == bh[w]
           fee == IF h.type # "DELIVERY" THEN 0 ELSE IF h.fee >= 0 THEN h.fee ELSE h.read.fee
           edited == [bill EXCEPT !.type = h.type, !.fee = fee]
       IN IF h.net >= 0
          THEN /\ bill' = [edited EXCEPT !.net = h.net,
                               !.amount = h.net - h.read.discount + h.read.tax + fee]
               /\ feeAlone' = FALSE /\ shrunk' = (h.net < h.read.discount)
               /\ bh' = [bh EXCEPT ![w] = [pc |-> "recompute"]]
          ELSE /\ bill' = edited
               /\ feeAlone' = (feeAlone \/ fee # bill.fee)
               /\ bh' = [bh EXCEPT ![w] = BIdle] /\ UNCHANGED shrunk
    /\ UNCHANGED <<pays, clash, bacts>>

\* A payment written by hand: one that becomes SUCCESS, one corrected, refunded or deleted.
SettlePayment(w, i, total) ==
    /\ Acts /\ Enters(w, [pc |-> "recompute"])
    /\ \/ i = Len(pays) + 1 /\ total > 0 /\ pays' = Append(pays, total)
       \/ i \in DOMAIN pays /\ total # pays[i] /\ pays' = [pays EXCEPT ![i] = total]
    /\ UNCHANGED <<bill, feeAlone, shrunk>>

recomputeOrderPaiedFlag(w) ==
    /\ bh[w].pc = "recompute"
    /\ bh' = [bh EXCEPT ![w] = IF ShouldBePaied(bill) = bill.paied THEN BIdle
                               ELSE [pc |-> "flag", paied |-> ShouldBePaied(bill)]]
    /\ UNCHANGED <<bill, pays, feeAlone, shrunk, clash, bacts>>

WriteFlag(w) ==
    /\ bh[w].pc = "flag"
    /\ bill' = [bill EXCEPT !.paied = bh[w].paied]
    /\ bh' = [bh EXCEPT ![w] = BIdle]
    /\ UNCHANGED <<pays, feeAlone, shrunk, clash, bacts>>

\* A paid order is not deleted.
remove(w) ==
    /\ ~bill.deleted /\ ~bill.paied /\ Acts
    /\ Enters(w, [pc |-> "remove"])
    /\ UNCHANGED <<bill, pays, feeAlone, shrunk>>

WriteRemove(w) ==
    /\ bh[w].pc = "remove"
    /\ bill' = [bill EXCEPT !.deleted = TRUE]
    /\ bh' = [bh EXCEPT ![w] = BIdle]
    /\ UNCHANGED <<pays, feeAlone, shrunk, clash, bacts>>

BNext ==
    \/ \E type \in {"DELIVERY", "PICKUP"}, net \in Baskets, points \in {0, TotalPoints}, fee \in Fees :
           create(type, net, points, fee) \/ \E coupon \in BOOLEAN : createv2(type, net, points, coupon, fee)
    \/ \E w \in BWorker :
         \/ \E net \in Baskets \union {-1}, fee \in Fees \union {-1}, type \in {"DELIVERY", "PICKUP"} : update(w, net, fee, type)
         \/ \E i \in 1 .. MaxPayments, total \in Baskets \union {0} : SettlePayment(w, i, total)
         \/ WriteUpdate(w) \/ recomputeOrderPaiedFlag(w) \/ WriteFlag(w)
         \/ (Born /\ remove(w)) \/ WriteRemove(w)

-----------------------------------------------------------------------------
BTypeOK ==
    /\ Len(pays) <= MaxPayments
    /\ Born => bill.discount >= 0 /\ bill.fee \in Fees \union {0} /\ bill.net \in Baskets

(* The amount of an order is its dishes, less its discount, with its tax   *)
(* and its fee, whatever edits cross.  Known exception: an edit of the fee *)
(* or of the type without the dishes does not change the amount.           *)
AmountIsItsParts ==
    Born /\ ~feeAlone => bill.amount = bill.net - bill.discount + bill.tax + bill.fee

(* The customer is never owed money by an order.  Known exceptions: an edit *)
(* of the dishes keeps the discount of the former ones; a fee removed alone *)
(* is in the amount until the next edit of the dishes.                     *)
NothingOwedToCustomer == Born /\ ~shrunk => bill.amount >= 0

(* Once every handler is over, the flag says whether the payments cover    *)
(* the amount, if no two of them were at work at once.                     *)
FlagFollowsPayments ==
    Born /\ ~clash /\ Len(pays) > 0 /\ (\A w \in BWorker : bh[w] = BIdle)
    => bill.paied = ShouldBePaied(bill)

(* An order deleted alone was not paid: no payment covers it then.         *)
DeletedWasUnpaid ==
    [][Born /\ ~clash' /\ bill'.deleted /\ ~bill.deleted /\ Len(pays) > 0 => ~ShouldBePaied(bill)]_bv
=============================================================================
