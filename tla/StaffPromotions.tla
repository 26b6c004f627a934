---------------------------- MODULE StaffPromotions ----------------------------
(***************************************************************************)
(* A promotion on the orders the staff creates.  The reduction is computed *)
(* before the order is saved; its use is recorded afterwards, by the       *)
(* listener of the creation, which computes the same reduction again and   *)
(* then takes the points the order spends.                                 *)
(***************************************************************************)
EXTENDS Naturals, FiniteSetsExt

CONSTANTS
    PCustomer, POrder, Buyer,   \* who makes each order
    Worth, Total,               \* reduction of each order before ceilings, and its dishes
    max_usage_per_user, max_total_usage, max_discount_amount,
    SPWorker                        \* processes of the staff

VARIABLES
    promotion,  \* status and current_usage
    promoUses,  \* PromotionUsage rows: the reduction recorded for an order
    placed,     \* reduction granted to each order, or NotPlaced
    redeemed,   \* orders whose points were taken
    sph,        \* the handler each process is in
    crossing    \* two creations were under way at once

spv == <<promotion, promoUses, placed, redeemed, sph, crossing>>

NotPlaced == 1000
SPIdle == [pc |-> "idle"]

SPInit ==
    /\ promotion = [status |-> "ACTIVE", current_usage |-> 0]
    /\ promoUses = [o \in POrder |-> 0] /\ placed = [o \in POrder |-> NotPlaced]
    /\ redeemed = {} /\ crossing = FALSE
    /\ sph = [w \in SPWorker |-> SPIdle]

Recorded == {o \in POrder : promoUses[o] > 0}
GivenSoFar == MapThenSumSet(LAMBDA o : promoUses[o], POrder)

canCustomerUsePromotion(c) ==
    /\ Cardinality({o \in Recorded : Buyer[o] = c}) < max_usage_per_user
    /\ promotion.current_usage < max_total_usage

Applicable(o) ==
    /\ canCustomerUsePromotion(Buyer[o])
    /\ promotion.status = "ACTIVE"
    /\ GivenSoFar < max_discount_amount

\* The ceiling of the campaign is also the one of an order.
calculateDiscount(o) == Min({Worth[o], max_discount_amount, Total[o]})

Handled(o) == \E w \in SPWorker : sph[w] # SPIdle /\ sph[w].order = o
SPStep(w, h) == sph' = [sph EXCEPT ![w] = h]

-----------------------------------------------------------------------------
(* Creation of an order.                                                   *)

calculatePromotionPrice(w, o) ==
    /\ sph[w] = SPIdle /\ placed[o] = NotPlaced
    /\ ~Handled(o)
    /\ SPStep(w, [pc |-> "create", order |-> o, discount |-> IF Applicable(o) THEN calculateDiscount(o) ELSE 0])
    /\ crossing' = (crossing \/ \E v \in SPWorker : sph[v] # SPIdle)
    /\ UNCHANGED <<promotion, promoUses, placed, redeemed>>

\* The promotion is kept with the order only when it gives something.
SaveOrder(w) ==
    /\ sph[w].pc = "create"
    /\ placed' = [placed EXCEPT ![sph[w].order] = sph[w].discount]
    /\ SPStep(w, [sph[w] EXCEPT !.pc = IF sph[w].discount > 0 THEN "use" ELSE "points"])
    /\ UNCHANGED <<promotion, promoUses, redeemed, crossing>>

-----------------------------------------------------------------------------
(* The listener of the creation: an order the promotion does not apply to  *)
(* any more ends it with an error.                                         *)

usePromotion(w) ==
    /\ sph[w].pc = "use"
    /\ LET o == sph[w].order IN
       SPStep(w, IF Applicable(o) THEN [pc |-> "record", order |-> o, discount |-> calculateDiscount(o)]
                 ELSE SPIdle)
    /\ UNCHANGED <<promotion, promoUses, placed, redeemed, crossing>>

RecordUsage(w) ==
    /\ sph[w].pc = "record"
    /\ promoUses' = [promoUses EXCEPT ![sph[w].order] = sph[w].discount]
    /\ promotion' = [promotion EXCEPT !.current_usage = @ + 1]
    /\ SPStep(w, [sph[w] EXCEPT !.pc = "points"])
    /\ UNCHANGED <<placed, redeemed, crossing>>

redeemPoints(w) ==
    /\ sph[w].pc = "points"
    /\ redeemed' = redeemed \union {sph[w].order}
    /\ SPStep(w, SPIdle)
    /\ UNCHANGED <<promotion, promoUses, placed, crossing>>

-----------------------------------------------------------------------------
updatePromotionStatus ==
    /\ promotion.status = "ACTIVE"
    /\ promotion' = [promotion EXCEPT !.status = "EXPIRED"]
    /\ UNCHANGED <<promoUses, placed, redeemed, sph, crossing>>

SPNext ==
    \/ \E w \in SPWorker : \/ \E o \in POrder : calculatePromotionPrice(w, o)
                       \/ SaveOrder(w) \/ usePromotion(w) \/ RecordUsage(w) \/ redeemPoints(w)
    \/ updatePromotionStatus

-----------------------------------------------------------------------------
SPTypeOK ==
    /\ promoUses \in [POrder -> 0 .. max_discount_amount] /\ redeemed \subseteq POrder
    /\ promotion.current_usage = Cardinality(Recorded)

Finished(o) == placed[o] # NotPlaced /\ ~Handled(o)

(* The use recorded for an order is the reduction it was granted, and a    *)
(* granted reduction without record only comes from creations that crossed *)
(* or from the end of the promotion between the two computations.          *)
GrantedIsRecorded ==
    \A o \in POrder :
        /\ o \in Recorded => promoUses[o] = placed[o]
        /\ Finished(o) /\ placed[o] > 0 /\ ~crossing /\ promotion.status = "ACTIVE" => o \in Recorded

(* A campaign stops once its ceiling is reached: it overshoots by less     *)
(* than the last reduction.  Its uses stay within their two limits.  Known *)
(* exception: creations that crossed.                                      *)
PromotionWithinLimits ==
    ~crossing =>
        /\ promotion.current_usage <= max_total_usage
        /\ \A c \in PCustomer : Cardinality({o \in Recorded : Buyer[o] = c}) <= max_usage_per_user
        /\ \E o \in POrder : GivenSoFar - promoUses[o] < max_discount_amount

(* The points an order spends are taken, except when recording the use of  *)
(* its promotion failed before.                                            *)
PointsFollowPromotion ==
    \A o \in POrder : Finished(o) /\ o \notin redeemed => placed[o] > 0 /\ o \notin Recorded
=============================================================================
