------------------------------ MODULE ScratchGame ------------------------------
(***************************************************************************)
(* "Gratte et Gagne": a paid order draws a lot (a big one whose stock is   *)
(* limited, or the floor: its points), the customer scratches the reward,  *)
(* a gift is put in the cart of a later order, and the cancellation of an  *)
(* order revokes what was not scratched and gives the stock back.          *)
(*                                                                         *)
(* The draw is a gate (one row per order) followed by separate statements; *)
(* a retry after an error finds the row and makes up for what is missing.  *)
(***************************************************************************)
EXTENDS Naturals, SequencesExt

CONSTANTS
    SOrder,
    Lot, LotType,  \* big lots and the type of the reward they give
    Stock,         \* stock of each lot
    SWorker,
    Racing,        \* may handlers of one order overlap?
    MaxRewards,    \* bound: rows of Reward
    MaxBreaks,     \* bound: errors in the middle of a handler
    Nobody

VARIABLES
    sorder,        \* "new", "placed" or "cancelled"
    draw,          \* the ScratchDraw row of each order
    used,          \* stock_used of each lot
    rewards,       \* Reward rows, with the number of vouchers issued for each
    gift,          \* the gift in the cart of each order
    due,           \* cancelled orders whose gift is still to be given back
    sh,            \* the handler each worker is in
    broken         \* orders one of whose handlers was cut

svars == <<sorder, draw, used, rewards, gift, due, sh, broken>>

SIdle == [pc |-> "idle", order |-> Nobody]
NoDraw == [made |-> FALSE, lot |-> Nobody, reward |-> 0, restored |-> FALSE]

SInit ==
    /\ sorder = [o \in SOrder |-> "new"]
    /\ draw = [o \in SOrder |-> NoDraw]
    /\ used = [l \in Lot |-> 0]
    /\ rewards = <<>>
    /\ gift = [o \in SOrder |-> 0]
    /\ due = {}
    /\ sh = [w \in SWorker |-> SIdle]
    /\ broken = {}

At(w, pc) == sh[w].pc = pc
To(w, pc) == sh' = [sh EXCEPT ![w].pc = pc]
Done(w) == sh' = [sh EXCEPT ![w] = SIdle]
FreeFor(w, o) == sh[w] = SIdle /\ (Racing \/ \A v \in SWorker : sh[v].order # o)
ScratchRoom == Len(rewards) < MaxRewards
Prize(o, type, l) ==
    [order |-> o, from |-> o, type |-> type, lot |-> l, status |-> "PENDING", vouchers |-> 0]

-----------------------------------------------------------------------------
(* drawForOrder, in the effects of a payment that are run again on error.  *)

drawForOrder(w, o) ==
    /\ FreeFor(w, o) /\ sorder[o] # "new"
    /\ ~(draw[o].made /\ draw[o].reward # 0)
    /\ IF draw[o].made
       THEN sh' = [sh EXCEPT ![w] =
                     [pc |-> IF draw[o].lot = Nobody THEN "floor" ELSE "reconcile", order |-> o]]
       ELSE \E l \in {Nobody} \union {k \in Lot : used[k] < Stock[k]} :
                sh' = [sh EXCEPT ![w] = [pc |-> "claim", order |-> o, lot |-> l]]
    /\ UNCHANGED <<sorder, draw, used, rewards, gift, due, broken>>

claimDraw(w) ==
    LET o == sh[w].order IN
    /\ At(w, "claim")
    /\ IF draw[o].made
       THEN Done(w) /\ UNCHANGED draw
       ELSE /\ draw' = [draw EXCEPT ![o] = [@ EXCEPT !.made = TRUE, !.lot = sh[w].lot]]
            /\ To(w, IF sh[w].lot = Nobody THEN "floor" ELSE "stock")
    /\ UNCHANGED <<sorder, used, rewards, gift, due, broken>>

(* commitGros: out of stock meanwhile, the draw falls back to the floor.   *)
ClaimStock(w) ==
    LET o == sh[w].order  l == sh[w].lot IN
    /\ At(w, "stock")
    /\ IF used[l] < Stock[l]
       THEN used' = [used EXCEPT ![l] = @ + 1] /\ To(w, "prize") /\ UNCHANGED draw
       ELSE draw' = [draw EXCEPT ![o].lot = Nobody] /\ To(w, "floor") /\ UNCHANGED used
    /\ UNCHANGED <<sorder, rewards, gift, due, broken>>

createRewardFromLot(w) ==
    LET o == sh[w].order IN
    /\ At(w, "prize") /\ ScratchRoom
    /\ rewards' = Append(rewards, Prize(o, LotType[draw[o].lot], draw[o].lot))
    /\ sh' = [sh EXCEPT ![w] = [pc |-> "link", order |-> o, reward |-> Len(rewards) + 1]]
    /\ UNCHANGED <<sorder, draw, used, gift, due, broken>>

(* The POINTS reward of the order: one, by its unique index.               *)
createPointsReward(w) ==
    LET o == sh[w].order
        mine == {i \in DOMAIN rewards : rewards[i].order = o /\ rewards[i].type = "POINTS"}
    IN /\ At(w, "floor")
       /\ \/ \E i \in mine :
               /\ sh' = [sh EXCEPT ![w] = [pc |-> "link", order |-> o, reward |-> i]]
               /\ UNCHANGED rewards
          \/ /\ mine = {} /\ ScratchRoom
             /\ rewards' = Append(rewards, Prize(o, "POINTS", Nobody))
             /\ sh' = [sh EXCEPT ![w] = [pc |-> "link", order |-> o, reward |-> Len(rewards) + 1]]
       /\ UNCHANGED <<sorder, draw, used, gift, due, broken>>

Link(w) ==
    /\ At(w, "link")
    /\ draw' = [draw EXCEPT ![sh[w].order].reward = sh[w].reward]
    /\ Done(w)
    /\ UNCHANGED <<sorder, used, rewards, gift, due, broken>>

(* reconcileMissingReward of a big lot, in a transaction that locks the    *)
(* draw; a PENDING reward of the order and type is taken for its own.      *)
reconcileMissingReward(w) ==
    LET o == sh[w].order
        mine == {i \in DOMAIN rewards : /\ rewards[i].order = o
                                        /\ rewards[i].type = LotType[draw[o].lot]
                                        /\ rewards[i].status = "PENDING"}
    IN /\ At(w, "reconcile")
       /\ \/ draw[o].reward # 0 /\ UNCHANGED <<rewards, draw>>
          \/ /\ draw[o].reward = 0
             /\ \E i \in mine : draw' = [draw EXCEPT ![o].reward = i]
             /\ UNCHANGED rewards
          \/ /\ draw[o].reward = 0 /\ mine = {} /\ ScratchRoom
             /\ rewards' = Append(rewards, Prize(o, LotType[draw[o].lot], draw[o].lot))
             /\ draw' = [draw EXCEPT ![o].reward = Len(rewards) + 1]
       /\ Done(w)
       /\ UNCHANGED <<sorder, used, gift, due, broken>>

-----------------------------------------------------------------------------
(* The customer: scratches a reward, puts a gift in a cart.                *)

scratchReward(w, i) ==
    /\ FreeFor(w, rewards[i].from)
    /\ rewards[i].status = "PENDING"
    /\ rewards' = [rewards EXCEPT ![i].status = "SCRATCHED"]
    /\ IF rewards[i].type = "VOUCHER"
       THEN sh' = [sh EXCEPT ![w] = [pc |-> "issue", order |-> rewards[i].from, reward |-> i]]
       ELSE UNCHANGED sh
    /\ UNCHANGED <<sorder, draw, used, gift, due, broken>>

IssueVoucher(w) ==
    /\ At(w, "issue")
    /\ rewards' = [rewards EXCEPT ![sh[w].reward].vouchers = @ + 1]
    /\ Done(w)
    /\ UNCHANGED <<sorder, draw, used, gift, due, broken>>

PlaceOrder(o) ==
    /\ sorder[o] = "new" /\ \A v \in SWorker : sh[v].order # o
    /\ sorder' = [sorder EXCEPT ![o] = "placed"]
    /\ UNCHANGED <<draw, used, rewards, gift, due, sh, broken>>

validateGiftLines(w, o, i) ==
    /\ sh[w] = SIdle /\ sorder[o] = "new" /\ \A v \in SWorker : sh[v].order # o
    /\ rewards[i].type = "GIFT" /\ rewards[i].status = "SCRATCHED"
    /\ sh' = [sh EXCEPT ![w] = [pc |-> "cart", order |-> o, reward |-> i]]
    /\ UNCHANGED <<sorder, draw, used, rewards, gift, due, broken>>

(* The claim of createv2, in the transaction that saves the order: the     *)
(* order is not saved when another one took the gift first.                *)
ConsumeGift(w) ==
    LET o == sh[w].order  i == sh[w].reward IN
    /\ At(w, "cart") /\ Done(w)
    /\ IF rewards[i].status = "SCRATCHED"
       THEN /\ rewards' = [rewards EXCEPT ![i] = [@ EXCEPT !.status = "CONSUMED", !.order = o]]
            /\ gift' = [gift EXCEPT ![o] = i]
            /\ sorder' = [sorder EXCEPT ![o] = "placed"]
       ELSE UNCHANGED <<rewards, gift, sorder>>
    /\ UNCHANGED <<draw, used, due, broken>>

-----------------------------------------------------------------------------
(* The cancellation: the listener revokes and then restores the stock, and *)
(* gives a gift of the cart back on its own.  The event may be repeated.   *)

CancelOrder(w, o) ==
    /\ FreeFor(w, o) /\ sorder[o] # "new"
    /\ sorder' = [sorder EXCEPT ![o] = "cancelled"]
    /\ due' = due \union {o}
    /\ sh' = [sh EXCEPT ![w] = [pc |-> "revoke", order |-> o]]
    /\ UNCHANGED <<draw, used, rewards, gift, broken>>

revokeForOrder(w) ==
    /\ At(w, "revoke")
    /\ rewards' = [i \in DOMAIN rewards |->
          IF rewards[i].order = sh[w].order /\ rewards[i].status = "PENDING"
          THEN [rewards[i] EXCEPT !.status = "REVOKED"] ELSE rewards[i]]
    /\ To(w, "restore")
    /\ UNCHANGED <<sorder, draw, used, gift, due, broken>>

RestoreRead(w) ==
    LET d == draw[sh[w].order] IN
    /\ At(w, "restore")
    /\ IF d.lot # Nobody /\ ~d.restored
          /\ (d.reward # 0 => rewards[d.reward].status = "REVOKED")
       THEN To(w, "giveback") ELSE Done(w)
    /\ UNCHANGED <<sorder, draw, used, rewards, gift, due, broken>>

RestoreClaim(w) ==
    LET o == sh[w].order IN
    /\ At(w, "giveback")
    /\ IF draw[o].restored THEN Done(w) /\ UNCHANGED draw
       ELSE draw' = [draw EXCEPT ![o].restored = TRUE] /\ To(w, "decrement")
    /\ UNCHANGED <<sorder, used, rewards, gift, due, broken>>

restoreStockForCancelledOrder(w) ==
    LET l == draw[sh[w].order].lot IN
    /\ At(w, "decrement")
    /\ used' = IF used[l] > 0 THEN [used EXCEPT ![l] = @ - 1] ELSE used
    /\ Done(w)
    /\ UNCHANGED <<sorder, draw, rewards, gift, due, broken>>

restoreConsumedGiftsForOrder(o) ==
    /\ o \in due /\ due' = due \ {o}
    /\ rewards' = [i \in DOMAIN rewards |->
          IF /\ rewards[i].order = o
             /\ rewards[i].type = "GIFT" /\ rewards[i].status = "CONSUMED"
          THEN [rewards[i] EXCEPT !.status = "SCRATCHED", !.order = Nobody] ELSE rewards[i]]
    /\ UNCHANGED <<sorder, draw, used, gift, sh, broken>>

(* An error or a stop in the middle of a handler.                          *)
Break(w) ==
    /\ sh[w] # SIdle /\ Cardinality(broken) < MaxBreaks
    /\ broken' = broken \union {sh[w].order}
    /\ Done(w)
    /\ UNCHANGED <<sorder, draw, used, rewards, gift, due>>

-----------------------------------------------------------------------------
DrawStep(w) ==
    \/ claimDraw(w) \/ ClaimStock(w) \/ createRewardFromLot(w) \/ createPointsReward(w)
    \/ Link(w) \/ reconcileMissingReward(w)

CancelStep(w) ==
    revokeForOrder(w) \/ RestoreRead(w) \/ RestoreClaim(w) \/ restoreStockForCancelledOrder(w)

SNext ==
    \/ \E w \in SWorker, o \in SOrder : drawForOrder(w, o) \/ CancelOrder(w, o)
    \/ \E w \in SWorker, i \in DOMAIN rewards :
          scratchReward(w, i) \/ \E o \in SOrder : validateGiftLines(w, o, i)
    \/ \E w \in SWorker :
          DrawStep(w) \/ CancelStep(w) \/ IssueVoucher(w) \/ ConsumeGift(w) \/ Break(w)
    \/ \E o \in SOrder : PlaceOrder(o) \/ restoreConsumedGiftsForOrder(o)

SSpec == SInit /\ [][SNext]_svars

-----------------------------------------------------------------------------
(* Properties.                                                             *)

(* Types of the variables; a gift whose order is forgotten is usable.      *)
STypeOK ==
    /\ \A o \in SOrder : /\ sorder[o] \in {"new", "placed", "cancelled"}
                         /\ draw[o].lot \in Lot \union {Nobody}
                         /\ draw[o].reward \in 0 .. Len(rewards)
                         /\ gift[o] \in 0 .. Len(rewards)
    /\ \A l \in Lot : used[l] \in Nat
    /\ \A i \in DOMAIN rewards :
         /\ rewards[i].status \in {"PENDING", "SCRATCHED", "CONSUMED", "REVOKED"}
         /\ rewards[i].order = Nobody => rewards[i].status = "SCRATCHED"

(* A payment whose effects are run again does not give a second reward for *)
(* the same order; only a handler cut in the middle may leave one behind.  *)
OneRewardPerOrder ==
    \A i, j \in DOMAIN rewards :
        rewards[i].from = rewards[j].from /\ rewards[i].from \notin broken => i = j

(* Draws of several orders at once, cancellations and their repetition     *)
(* leave stock_used equal to the number of draws that hold the lot.        *)
StockIsHeld ==
    ((\A w \in SWorker : sh[w] = SIdle) /\ broken = {}) =>
        \A l \in Lot : used[l] = Cardinality({o \in SOrder : draw[o].lot = l /\ ~draw[o].restored})

(* No lot is in the hands of more customers than its stock has units.      *)
NeverOversold ==
    broken = {} => \A l \in Lot :
        Cardinality({i \in DOMAIN rewards : rewards[i].lot = l /\ rewards[i].status # "REVOKED"}) <= Stock[l]

(* A reward is exchanged for one voucher, and only once it is scratched.   *)
OneVoucherPerReward ==
    \A i \in DOMAIN rewards :
        rewards[i].vouchers <= (IF rewards[i].status = "SCRATCHED" THEN 1 ELSE 0)

(* A gift is in the cart of one order that stands, though two carts may    *)
(* have been validated with it.                                            *)
GiftUsedOnce ==
    \A o, p \in SOrder :
        (o # p /\ gift[o] # 0 /\ gift[o] = gift[p]) => "cancelled" \in {sorder[o], sorder[p]}
=============================================================================
