----------------------------- MODULE LoyaltyLedger -----------------------------
(***************************************************************************)
(* The points of one customer: the LoyaltyPoint rows and the counters kept *)
(* beside them on the Customer (total_points, status_points, level).       *)
(*                                                                         *)
(* A payment earns points, an accepted or completed order spends the ones  *)
(* its customer asked to spend, a cancelled order gives back what it       *)
(* earned, the nightly cron expires what is too old, and the first night   *)
(* of the year resets the status.  The handlers check first and write in a *)
(* transaction afterwards; those that walk over several rows run one       *)
(* transaction per row and may stop between two.  A transaction is one     *)
(* step: two of one customer that overlap are left out.                    *)
(***************************************************************************)
EXTENDS Naturals, SequencesExt

CONSTANTS
    Order,
    Earns,         \* points an order earns when it is paid
    Spends,        \* points its customer asked to spend, 0 for none
    Minimum,       \* minimum_redemption_points
    VipAt, VvipAt, \* thresholds of the levels
    Bonus,         \* bonus of a level, by level
    Worker,
    MaxRows,       \* bound: rows of the ledger
    MaxStops,      \* bound: stops in the middle of a handler
    MaxYears,      \* bound: resets of the status
    None

VARIABLES
    acct,          \* total_points, status_points and loyalty_level
    ledger,        \* the rows, oldest first
    past,          \* the first `past' rows are past their date
    lorder,        \* status of each order
    lh,            \* the handler each worker is in
    years, stops

lvars == <<acct, ledger, past, lorder, lh, years, stops>>

Levels == <<"STANDARD", "VIP", "VVIP">>
Tier(level) == IF level = None THEN 0 ELSE CHOOSE i \in DOMAIN Levels : Levels[i] = level

LIdle == [pc |-> "idle"]

LInit ==
    /\ acct = [total |-> 0, status |-> 0, level |-> None]
    /\ ledger = <<>> /\ past = 0
    /\ lorder = [o \in Order |-> "PENDING"]
    /\ lh = [w \in Worker |-> LIdle]
    /\ years = 0 /\ stops = 0

Lower(a, b) == IF a < b THEN a ELSE b
Row(o, type, n) == [order |-> o, type |-> type, points |-> n, used |-> 0, yes |-> FALSE]
Live(i) == ledger[i].type \in {"EARNED", "BONUS"} /\ ~ledger[i].yes
Left(i) == ledger[i].points - ledger[i].used
SumLeft(S) == SumFunction([i \in S |-> Left(i)])
LRoom(n) == Len(ledger) + n <= MaxRows

-----------------------------------------------------------------------------
(* Levels.                                                                 *)

computeLoyaltyLevel(n) ==
    IF n >= VvipAt THEN "VVIP" ELSE IF n >= VipAt THEN "VIP" ELSE "STANDARD"

NewLevel(a) == computeLoyaltyLevel(a.status)

(* updateCustomerLoyaltyLevel, on the counters a and the rows led of the   *)
(* running transaction; a rise brings its bonus, tied to order o.          *)
updateCustomerLoyaltyLevel(a, led, o) ==
    LET new == NewLevel(a)
        gift == IF Tier(new) > Tier(a.level) THEN Bonus[new] ELSE 0
    IN /\ acct' = [a EXCEPT !.level = new, !.total = @ + gift]
       /\ ledger' = IF gift > 0 THEN Append(led, Row(o, "BONUS", gift)) ELSE led

-----------------------------------------------------------------------------
(* addPoints, at the payment of an order (replayed by retries) or by hand  *)
(* (no order, type BONUS).                                                 *)

StartGain(w, o) ==
    /\ lh[w] = LIdle
    /\ lorder[o] # "PENDING"
    /\ IF \E i \in DOMAIN ledger : ledger[i].order = o /\ ledger[i].type \in {"EARNED", "BONUS"}
       THEN UNCHANGED lh
       ELSE lh' = [lh EXCEPT ![w] = [pc |-> "gain", order |-> o]]
    /\ UNCHANGED <<acct, ledger, past, lorder, years, stops>>

addPoints(w) ==
    /\ lh[w].pc = "gain" /\ LRoom(2)
    /\ LET o == lh[w].order
           a == [acct EXCEPT !.total = @ + Earns[o], !.status = @ + Earns[o]]
       IN updateCustomerLoyaltyLevel(a, Append(ledger, Row(o, "EARNED", Earns[o])), o)
    /\ lh' = [lh EXCEPT ![w] = LIdle]
    /\ UNCHANGED <<past, lorder, years, stops>>

addBonus(n) ==
    /\ LRoom(2)
    /\ updateCustomerLoyaltyLevel([acct EXCEPT !.total = @ + n], Append(ledger, Row(None, "BONUS", n)), None)
    /\ UNCHANGED <<past, lorder, lh, years, stops>>

-----------------------------------------------------------------------------
(* redeemPoints, when an order is accepted and again when it is completed. *)

Redeemed(o) == \E i \in DOMAIN ledger : ledger[i].order = o /\ ledger[i].type = "REDEEMED"

StartRedeem(w, o) ==
    /\ lh[w] = LIdle /\ Spends[o] > 0
    /\ lorder[o] \in {"ACCEPTED", "COMPLETED"}
    /\ IF Redeemed(o) \/ Spends[o] < Minimum \/ acct.total < Spends[o]
       THEN UNCHANGED lh
       ELSE lh' = [lh EXCEPT ![w] = [pc |-> "redeem", order |-> o]]
    /\ UNCHANGED <<acct, ledger, past, lorder, years, stops>>

(* BONUS rows go first, then EARNED ones, oldest first; rows past their    *)
(* date, expired or not by the cron, are left out.                         *)
Usable == {i \in DOMAIN ledger : Live(i) /\ i > past}
Before(i, j) ==
    IF ledger[i].type = ledger[j].type THEN i < j ELSE ledger[i].type = "BONUS"
Taken(n, i) ==
    LET ahead == SumLeft({j \in Usable : Before(j, i)})
    IN IF i \notin Usable \/ ahead >= n THEN 0 ELSE Lower(Left(i), n - ahead)
Spent(n) ==
    [i \in DOMAIN ledger |->
        IF Taken(n, i) = 0 THEN ledger[i]
        ELSE [ledger[i] EXCEPT !.used = @ + Taken(n, i), !.yes = Taken(n, i) = Left(i)]]

(* The whole transaction is undone when the rows do not suffice.           *)
redeemPoints(w) ==
    /\ lh[w].pc = "redeem"
    /\ lh' = [lh EXCEPT ![w] = LIdle]
    /\ LET o == lh[w].order IN
       IF SumLeft(Usable) < Spends[o]
       THEN UNCHANGED <<acct, ledger>>
       ELSE /\ LRoom(2)
            /\ updateCustomerLoyaltyLevel(
                 [acct EXCEPT !.total = @ - Spends[o]],
                 Append(Spent(Spends[o]),
                        [order |-> o, type |-> "REDEEMED", points |-> Spends[o], used |-> Spends[o], yes |-> TRUE]),
                 None)
    /\ UNCHANGED <<past, lorder, years, stops>>

-----------------------------------------------------------------------------
(* revokeEarnedPointsForOrder and expirePoints: a list of rows is read,    *)
(* with what is left of each, then each row is retired in a transaction.   *)

StartRetire(w, rows) ==
    /\ lh[w] = LIdle
    /\ lh' = [lh EXCEPT ![w] =
          [pc |-> "retire", todo |-> rows, left |-> [i \in rows |-> Left(i)]]]
    /\ UNCHANGED <<acct, ledger, past, lorder, years, stops>>

OfOrder(o) == {i \in DOMAIN ledger : Live(i) /\ ledger[i].order = o}

revokeEarnedPointsForOrder(w, o) ==
    /\ lorder[o] = "CANCELLED"
    /\ OfOrder(o) # {}
    /\ StartRetire(w, OfOrder(o))

expirePoints(w) ==
    LET due == {i \in DOMAIN ledger : Live(i) /\ i <= past}
    IN due # {} /\ StartRetire(w, due)

Retire(w) ==
    /\ lh[w].pc = "retire"
    /\ \E i \in lh[w].todo :
         /\ \A j \in lh[w].todo : i <= j
         /\ ledger' = [ledger EXCEPT ![i].type = "EXPIRED", ![i].yes = TRUE]
         /\ acct' = [acct EXCEPT !.total = @ - lh[w].left[i]]
         /\ lh' = [lh EXCEPT ![w].todo = @ \ {i}]
    /\ UNCHANGED <<past, lorder, years, stops>>

Retired(w) ==
    /\ lh[w].pc = "retire" /\ lh[w].todo = {}
    /\ lh' = [lh EXCEPT ![w] = LIdle]
    /\ UNCHANGED <<acct, ledger, past, lorder, years, stops>>

-----------------------------------------------------------------------------
(* The new year: claimed on the stored year, then the status is reset; a   *)
(* stop after the claim leaves the status as it was for that year.         *)
claimYear(w) ==
    /\ lh[w] = LIdle /\ years < MaxYears
    /\ years' = years + 1
    /\ lh' = [lh EXCEPT ![w] = [pc |-> "reset"]]
    /\ UNCHANGED <<acct, ledger, past, lorder, stops>>

runReset(w) ==
    /\ lh[w].pc = "reset"
    /\ acct' = [acct EXCEPT !.status = 0, !.level = computeLoyaltyLevel(0)]
    /\ lh' = [lh EXCEPT ![w] = LIdle]
    /\ UNCHANGED <<ledger, past, lorder, years, stops>>

LStop(w) ==
    /\ lh[w] # LIdle /\ stops < MaxStops
    /\ lh' = [lh EXCEPT ![w] = LIdle]
    /\ stops' = stops + 1
    /\ UNCHANGED <<acct, ledger, past, lorder, years>>

-----------------------------------------------------------------------------
(* What happens around: orders progress, rows grow old.                    *)
OrderMoves(o) ==
    /\ \E s \in {"ACCEPTED", "COMPLETED", "CANCELLED"} :
         /\ <<lorder[o], s>> \in {<<"PENDING", "ACCEPTED">>, <<"PENDING", "COMPLETED">>,
                                  <<"ACCEPTED", "COMPLETED">>, <<"PENDING", "CANCELLED">>,
                                  <<"ACCEPTED", "CANCELLED">>, <<"COMPLETED", "CANCELLED">>}
         /\ lorder' = [lorder EXCEPT ![o] = s]
    /\ UNCHANGED <<acct, ledger, past, lh, years, stops>>

GrowOld ==
    /\ past < Len(ledger)
    /\ past' = past + 1
    /\ UNCHANGED <<acct, ledger, lorder, lh, years, stops>>

LStatement(w) == addPoints(w) \/ redeemPoints(w) \/ Retire(w) \/ Retired(w) \/ runReset(w)

LNext ==
    \/ \E w \in Worker, o \in Order :
          StartGain(w, o) \/ StartRedeem(w, o) \/ revokeEarnedPointsForOrder(w, o)
    \/ \E w \in Worker : expirePoints(w) \/ claimYear(w) \/ LStatement(w) \/ LStop(w)
    \/ \E o \in Order : OrderMoves(o)
    \/ addBonus(1) \/ GrowOld

LSpec == LInit /\ [][LNext]_lvars

-----------------------------------------------------------------------------
(* Properties.                                                             *)

(* Types of the variables; used never exceeds points, and a row is closed  *)
(* exactly when nothing of it is left to spend or it was retired.          *)
LTypeOK ==
    /\ acct.total \in Nat /\ acct.status \in Nat
    /\ acct.level \in ToSet(Levels) \union {None}
    /\ past \in 0 .. Len(ledger)
    /\ \A i \in DOMAIN ledger :
         LET r == ledger[i] IN
         /\ r.order \in Order \union {None}
         /\ r.type \in {"EARNED", "BONUS", "EXPIRED", "REDEEMED"}
         /\ r.used <= r.points
         /\ r.yes <=> (r.used = r.points \/ r.type = "EXPIRED")

(* total_points is what the rows still hold: gains, spending, revocation   *)
(* and expiry keep the counter and the ledger together, wherever a handler *)
(* stops.                                                                  *)
BalanceIsLedger == acct.total = SumLeft({i \in DOMAIN ledger : Live(i)})

(* What the orders redeemed is what the rows say was used, row by row.     *)
SpentIsRecorded ==
    LET Rows(T) == {i \in DOMAIN ledger : ledger[i].type \in T}
    IN SumFunction([i \in Rows({"REDEEMED"}) |-> ledger[i].points])
         = SumFunction([i \in Rows({"EARNED", "BONUS", "EXPIRED"}) |-> ledger[i].used])

(* An order is charged once, though both its acceptance and its completion *)
(* charge it ("jamais dupliqué").                                          *)
RedeemedOnce ==
    \A i, j \in DOMAIN ledger :
        (ledger[i].type = "REDEEMED" /\ ledger[j].type = "REDEEMED" /\ ledger[i].order = ledger[j].order)
            => i = j

(* The level is the one the points of the year give, as soon as it is set. *)
LevelFollowsStatus == acct.level \in {None, computeLoyaltyLevel(acct.status)}

(* A customer loses a level at the reset of the year only: neither         *)
(* spending, nor a cancellation, nor expiry takes one back.                *)
LevelFallsAtReset ==
    [][Tier(acct'.level) < Tier(acct.level) => acct'.status = 0]_lvars
=============================================================================
