----------------------------- MODULE DeliveryFees -----------------------------
(***************************************************************************)
(* The fee of a delivery: the price of the distance in the grid, or of the *)
(* nearest zone of Turbo, then the best delivery offer that applies.  A    *)
(* pure computation: the variable is the request under consideration.      *)
(***************************************************************************)
EXTENDS Integers, SequencesExt

CONSTANTS
    Grids, ZoneSets,   \* sequences of tiers and of zones the settings may hold
    Catalogue,         \* offers the back office may try to enter
    Distances, Amounts, Hours, Days,
    Forced,            \* fees the staff may force
    NoPrice            \* no tier says anything

VARIABLE request

-----------------------------------------------------------------------------
(* Tiers: [max, price], from the nearest to the farthest.                  *)

Nearest(t, u) == t.max <= u.max
sortGrid(tiers) == SortSeq(tiers, Nearest)

Tier(tiers, km) == SelectSeq(sortGrid(tiers), LAMBDA t : km <= t.max)

\* The grid charges its last price beyond its last tier; an offer says nothing there.
priceForDistance(grid, km) ==
    IF Tier(grid, km) # <<>> THEN Head(Tier(grid, km)).price ELSE Last(sortGrid(grid)).price

prixImpose(tiers, value, km) ==
    IF tiers = <<>> THEN IF value > 0 THEN value ELSE NoPrice
    ELSE IF Tier(tiers, km) # <<>> THEN Head(Tier(tiers, km)).price ELSE NoPrice

\* What the back office accepts.
validerPrixImpose(o) ==
    o.type = "FIXED_PRICE" =>
        IF o.tiers = <<>> THEN o.value > 0
        ELSE \A i, j \in DOMAIN o.tiers : i # j =>
                 /\ o.tiers[i].max # o.tiers[j].max
                 /\ o.tiers[i].max < o.tiers[j].max => o.tiers[i].price <= o.tiers[j].price

-----------------------------------------------------------------------------
(* Offers, in the order of their priority.                                 *)

\* A window that ends before it starts goes through midnight.
InWindow(o, h) ==
    IF o.from <= o.to THEN h \in o.from .. o.to ELSE h >= o.from \/ h <= o.to

Concerned(o, r) ==
    /\ r.amount >= o.min
    /\ o.days = {} \/ r.day \in o.days
    /\ InWindow(o, r.hour)
    /\ o.left > 0

newFee(o, base, km) ==
    CASE o.type = "FREE_DELIVERY" -> 0
      [] o.type = "PERCENTAGE" -> (base * (100 - o.value) * 2 + 100) \div 200
      [] o.type = "FIXED_AMOUNT" -> IF o.value < base THEN base - o.value ELSE 0
      [] o.type = "FIXED_PRICE" -> LET p == prixImpose(o.tiers, o.value, km) IN
                                   IF p = NoPrice \/ p > base THEN base ELSE p

\* A reduction lowers the fee; an imposed price is only required to change it.
Matters(o, fee, base) == IF o.type = "FIXED_PRICE" THEN fee # base ELSE fee < base

\* The cheapest fee; on a tie the first, whose priority is the highest.
findApplicableOffer(r, base, offers) ==
    LET better(best, o) ==
            LET fee == newFee(o, base, r.km) IN
            IF Concerned(o, r) /\ Matters(o, fee, base) /\ (best.offer = 0 \/ fee < best.fee)
            THEN [fee |-> fee, offer |-> o.id] ELSE best
    IN FoldLeft(better, [fee |-> base, offer |-> 0], offers)

-----------------------------------------------------------------------------
(* The fee of a request, and the account an order keeps of it.             *)

NearestZone(zones) ==
    FoldLeft(LAMBDA best, z : IF z.far < best.far THEN z ELSE best, Head(zones), zones)

Base(r) == IF r.zones = <<>> THEN priceForDistance(r.grid, r.km) ELSE NearestZone(r.zones).prix

calculeFraisLivraison(r) ==
    LET best == findApplicableOffer(r, Base(r), r.offers) IN
    [montant |-> best.fee, original |-> Base(r), discount |-> Base(r) - best.fee, offer |-> best.offer]

\* The staff may force the fee: the fee computed stays the base of the account.
Account(r, forced) ==
    LET fee == IF forced = NoPrice THEN calculeFraisLivraison(r).montant ELSE forced
    IN [fee |-> fee, base |-> Base(r), discount |-> IF fee < Base(r) THEN Base(r) - fee ELSE 0]

-----------------------------------------------------------------------------
Entered == {o \in Catalogue : validerPrixImpose(o)}
OfferLists == {<<>>} \union {<<o>> : o \in Entered} \union {<<o, p>> : o, p \in Entered}

Requests ==
    [km : Distances, amount : Amounts, hour : Hours, day : Days,
     grid : Grids, zones : ZoneSets, offers : OfferLists]

FeeInit == request \in Requests
AnotherRequest ==      \* the same delivery at another time
    \E hour \in Hours, day \in Days : request' = [request EXCEPT !.hour = hour, !.day = day]

-----------------------------------------------------------------------------
(* The offer applied is the best one: no offer that concerns the request   *)
(* makes a lower fee, and none before it makes as low a fee.               *)
BestOfferApplies ==
    LET fees == calculeFraisLivraison(request)
        open == {i \in DOMAIN request.offers : Concerned(request.offers[i], request)}
        fee(i) == newFee(request.offers[i], fees.original, request.km)
    IN /\ \A i \in open : fees.montant <= fee(i)
       /\ fees.offer = 0 <=> \A i \in open : fee(i) = fees.original
       /\ fees.offer # 0 => \E i \in open :
              /\ request.offers[i].id = fees.offer /\ fee(i) = fees.montant
              /\ \A j \in open : j < i => fee(j) > fee(i)

(* With the grid, a customer who lives closer never pays more, whatever    *)
(* the offers the back office accepted.                                    *)
CloserIsNotDearer ==
    request.zones = <<>> =>
        \A km \in Distances : km <= request.km =>
            calculeFraisLivraison([request EXCEPT !.km = km]).montant <= calculeFraisLivraison(request).montant

(* An offer never makes a delivery dearer, and what the account of an      *)
(* order says was given away is the difference with the full fee.  Known   *)
(* exception: the staff forces a fee above the full one.                   *)
FeeIsAccounted ==
    LET fees == calculeFraisLivraison(request) IN
    /\ fees.montant \in 0 .. fees.original
    /\ \A f \in Forced \union {NoPrice} :
           f <= Base(request) =>
               LET a == Account(request, f) IN a.base = a.fee + a.discount
=============================================================================
