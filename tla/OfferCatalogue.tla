---------------------------- MODULE OfferCatalogue ----------------------------
(***************************************************************************)
(* The back office of the reductions: a promotion or a promo code is       *)
(* created, changed, withdrawn, expires, is shown to the customers, used,  *)
(* and counted on the screens of its usages.  What a reduction is worth on *)
(* a basket, its ceilings and the races of its uses are in OrderBasket,    *)
(* StaffPromotions and Coupons.                                            *)
(***************************************************************************)
EXTENDS Integers, SequencesExt, FiniteSetsExt, TLC

CONSTANTS
    Buyers,          \* customer -> level, or NoLevel
    Plates,          \* dish -> category
    Places,          \* restaurants
    Drafts,          \* what the back office fills in a form
    Changes,         \* records of some of the fields
    LastDay, MaxChanges, MaxUses,
    NoLevel, NoOffer

VARIABLES
    offer,           \* the promotion or the code, or NoOffer
    uses,            \* its usages: customer, day, ACTIVE or not
    today,
    changed          \* changes made since the creation

ov == <<offer, uses, today, changed>>

OfferInit == offer = NoOffer /\ uses = <<>> /\ today = 1 /\ changed = 0

-----------------------------------------------------------------------------
(* The forms.                                                              *)

WellAimed(d) ==
    /\ d.target = "SPECIFIC_PRODUCTS" => d.dishes # {}
    /\ d.target = "CATEGORIES" => d.categories # {}

PromotionAccepted(d) ==
    /\ d.from < d.to /\ WellAimed(d)
    /\ d.private => d.levels # {}
    /\ d.type = "BUY_X_GET_Y" => d.gifts # {}
    /\ d.type = "PERCENTAGE" => d.value <= 80
    /\ d.type = "FIXED_AMOUNT" => d.min > 0

CodeAccepted(d) ==
    /\ d.from < d.to /\ today < d.to /\ WellAimed(d)
    /\ d.type = "PERCENTAGE" => d.value <= 100

Kept(list, wanted) == IF wanted THEN list ELSE {}

createPromotion(d) ==
    /\ PromotionAccepted(d)
    /\ offer' = [d EXCEPT !.stores = IF @ = {} THEN Places ELSE @,
                          !.gifts = Kept(@, d.type = "BUY_X_GET_Y")]

createCode(d) ==
    /\ CodeAccepted(d)
    /\ offer' = [d EXCEPT !.dishes = Kept(@, d.target = "SPECIFIC_PRODUCTS"),
                          !.categories = Kept(@, d.target = "CATEGORIES")]

create ==
    /\ offer = NoOffer
    /\ \E d \in Drafts : IF d.kind = "promotion" THEN createPromotion(d) ELSE createCode(d)
    /\ UNCHANGED <<uses, today, changed>>

Given(e, field) == field \in DOMAIN e

\* A promotion is not verified again; a list is replaced with the target that uses it.
updatePromotion(e) ==
    LET replaced(list, field, value) == Given(e, list) /\ Given(e, field) /\ e[field] = value
        row == e @@ offer
    IN offer' = [row EXCEPT
           !.dishes = IF replaced("dishes", "target", "SPECIFIC_PRODUCTS") THEN @ ELSE offer.dishes,
           !.categories = IF replaced("categories", "target", "CATEGORIES") THEN @ ELSE offer.categories,
           !.gifts = IF replaced("gifts", "type", "BUY_X_GET_Y") THEN @ ELSE offer.gifts]

\* The lists go away with the target they were made for.
updateCode(e) ==
    LET row == e @@ offer
        list(field, target) ==
            IF Given(e, "target") \/ Given(e, field)
            THEN Kept(row[field], row.target = target /\ Given(e, field)) ELSE offer[field]
    IN /\ row.type = "PERCENTAGE" => row.value <= 100
       /\ row.target = "SPECIFIC_PRODUCTS" /\ Given(e, "dishes") => e.dishes # {}
       /\ row.target = "CATEGORIES" /\ Given(e, "categories") => e.categories # {}
       /\ offer' = [row EXCEPT !.dishes = list("dishes", "SPECIFIC_PRODUCTS"),
                               !.categories = list("categories", "CATEGORIES")]

update ==
    /\ offer # NoOffer /\ changed < MaxChanges /\ changed' = changed + 1
    /\ \E e \in Changes : IF offer.kind = "promotion" THEN updatePromotion(e) ELSE updateCode(e)
    /\ UNCHANGED <<uses, today>>

\* A promotion ends; a code is hidden, and stays as active as it was.
removePromotion == offer.kind = "promotion" /\ offer' = [offer EXCEPT !.status = "EXPIRED"]
removeCode == offer.kind = "code" /\ offer' = [offer EXCEPT !.deleted = TRUE]
remove ==
    /\ offer # NoOffer
    /\ removePromotion \/ removeCode
    /\ UNCHANGED <<uses, today, changed>>

toggleActive ==
    /\ offer # NoOffer /\ offer.kind = "code" /\ changed < MaxChanges /\ changed' = changed + 1
    /\ offer' = [offer EXCEPT !.status = IF @ = "ACTIVE" THEN "EXPIRED" ELSE "ACTIVE"]
    /\ UNCHANGED <<uses, today>>

-----------------------------------------------------------------------------
(* Time: what starts is opened and what is over is closed, by the crons.   *)

NextDay ==
    /\ offer # NoOffer /\ today < LastDay /\ today' = today + 1
    /\ UNCHANGED <<offer, uses, changed>>

Over == offer.to < today
updatePromotionStatus ==
    /\ offer # NoOffer /\ offer.kind = "promotion"
    /\ \/ offer.status = "ACTIVE" /\ Over /\ offer' = [offer EXCEPT !.status = "EXPIRED"]
       \/ offer.status = "DRAFT" /\ today \in offer.from .. offer.to /\ offer' = [offer EXCEPT !.status = "ACTIVE"]
    /\ UNCHANGED <<uses, today, changed>>

deactivateExpiredPromoCodes ==
    /\ offer # NoOffer /\ offer.kind = "code"
    /\ offer.status = "ACTIVE" /\ Over /\ ~offer.deleted /\ offer' = [offer EXCEPT !.status = "EXPIRED"]
    /\ UNCHANGED <<uses, today, changed>>

-----------------------------------------------------------------------------
(* Who may use it, and on what.                                            *)

UsesOf(c) == {i \in DOMAIN uses : uses[i].customer = c}
Counted == {i \in DOMAIN uses : uses[i].active}

Running == offer.status = "ACTIVE" /\ ~offer.deleted /\ today \in offer.from .. offer.to
Below(limit, n) == limit = 0 \/ n < limit
ForLevel(c) == ~offer.private \/ Buyers[c] \in offer.levels
Aims(dish) ==
    CASE offer.target = "SPECIFIC_PRODUCTS" -> dish \in offer.dishes
      [] offer.target = "CATEGORIES" -> Plates[dish] \in offer.categories
      [] OTHER -> TRUE

\* Baskets are sets of dishes of one unit each: amount and quantity are their size.
isDishInPromotion(dish, c) == Running /\ Aims(dish) /\ ForLevel(c)
WithinUses(c) == Below(offer.perUser, Cardinality(UsesOf(c))) /\ Below(offer.total, Len(uses))
canCustomerUsePromotion(c) == WithinUses(c) /\ ForLevel(c)

calculateDiscount(c, basket) ==
    LET concerned == {d \in basket : isDishInPromotion(d, c)} IN
    /\ canCustomerUsePromotion(c) /\ concerned # {}
    /\ offer.type = "BUY_X_GET_Y" => Cardinality(concerned) >= offer.value
    /\ Cardinality(basket) >= offer.min

\* The restaurants of a code are not looked at.
applyPromoCode(c, basket) ==
    /\ Running
    /\ Below(offer.total, Cardinality(Counted))
    /\ Below(offer.perUser, Cardinality(UsesOf(c) \intersect Counted))
    /\ Cardinality(basket) >= offer.min
    /\ \E d \in basket : Aims(d)

Applies(c, basket) ==
    IF offer.kind = "promotion" THEN calculateDiscount(c, basket) ELSE applyPromoCode(c, basket)

\* The use of a code counts when its order is accepted, no more when it is cancelled.
Use(c, basket) ==
    /\ offer # NoOffer /\ Len(uses) < MaxUses /\ Applies(c, basket)
    /\ uses' = Append(uses, [customer |-> c, day |-> today, active |-> offer.kind = "promotion"])
    /\ UNCHANGED <<offer, today, changed>>

Settle(i) ==
    /\ offer.kind = "code"
    /\ uses' = [uses EXCEPT ![i].active = ~@]
    /\ UNCHANGED <<offer, today, changed>>

-----------------------------------------------------------------------------
(* What is shown.                                                          *)

findAll(status) == offer.kind = "promotion" /\ status \in {"ANY", offer.status}
findAllCodes(status) == offer.kind = "code" /\ status \in {"ANY", offer.status} /\ ~offer.deleted
findActivePromotions == findAll("ACTIVE")

findAllForCustomer(c, place) ==
    /\ offer.kind = "promotion" /\ Running /\ ForLevel(c)
    /\ place \in offer.stores

\* Here a usage counts for its customer before its order is accepted, and after its cancellation.
getActiveForCustomer(c) ==
    /\ offer.kind = "code" /\ Running
    /\ Below(offer.total, Cardinality(Counted))
    /\ Below(offer.perUser, Cardinality(UsesOf(c)))

getStats ==
    [active |-> offer.kind = "code" /\ Running, expired |-> ~offer.deleted /\ Over,
     totalUsage |-> Cardinality(Counted)]
findOne == [row |-> offer, usages |-> Counted]
getCustomerPromotionHistory(c) == UsesOf(c)
getUsages(page, limit) ==
    [data |-> {i \in Counted : Cardinality({j \in Counted : j > i}) \div limit = page - 1},
     totalPages |-> (Cardinality(Counted) + limit - 1) \div limit]

getAnalytics ==
    LET by(field) == [x \in {uses[i][field] : i \in Counted} |-> Cardinality({i \in Counted : uses[i][field] = x})]
        clients == by("customer")
    IN [total |-> Cardinality(Counted), unique |-> Cardinality(DOMAIN clients),
        repeat |-> Cardinality({c \in DOMAIN clients : clients[c] > 1}),
        by_day |-> by("day"), top_customers |-> clients]

-----------------------------------------------------------------------------
OfferNext ==
    \/ create \/ update \/ remove \/ toggleActive
    \/ NextDay \/ updatePromotionStatus \/ deactivateExpiredPromoCodes
    \/ \E c \in DOMAIN Buyers, basket \in SUBSET DOMAIN Plates : Use(c, basket)
    \/ \E i \in DOMAIN uses : Settle(i)

-----------------------------------------------------------------------------
(* Properties.                                                             *)

Everything == DOMAIN Plates

(* The rules of the forms hold of what was created; after changes, that a  *)
(* percentage of a code is one, and the promotion keeps what it aims at,   *)
(* only when the change goes through a verification.                       *)
OfferIsCoherent == offer # NoOffer =>
    /\ changed = 0 => offer.from < offer.to /\ \E d \in Everything : Aims(d)
    /\ offer.kind = "code" /\ offer.type = "PERCENTAGE" => offer.value <= 100
    /\ offer.kind = "code" => /\ offer.dishes # {} => offer.target = "SPECIFIC_PRODUCTS"
                              /\ offer.categories # {} => offer.target = "CATEGORIES"

(* A customer who buys everything uses what is listed, is listed what      *)
(* applies, and has a code again once no order counts it.  Exceptions: a   *)
(* promotion stays listed once used up, a change may empty the aim or the  *)
(* restaurants, and a code is no longer listed to who has it on an order   *)
(* that is not accepted.                                                   *)
ListedIsUsable == offer # NoOffer =>
    \A c \in DOMAIN Buyers :
        LET listed == getActiveForCustomer(c) \/ \E p \in Places : findAllForCustomer(c, p)
            usable == Applies(c, Everything)
            spent == offer.kind = "promotion" /\ ~WithinUses(c)
            waiting == UsesOf(c) \ Counted # {}
            aimed == Cardinality({d \in Everything : Aims(d)})
        IN /\ listed /\ ~usable => \/ spent \/ aimed = 0 \/ Cardinality(Everything) < offer.min
                                   \/ offer.type = "BUY_X_GET_Y" /\ aimed < offer.value
           /\ Counted = {} /\ Running /\ offer.kind = "code" /\ ~usable =>
                 aimed = 0 \/ Cardinality(Everything) < offer.min
           /\ usable /\ ~listed => \/ offer.kind = "code" /\ waiting
                                   \/ offer.kind = "promotion" /\ offer.stores = {}

(* The screens of the usages tell the same uses, never more than allowed.  *)
UsagesAgree == offer # NoOffer =>
    /\ getAnalytics.total = getStats.totalUsage /\ getAnalytics.total = Cardinality(findOne.usages)
    /\ \A limit \in 1 .. 2 :
          UNION {getUsages(p, limit).data : p \in 1 .. getUsages(1, limit).totalPages} = Counted
    /\ MapThenSumSet(LAMBDA d : getAnalytics.by_day[d], DOMAIN getAnalytics.by_day) = getAnalytics.total
    /\ getAnalytics.unique + getAnalytics.repeat <= getAnalytics.total
    /\ getStats.active => findAllCodes("ACTIVE") /\ ~findActivePromotions
=============================================================================
