----------------------------- MODULE OrderBasket -----------------------------
(***************************************************************************)
(* What a basket costs and who may serve it, computed twice: the path of   *)
(* the back office (OrderHelper) and that of the application               *)
(* (OrderV2Helper), with the reductions of a promotion and of a code.  A   *)
(* pure computation: the variable is the basket under consideration.       *)
(***************************************************************************)
EXTENDS Integers, Sequences, FiniteSetsExt, Functions

CONSTANTS
    Dish,          \* dish -> [price, promotion, reduced, types, from, until, groups, composable, excluded, category, active]
    Supplement,    \* supplement -> [price, available, types]
    Shop,          \* restaurant -> [active, slots, distance, unsold]
    LineKinds,     \* lines: [dish, quantity, supplements, options, gift, offered]
    Promotions,    \* [type, value, target, concerned, min, max, offered, levels]
    Codes,         \* [type, value, target, concerned, min, max]
    Types, Hours, Levels,
    Given,         \* what a promotion has granted already
    MaxLines, NoPrice

VARIABLE basket    \* [lines, type, hour]

BasketInit == basket \in [lines : {<<>>}, type : Types, hour : Hours]
AnotherLine ==
    /\ Len(basket.lines) < MaxLines
    /\ \E l \in LineKinds : basket' = [basket EXCEPT !.lines = Append(@, l)]

-----------------------------------------------------------------------------
(* What may be ordered now, and where.                                     *)

\* A window that ends before it starts goes through midnight; one that does not last is no window.
isDishAvailableNow(d, hour) ==
    LET from == Dish[d].from
        until == Dish[d].until
    IN CASE from = until -> TRUE
         [] from < until -> hour \in from .. until
         [] from > until -> hour >= from \/ hour <= until

DishesOf(b) == {b.lines[i].dish : i \in DOMAIN b.lines}
getDishesWithDetails(b) == \A d \in DishesOf(b) : Dish[d].active /\ isDishAvailableNow(d, b.hour)

assertOrderTypeAllowed(types, type) == types = {} \/ type \in types

\* The slots of today only: one that goes through midnight is over at midnight.
isRestaurantOpen(r, hour) ==
    \E slot \in Shop[r].slots :
        IF slot[2] < slot[1] THEN hour >= slot[1] /\ hour <= slot[2] + 24 ELSE hour \in slot[1] .. slot[2]

assertDishesSoldInRestaurant(r, b) == DishesOf(b) \intersect Shop[r].unsold = {}

validateRestaurantChoice(r, b) ==
    Shop[r].active /\ isRestaurantOpen(r, b.hour) /\ assertDishesSoldInRestaurant(r, b)

Closest(R) == {r \in R : \A s \in R : Shop[r].distance <= Shop[s].distance}

\* The application looks among the open restaurants that sell everything, the back
\* office takes the nearest one and then asks.
findEligibleDeliveryRestaurant(b) ==
    Closest({r \in DOMAIN Shop : Shop[r].active /\ isRestaurantOpen(r, b.hour) /\ assertDishesSoldInRestaurant(r, b)})
getNearestRestaurant(b) ==
    {r \in Closest({s \in DOMAIN Shop : Shop[s].active}) : isRestaurantOpen(r, b.hour) /\ assertDishesSoldInRestaurant(r, b)}

-----------------------------------------------------------------------------
(* The price of a line.                                                    *)

Unit(d) == IF Dish[d].promotion /\ Dish[d].reduced # NoPrice THEN Dish[d].reduced ELSE Dish[d].price

\* Choices of a dish that is composed, each group within its bounds; an edit takes
\* the choices made before as they are.
resoudreSelection(d, chosen, edition) ==
    LET groups == Dish[d].groups
        known == UNION {DOMAIN g.items : g \in groups}
    IN [ok |-> IF groups = {} THEN chosen = {}
               ELSE \/ edition
                    \/ /\ chosen \subseteq known
                       /\ \A g \in groups : /\ Cardinality(chosen \intersect DOMAIN g.items) \in g.min .. g.max
                                            /\ chosen \intersect g.missing = {},
        total |-> FoldFunction(+, 0, [g \in groups |-> FoldFunctionOnSet(+, 0, g.items, chosen \intersect DOMAIN g.items)])]

OptionsOf(l, edition) ==
    IF Dish[l.dish].composable \/ l.options # {} THEN resoudreSelection(l.dish, l.options, edition)
    ELSE [ok |-> TRUE, total |-> 0]

\* Supplements, each at most once, with the quantity asked for.
Asked(l) == {l.supplements[i].id : i \in DOMAIN l.supplements}
SupplementsValid(l, type, edition) ==
    /\ Cardinality(Asked(l)) = Len(l.supplements)
    /\ \A s \in Asked(l) :
           /\ Supplement[s].available
           /\ edition \/ (s \notin Dish[l.dish].excluded /\ assertOrderTypeAllowed(Supplement[s].types, type))

\* A gift is the dish alone, once; an offered supplement is one for nothing.
Priced(l, unit, quantity, supplements, options) ==
    [dish |-> l.dish, quantity |-> quantity, price |-> unit + options, dishes |-> unit * quantity,
     extras |-> options * quantity + supplements, total |-> unit * quantity + options * quantity + supplements]

LineV1(l, edition) ==
    Priced(l, Unit(l.dish), l.quantity,
           FoldFunction(+, 0, [i \in DOMAIN l.supplements |-> Supplement[l.supplements[i].id].price * l.supplements[i].quantity]),
           OptionsOf(l, edition).total)

LineV2(l) ==
    Priced(l, IF l.gift THEN 0 ELSE Unit(l.dish), IF l.gift THEN 1 ELSE l.quantity,
           FoldFunction(+, 0, [i \in DOMAIN l.supplements |->
               IF l.gift \/ l.supplements[i].id \in l.offered THEN 0
               ELSE Supplement[l.supplements[i].id].price * l.supplements[i].quantity]),
           OptionsOf(l, FALSE).total)

Totals(ok, lines) ==
    [ok |-> ok, items |-> lines,
     netAmount |-> FoldFunction(+, 0, [i \in DOMAIN lines |-> lines[i].total]),
     totalDishes |-> FoldFunction(+, 0, [i \in DOMAIN lines |-> lines[i].dishes]),
     totalSupplements |-> FoldFunction(+, 0, [i \in DOMAIN lines |-> lines[i].extras]),
     totalDishesEtOptions |-> FoldFunction(+, 0, [i \in DOMAIN lines |-> lines[i].price * lines[i].quantity])]

calculateOrderDetails(b, edition) ==
    Totals(\A i \in DOMAIN b.lines :
               /\ edition \/ assertOrderTypeAllowed(Dish[b.lines[i].dish].types, b.type)
               /\ SupplementsValid(b.lines[i], b.type, edition) /\ OptionsOf(b.lines[i], edition).ok,
           [i \in DOMAIN b.lines |-> LineV1(b.lines[i], edition)])

calculateOrderDetailsV2(b) ==
    Totals(\A i \in DOMAIN b.lines :
               /\ assertOrderTypeAllowed(Dish[b.lines[i].dish].types, b.type)
               /\ b.lines[i].gift \/ SupplementsValid(b.lines[i], b.type, FALSE)
               /\ OptionsOf(b.lines[i], FALSE).ok,
           [i \in DOMAIN b.lines |-> LineV2(b.lines[i])])

\* An order of the back office and one of the application, delivered where it is decided for them.
createOrder(b) == getDishesWithDetails(b) /\ getNearestRestaurant(b) # {} /\ calculateOrderDetails(b, FALSE).ok
createOrderV2(b) == getDishesWithDetails(b) /\ findEligibleDeliveryRestaurant(b) # {} /\ calculateOrderDetailsV2(b).ok

-----------------------------------------------------------------------------
(* Reductions.                                                             *)

Concerned(p, d) ==
    CASE p.target = "ALL_PRODUCTS" -> TRUE
      [] p.target = "SPECIFIC_PRODUCTS" -> d \in p.concerned
      [] p.target = "CATEGORIES" -> Dish[d].category \in p.concerned

isDishInPromotion(p, d, level) == Concerned(p, d) /\ (p.levels = {} \/ level \in p.levels)

Worth(items, S) == FoldFunctionOnSet(+, 0, [i \in DOMAIN items |-> items[i].price * items[i].quantity], S)

\* The excess over a ceiling is taken from the reduction first, then from the dishes offered.
Lowered(r, ceiling) ==
    LET excess == r.discount + r.offered - ceiling IN
    IF excess <= 0 THEN r
    ELSE IF r.discount >= excess THEN [r EXCEPT !.discount = @ - excess]
    ELSE [discount |-> 0, offered |-> r.offered - (excess - r.discount)]

NoDiscount == [applicable |-> FALSE, discount |-> 0, offered |-> 0]

calculateDiscount(p, amount, items, level) ==
    LET chosen == {i \in DOMAIN items : isDishInPromotion(p, items[i].dish, level)}
        quantity == FoldFunctionOnSet(+, 0, [i \in DOMAIN items |-> items[i].quantity], chosen)
        raw == CASE p.type = "PERCENTAGE" -> [discount |-> (Worth(items, chosen) * p.value) \div 100, offered |-> 0]
                 [] p.type = "FIXED_AMOUNT" -> [discount |-> p.value, offered |-> 0]
                 [] p.type = "BUY_X_GET_Y" ->
                        [discount |-> 0, offered |-> FoldFunction(+, 0, [d \in DOMAIN p.offered |-> p.offered[d] * Unit(d)])]
        refused == \/ chosen = {} \/ (p.type = "BUY_X_GET_Y" /\ quantity < p.value)
                   \/ amount < p.min \/ (p.max > 0 /\ Given >= p.max)
        granted == Lowered(IF p.max > 0 THEN Lowered(raw, p.max) ELSE raw, amount)
    IN IF refused THEN NoDiscount ELSE [applicable |-> TRUE, discount |-> granted.discount, offered |-> granted.offered]

applyPromoCode(c, amount, items) ==
    LET chosen == {i \in DOMAIN items : Concerned(c, items[i].dish)}
        eligible == IF c.target = "ALL_PRODUCTS" THEN amount ELSE Worth(items, chosen)
        percent == (c.value * eligible + 50) \div 100
        discount == IF c.type # "PERCENTAGE" THEN IF c.value < eligible THEN c.value ELSE eligible
                    ELSE IF c.max > 0 /\ percent > c.max THEN c.max ELSE percent
    IN IF amount < c.min \/ (c.target # "ALL_PRODUCTS" /\ chosen = {}) THEN NoDiscount
       ELSE [applicable |-> TRUE, discount |-> discount, offered |-> 0]

-----------------------------------------------------------------------------
Ordinary(b) == \A i \in DOMAIN b.lines : ~b.lines[i].gift /\ b.lines[i].offered = {}

(* Without gifts, both paths accept the same baskets at the same price; an *)
(* order that could be placed may be edited, and costs the same; what the  *)
(* nearest restaurant serves, the application sends to it.                 *)
PathsAgree ==
    LET b == basket
        desk == calculateOrderDetails(b, FALSE)
    IN /\ Ordinary(b) => desk = calculateOrderDetailsV2(b)
       /\ desk.ok => calculateOrderDetails(b, TRUE) = desk
       /\ Ordinary(b) /\ createOrder(b) => createOrderV2(b) /\ getNearestRestaurant(b) = findEligibleDeliveryRestaurant(b)
       /\ \A r \in DOMAIN Shop : validateRestaurantChoice(r, b) => findEligibleDeliveryRestaurant(b) # {}

(* The amount is that of the dishes and of what is added to them, and the  *)
(* base of the reductions is the dishes with their options; a gift never   *)
(* makes a basket dearer, and leaves only the options to pay.              *)
PartsAddUp ==
    LET b == basket
        app == calculateOrderDetailsV2(b)
        unwrapped == [b EXCEPT !.lines = [i \in DOMAIN b.lines |-> [b.lines[i] EXCEPT !.gift = FALSE, !.offered = {}]]]
    IN app.ok => /\ app.netAmount = app.totalDishes + app.totalSupplements
                /\ app.totalDishes <= app.totalDishesEtOptions /\ app.totalDishesEtOptions <= app.netAmount
                /\ app.totalDishesEtOptions = Worth(app.items, DOMAIN app.items)
                /\ app.netAmount <= calculateOrderDetailsV2(unwrapped).netAmount
                /\ \A i \in DOMAIN b.lines : b.lines[i].gift => app.items[i].total = OptionsOf(b.lines[i], FALSE).total

(* A reduction is within the order, within its ceiling and, in percent,    *)
(* within the dishes it is about; a code that aims at dishes takes off     *)
(* what a promotion with the same terms does.                              *)
PromotionWithin(p, level, app) ==
    LET r == calculateDiscount(p, app.totalDishesEtOptions, app.items, level)
        about == {i \in DOMAIN app.items : isDishInPromotion(p, app.items[i].dish, level)}
    IN /\ r.discount >= 0 /\ r.offered >= 0 /\ r.discount + r.offered <= app.totalDishesEtOptions
       /\ p.max > 0 => r.discount + r.offered <= p.max
       /\ p.type = "PERCENTAGE" => 100 * r.discount <= p.value * Worth(app.items, about)

CodeWithin(c, app) ==
    LET r == applyPromoCode(c, app.netAmount, app.items) IN
    r.discount >= 0 /\ r.discount <= app.netAmount /\ (c.max > 0 => r.discount <= c.max)

SameTerms(p, c, app) ==
    /\ p.type = c.type /\ p.value = c.value /\ p.target = c.target /\ p.concerned = c.concerned
    /\ p.target # "ALL_PRODUCTS" /\ p.levels = {} /\ app.totalDishesEtOptions >= p.min /\ app.netAmount >= c.min
    /\ Given = 0 /\ p.type = "PERCENTAGE"
SameReduction(p, c, r, s) == r.applicable = s.applicable /\ (p.max = c.max => r.discount = s.discount)

ReductionsWithin ==
    \A app \in {calculateOrderDetailsV2(basket)} : app.ok =>
        /\ \A p \in Promotions, level \in Levels : PromotionWithin(p, level, app)
        /\ \A c \in Codes : CodeWithin(c, app)
        /\ \A p \in Promotions, c \in Codes : SameTerms(p, c, app) =>
               SameReduction(p, c, calculateDiscount(p, app.totalDishesEtOptions, app.items, "STANDARD"),
                             applyPromoCode(c, app.netAmount, app.items))

=============================================================================
