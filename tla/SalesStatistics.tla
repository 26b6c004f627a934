---------------------------- MODULE SalesStatistics ----------------------------
(***************************************************************************)
(* The figures of the customers: overview, acquisition, retention, best    *)
(* and inactive customers, zones, levels, payment methods, concentration;  *)
(* and of the dishes: best sellers, categories, restaurants, zones, curve, *)
(* channels, promotions, comparison of two periods.                        *)
(***************************************************************************)
EXTENDS OrderStatistics

CONSTANTS
    Level,          \* customer -> loyalty level
    Cities,         \* customer -> cities of the registered addresses
    LostAfter,      \* days without an order
    Dish            \* dish -> [price, promotion, reduced, category, active]

-----------------------------------------------------------------------------
(* Customers. *)

Customers(S) == {o.customer : o \in S}
Of(S, c) == {o \in S : o.customer = c}
App(S) == {o \in S : o.auto}

\* The paid orders of the restaurant, of any date.
EverPaid(S, q) == {o \in AtRestaurant(S, q) : Paid(o)}

getClientsOverview(S, q) ==
    LET orders == Served(S, q)
        clients == Customers(orders)
        recurring == clients \intersect Known(S, q.span)
        ever == {o \in S : Paid(o) /\ o.customer \in clients}
    IN [totalClients |-> Cardinality(clients), newClients |-> Cardinality(clients \ recurring),
        recurringClients |-> Cardinality(recurring),
        newClientsRate |-> Rate(Cardinality(clients \ recurring), Cardinality(clients)),
        averageLtv |-> IF clients = {} THEN 0 ELSE Round(Net(ever), Cardinality(clients)),
        averageBasket |-> IF orders = {} THEN 0 ELSE Round(Net(orders), Cardinality(orders)),
        appClients |-> Cardinality(Customers(App(orders))),
        callCenterClients |-> Cardinality(Customers(orders \ App(orders)))]

\* Each customer counts once a day, in the channel of the first order of the day.
getClientsAcquisition(S, q) ==
    LET orders == Served(S, q)
        clients == Customers(orders)
        known == Known(S, q.span)
        first(d) == {o \in orders : o.day = d /\ \A x \in orders : x.customer = o.customer /\ x.day = d => o.id <= x.id}
        of(x) == [new |-> Cardinality({o \in x : o.customer \notin known}),
                  recurring |-> Cardinality({o \in x : o.customer \in known})]
    IN [dailyTrend |-> [d \in q.span.from .. q.span.to |-> [app |-> of(App(first(d))), callCenter |-> of(first(d) \ App(first(d)))]],
        totalNew |-> Cardinality(clients \ known), totalRecurring |-> Cardinality(clients \intersect known),
        retentionRate |-> Rate(Cardinality(clients \intersect known), Cardinality(clients))]

\* Half days since the last order.
Silent(S, c) == Min({2 * (Today - o.day) + (Half - o.half) : o \in Of(S, c)})

\* In whole days: the half of a day that is not over does not count.
getClientsRetention(S, q) ==
    LET orders == EverPaid(S, q)
        clients == Customers(orders)
        past(days) == {c \in clients : Silent(orders, c) \div 2 > days}
    IN [total |-> Cardinality(clients), active |-> Cardinality(clients \ past(LostAfter)),
        atRisk |-> Cardinality(past(LostAfter) \ past(2 * LostAfter)),
        churn30 |-> Cardinality(past(LostAfter)), churn60 |-> Cardinality(past(2 * LostAfter)),
        retentionRate |-> Rate(Cardinality(clients \ past(LostAfter)), Cardinality(clients))]

\* By channel of all the orders ever served, anywhere.
preferredChannel(S, c) ==
    LET paid == {o \in Of(S, c) : Paid(o)}
        app == Cardinality(App(paid))
        call == Cardinality(paid \ App(paid))
    IN IF app > call THEN "APP" ELSE IF call > app THEN "CALL_CENTER" ELSE "MIXED"

\* Some choice of the best ones: equal customers come in any order.
IsTop(top, worth, limit) ==
    LET all == DOMAIN worth IN
    /\ Cardinality(top) = IF Cardinality(all) < limit THEN Cardinality(all) ELSE limit
    /\ \A c \in top, d \in all \ top : worth[c] >= worth[d]

getTopClients(S, q, limit) ==
    LET orders == Served(S, q)
        spent == Revenues(By("customer", orders))
        top == CHOOSE t \in SUBSET DOMAIN spent : IsTop(t, spent, limit)
    IN [c \in top |-> [orders |-> Cardinality(Of(orders, c)), spent |-> spent[c], channel |-> preferredChannel(S, c)]]

\* To the half day.
getInactiveClients(S, q, inactiveDays) ==
    LET orders == EverPaid(S, q) IN
    [c \in {x \in Customers(orders) : Silent(orders, x) > 2 * inactiveDays} |->
        [days |-> Silent(orders, c) \div 2, orders |-> Cardinality(Of(orders, c)), spent |-> Net(Of(orders, c)),
         channel |-> preferredChannel(S, c)]]

\* The export of the marketing keeps another number of them.
getChurnExport(S, q, inactiveDays) == getInactiveClients(S, q, inactiveDays)

getClientsByZone(S, q) ==
    LET orders == Served(S, q)
        clients == Customers(orders)
        ordered(z) == {o \in orders : o.type = "DELIVERY" /\ o.city = z}
    IN [z \in UNION {Cities[c] : c \in clients} |->
           [clients |-> Cardinality({c \in clients : z \in Cities[c]}), orders |-> Cardinality(ordered(z))]]

getClientAnalyticsProfile(S, c) ==
    LET orders == {o \in Of(S, c) : Paid(o)} IN
    [totalOrders |-> Cardinality(orders), ltv |-> Net(orders), channel |-> preferredChannel(S, c),
     averageBasket |-> IF orders = {} THEN 0 ELSE Round(Net(orders), Cardinality(orders))]

getLoyaltyDistribution(S, q) ==
    LET orders == Served(S, q)
        at(l) == {c \in Customers(orders) : Level[c] = l}
    IN [l \in {Level[c] : c \in Customers(orders)} |->
           [clients |-> Cardinality(at(l)), revenue |-> Net({o \in orders : o.customer \in at(l)}),
            percentage |-> Rate(Cardinality(at(l)), Cardinality(Customers(orders)))]]

getPaymentMethodDistribution(S, q) ==
    LET groups == By("method", Served(S, q))
    IN [m \in DOMAIN groups |->
           [clients |-> Cardinality(Customers(groups[m])), orders |-> Cardinality(groups[m]), revenue |-> Net(groups[m])]]

\* From the aggregate by customer, restaurant and day, or from the orders when it is not there.
mv_customer_revenue_daily(S) ==
    Revenues(GroupsOf([o \in {o \in S : Paid(o)} |-> <<o.customer, o.restaurant, o.day>>]))
RevenueByClient(S, q) ==
    LET view == mv_customer_revenue_daily(S)
        rows(c) == {k \in DOMAIN view : k[1] = c /\ q.restaurant \in {Any, k[2]} /\ q.span.from <= k[3] /\ k[3] <= q.span.to}
    IN [c \in {c \in {k[1] : k \in DOMAIN view} : rows(c) # {}} |-> Total([k \in rows(c) |-> view[k]])]

\* Share of the revenue made with the best customers, one at least.
getRevenueConcentration(S, q) ==
    LET revenue == RevenueByClient(S, q)
        total == Cardinality(DOMAIN revenue)
        count(percent) == Max({1, (total * percent + 99) \div 100})
        top(percent) == CHOOSE t \in SUBSET DOMAIN revenue : IsTop(t, revenue, count(percent))
        share(percent) == Rate(Total([c \in top(percent) |-> revenue[c]]), Total(revenue))
    IN [share |-> [percent \in {10, 20, 50} |-> share(percent)], totalRevenue |-> Total(revenue), totalClients |-> total]

getBasketComparison(S, q) ==
    LET orders == Served(S, q)
        recurring == {o \in orders : o.customer \in Known(S, q.span)}
    IN [new |-> Figures(orders \ recurring), recurring |-> Figures(recurring)]

-----------------------------------------------------------------------------
(* Dishes. *)

\* The revenue of a dish is at the price of the catalogue on the day of the query.
UnitPrice(d) == IF Dish[d].promotion /\ Dish[d].reduced # NoTime THEN Dish[d].reduced ELSE Dish[d].price

\* An order has a quantity for each of its dishes.
Quantity(S, dishes) ==
    Total([o \in S |-> Total([d \in DOMAIN o.lines \intersect dishes |-> o.lines[d]])])
Revenue(S, dishes) == Total([d \in dishes |-> UnitPrice(d) * Quantity(S, {d})])
Sold(S) == UNION {DOMAIN o.lines : o \in S}
Lot(S, dishes) == [sold |-> Quantity(S, dishes), revenue |-> Revenue(S, dishes)]
Source(o) == IF o.hubrise THEN "hubrise" ELSE IF o.auto THEN "app" ELSE "callCenter"

Best(S, dishes, limit) ==
    CHOOSE t \in SUBSET dishes :
        /\ Cardinality(t) = IF Cardinality(dishes) < limit THEN Cardinality(dishes) ELSE limit
        /\ \A d \in t, e \in dishes \ t : Quantity(S, {d}) >= Quantity(S, {e})

OfCategory(S, q) == {d \in Sold(S) : q.category \in {Any, Dish[d].category}}

\* A dish out of the catalogue counts in the total and is not shown.
getTopProducts(S, q, limit) ==
    LET orders == Served(S, q)
        before == AtRestaurant(Everywhere(S, q.before), q)
        top == Best(orders, OfCategory(orders, q), limit)
        total == Quantity(orders, top)
        of(source, d) == Quantity({o \in orders : Source(o) = source}, {d})
    IN [items |-> [d \in {d \in top : Dish[d].active} |->
            [sales |-> Lot(orders, {d}), percentage |-> Rate(Quantity(orders, {d}), total),
             evolution |-> calculateTrend(Quantity(orders, {d}), Quantity(before, {d})),
             sources |-> [s \in {"app", "callCenter", "hubrise"} |-> of(s, d)]]],
        totalSold |-> total, unique |-> Cardinality(Sold(orders))]

getTopCategories(S, q) ==
    LET orders == Served(S, q)
        of(c) == {d \in Sold(orders) : Dish[d].category = c}
    IN [c \in {Dish[d].category : d \in Sold(orders)} |->
           [sales |-> Lot(orders, of(c)), dishes |-> Cardinality(of(c))]]

getProductsComparison(S, q, p1, p2, limit) ==
    LET served(p) == AtRestaurant(Everywhere(S, p), q)
        top == Best(served(p1), OfCategory(served(p1), q), limit)
    IN [d \in top |-> [period1 |-> Quantity(served(p1), {d}), period2 |-> Quantity(served(p2), {d}),
                       evolution |-> calculateTrend(Quantity(served(p2), {d}), Quantity(served(p1), {d}))]]

\* Of every restaurant, whatever the query says.
getProductsByRestaurant(S, q) ==
    LET groups == By("restaurant", Everywhere(S, q.span))
    IN [r \in DOMAIN groups |-> Lot(groups[r], Sold(groups[r]))]

getProductsByZone(S, q, limit) ==
    LET orders == Served(S, q)
        delivered(d) == {o \in orders : o.type = "DELIVERY" /\ d \in DOMAIN o.lines}
        zones(d) == By("city", delivered(d))
    IN [d \in {d \in Best(orders, Sold(orders), limit) : delivered(d) # {}} |->
           [total |-> Quantity(delivered(d), {d}), zones |-> [z \in DOMAIN zones(d) |-> Quantity(zones(d)[z], {d})]]]

getSalesTrend(S, q) ==
    LET orders == Served(S, q)
    IN [d \in q.span.from .. q.span.to |-> Lot(During(orders, Span(d, d)), Sold(orders))]

getChannelBreakdown(S, q) ==
    LET orders == Served(S, q)
        app == {o \in orders : o.auto}
    IN [app |-> Lot(app, Sold(orders)), callCenter |-> Lot(orders \ app, Sold(orders))]

getPromotionPerformance(S, q) ==
    LET orders == Served(S, q)
        promotion == {d \in Sold(orders) : Dish[d].promotion}
        of(dishes) == [dishes |-> Cardinality(dishes), sales |-> Lot(orders, dishes)]
    IN [promotion |-> of(promotion), regular |-> of(Sold(orders) \ promotion)]

\* The home dashboard: shares among the four best dishes of the completed orders.
getBestSellingMenus(orders) ==
    LET top == Best(orders, Sold(orders), 4) IN
    [d \in top |-> [count |-> Quantity(orders, {d}), percentage |-> Rate(Quantity(orders, {d}), Quantity(orders, top))]]
================================================================================
