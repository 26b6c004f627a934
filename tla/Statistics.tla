------------------------------ MODULE Statistics ------------------------------
(***************************************************************************)
(* The statistics of the back office, side by side.  Each screen has       *)
(* queries of its own over the same orders; the variable is a book of      *)
(* orders with the query under consideration.                              *)
(***************************************************************************)
EXTENDS SalesStatistics

CONSTANTS
    Queries,    \* [period, from, to, restaurant, type, category]
    MaxBook     \* orders in the books

VARIABLE asked

StatInit == asked \in [book : {{}}, query : {Dated(q) : q \in {q \in Queries : ~Refused(q)}}]
AnotherSale ==
    /\ Cardinality(asked.book) < MaxBook
    /\ \E o \in Sales \ asked.book : asked' = [asked EXCEPT !.book = @ \union {o}]

Same(S) == \A x, y \in S : x = y
TotalOf(g, field) == Total([k \in DOMAIN g |-> g[k][field]])
Counted(g) == TotalOf(g, "count")
Revenued(g) == TotalOf(g, "revenue")
Vended(g) == TotalOf(g, "sold")

-----------------------------------------------------------------------------
(* The period before a query is next to it and as long; the intervals of a *)
(* curve cut the period without a hole nor an overlap; the last week is    *)
(* the period before the week.                                             *)
PeriodsAreSound ==
    LET p == asked.query.span
        before == asked.query.before
    IN /\ p.from <= p.to
       /\ before.to + 1 = p.from /\ before.to - before.from = p.to - p.from
       /\ \A g \in {"day", "week", "month"} : \A d \in p.from .. p.to :
              Cardinality({i \in Intervals(p, g) : d \in i.from .. i.to}) = 1
       /\ asked.query.period = "week" => before = parseDateRange([asked.query EXCEPT !.period = "last_week"])

(* The orders and the revenue of a period are the same on every screen:    *)
(* overview, types, channels, curves at any granularity, new and known     *)
(* customers, payment methods, aggregate by customer and day; and, for all *)
(* the restaurants, the three views by restaurant.                         *)
TotalsMatch(S, q, overview, channel, basket, method, places, sources) ==
    LET curve(g) == getOrdersDailyTrend(S, q, g).data
        wide(g) == LET t == getDailyTrendByRestaurant(S, q, g) IN [i \in DOMAIN t |-> t[i].total.figures]
        G == {"day", "week", "month"}
    IN /\ Same({overview.totalOrders, Total(Counts(overview.byType)),
                channel.app.totalOrders + channel.callCenter.totalOrders,
                basket.new.count + basket.recurring.count, TotalOf(method, "orders")}
               \union {Counted(curve(g)) : g \in G})
       /\ Same({overview.totalRevenue, Total(Revenues(overview.byType)),
                channel.app.revenue + channel.callCenter.revenue,
                basket.new.revenue + basket.recurring.revenue, Revenued(method),
                getRevenueConcentration(S, q).totalRevenue} \union {Revenued(curve(g)) : g \in G})
       /\ basket.new.count = channel.app.newOrders + channel.callCenter.newOrders
       /\ q.restaurant = Any =>
              /\ Same({overview.totalOrders, getOrdersByRestaurant(S, q).totalOrders,
                       TotalOf(places, "total"), TotalOf(sources, "app") + TotalOf(sources, "callCenter")} \union {Counted(wide(g)) : g \in G})
              /\ overview.totalRevenue = getOrdersByRestaurant(S, q).totalRevenue
       /\ Total(overview.byStatus) = overview.all /\ overview.cancellationRate \in 0 .. 100

TotalsAgree == LET S == asked.book  q == AnyType(asked.query) IN
    TotalsMatch(S, q,
        getOrdersOverview(S, q), getOrdersByChannel(S, q), getBasketComparison(S, q),
        getPaymentMethodDistribution(S, q), getOrdersByRestaurantAndType(S, q),
        getOrdersByRestaurantAndSource(S, q))

(* The same for the deliveries: fees, zones, fleets, of which the overview *)
(* leaves out the livreurs of the house; and the late orders, which two    *)
(* services count each in its way.                                         *)
DeliveriesMatch(S, q, overview, fees, late, performance, zones, influence) ==
    LET around(z) == {k \in DOMAIN influence : k[1] = z}
        internal == {o \in Deliveries(Served(S, q)) : o.service = "CHICKEN_NATION"}
    IN /\ Same({overview.total, Counted(fees.breakdown), Counted(getTopZones(S, q).zones),
                overview.turbo + overview.free + Cardinality(internal), zones.totalOrders})
       /\ Same({overview.fees, fees.totalFees, TotalOf(fees.breakdown, "collected")})
       /\ overview.revenue = fees.totalRevenue
       /\ late.late = performance.late /\ late.averageDelay = performance.averageDelay
       /\ performance.onTime <= late.onTime /\ late.late + late.onTime = late.total
       /\ Total(zones.points) <= zones.totalOrders
       /\ q.restaurant = Any => \A z \in DOMAIN zones.points : zones.points[z] = Total([k \in around(z) |-> influence[k]])

DeliveriesAgree == LET S == asked.book  q == asked.query IN
    DeliveriesMatch(S, q,
        getDeliveryOverview(S, q), getDeliveryFeesBreakdown(S, q), getLateOrders(S, q),
        getDeliveryPerformance(S, q), getClientZones(S, q), getInfluenceZones(S, q).points)

(* The times of the orders are the same on both screens that have them, by *)
(* restaurant as in all, and an average is between its extremes.           *)
TimesAgree ==
    LET S == asked.book
        q == asked.query
        processing == getOrdersProcessingTime(S, q)
        punctuality == getRestaurantPunctuality(S, q)
        trend == getDailyTrendByRestaurant(S, q, "day")
    IN /\ punctuality.all = processing.steps[2]
       /\ TotalOf(punctuality.byRestaurant, "orders") = punctuality.all.orders
       /\ processing.total.orders <= processing.sampleSize
       /\ \A t \in {processing.total, processing.steps[1], processing.steps[3]}
                \union {punctuality.byRestaurant[r] : r \in DOMAIN punctuality.byRestaurant} :
              t.min <= t.average /\ t.average <= t.max
       /\ \A d \in DOMAIN trend :
              LET places == trend[d].byRestaurant
                  rates == {places[r].onTimeRate : r \in DOMAIN places}
              IN rates # {} => Min(rates) <= trend[d].total.onTimeRate

(* A customer of the period is new or known, in the same number on every   *)
(* screen; active, at risk or lost, never two of them; a lost customer is  *)
(* in the list of those to call; the more customers, the larger the share. *)
ClientsMatch(S, q, overview, acquisition, retention, concentration, levels, best, zones) ==
    LET seen == [d \in DOMAIN acquisition.dailyTrend |-> LET t == acquisition.dailyTrend[d] IN
                       t.app.new + t.app.recurring + t.callCenter.new + t.callCenter.recurring]
        lost == {c \in DOMAIN getChurnExport(S, q, LostAfter) : Silent(EverPaid(S, q), c) \div 2 > LostAfter}
        orders == Served(S, q)
        firsts == {c \in Customers(orders) :
                       \A o \in Of(S, c) : Paid(o) => o.day >= q.span.from}
    IN /\ overview.newClients = Cardinality(firsts) /\ overview.newClients = acquisition.totalNew /\ overview.recurringClients = acquisition.totalRecurring
       /\ Same({overview.totalClients, overview.newClients + overview.recurringClients,
                concentration.totalClients, TotalOf(levels, "clients"), Cardinality(DOMAIN best)})
       /\ TotalOf(best, "spent") = concentration.totalRevenue
       /\ \A c \in DOMAIN best : LET profile == getClientAnalyticsProfile(S, c) IN
              best[c].channel = profile.channel /\ best[c].spent <= profile.ltv
       /\ \A z \in DOMAIN zones : zones[z].clients \in 1 .. overview.totalClients
       /\ overview.totalClients \in 0 .. overview.appClients + overview.callCenterClients
       /\ overview.totalClients <= Total(seen)
       /\ retention.total = retention.active + retention.atRisk + retention.churn60
       /\ Cardinality(lost) = retention.churn30 /\ retention.churn30 = retention.atRisk + retention.churn60
       /\ LET share == concentration.share IN
          \A a, b \in DOMAIN share : share[a] <= 100 /\ (a <= b => share[a] <= share[b])

ClientsAgree == LET S == asked.book  q == asked.query IN
    ClientsMatch(S, q,
        getClientsOverview(S, q), getClientsAcquisition(S, q), getClientsRetention(S, q),
        getRevenueConcentration(S, q), getLoyaltyDistribution(S, q), getTopClients(S, q, MaxBook),
        getClientsByZone(S, q))

(* The dishes sold are the same by category, channel, day, promotion and,  *)
(* for all the restaurants, by restaurant; the best sellers of a list long *)
(* enough are all of them.                                                 *)
ProductsMatch(S, q, categories, channel, promotion, trend, places, top, compared, zones, menus) ==
    LET ofCategory == [c \in DOMAIN categories |-> categories[c].sales]
    IN /\ Same({top.totalSold, Vended(ofCategory), channel.app.sold + channel.callCenter.sold,
                promotion.promotion.sales.sold + promotion.regular.sales.sold, Vended(trend)}
               \union (IF q.restaurant = Any THEN {Vended(places)} ELSE {}))
       /\ Same({Revenued(ofCategory), channel.app.revenue + channel.callCenter.revenue,
                promotion.promotion.sales.revenue + promotion.regular.sales.revenue, Revenued(trend)}
               \union (IF q.restaurant = Any THEN {Revenued(places)} ELSE {}))
       /\ \A d \in DOMAIN top.items : top.items[d].sales.sold = Total(top.items[d].sources)
       /\ getTopProducts(S, q, 1).totalSold <= top.totalSold
       /\ TotalOf(compared, "period1") = top.totalSold
       /\ \A d \in DOMAIN zones : zones[d].total = Total(zones[d].zones) /\ zones[d].total <= compared[d].period1
       /\ menus = << >> \/ TotalOf(menus, "percentage") \in 98 .. 102

ProductsAgree == LET S == asked.book  q == [asked.query EXCEPT !.category = Any] IN
    ProductsMatch(S, q,
        getTopCategories(S, q), getChannelBreakdown(S, q), getPromotionPerformance(S, q), getSalesTrend(S, q),
        getProductsByRestaurant(S, q), getTopProducts(S, q, Cardinality(DOMAIN Dish)),
        getProductsComparison(S, q, q.span, q.before, Cardinality(DOMAIN Dish)),
        getProductsByZone(S, q, Cardinality(DOMAIN Dish)), getBestSellingMenus(CompletedIn(S, q.span, q)))

(* What two screens of one period differ by is known: the home dashboard   *)
(* leaves out the orders collected at the counter and not closed, the      *)
(* restaurants of the report the deleted orders.                           *)
DifferencesMatch(S, q, overview, home, report, days) ==
    LET collected == {o \in Served(S, q) : o.status = "COLLECTED"}
        deleted == {o \in Served(S, q) : o.deleted}
        shown == [r \in DOMAIN report.byRestaurant |-> Total(report.byRestaurant[r].sources)]
    IN /\ overview.totalRevenue = home.revenue + Net(collected)
       /\ overview.totalOrders = home.orders + Cardinality(collected) /\ home.orders = Total(days)
       /\ getRevenueData(S, q).total = home.revenue
       /\ report.overview.totalOrders = Total(shown) + Cardinality(deleted)
       /\ report.overview.totalRevenue = Revenued(report.byRestaurant) + Net(deleted)
       /\ getDeliveryStats(S, q).totalFees <= getDeliveryFeesBreakdown(S, q).totalFees

DifferencesAreKnown == LET S == asked.book  q == AnyType(asked.query) IN
    DifferencesMatch(S, q,
        getOrdersOverview(S, q), getStatsCards(S, q), collectReportData(S, q), getWeeklyOrdersData(S, q))
================================================================================
