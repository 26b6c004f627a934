---------------------------- MODULE OrderStatistics ----------------------------
(***************************************************************************)
(* What the statistics of the back office have in common: the orders they  *)
(* read, the period of a query and the one before it, sums and rates.      *)
(*                                                                         *)
(* The figures of the orders: overview, channels, times, punctuality,      *)
(* restaurants, zones, curves, deliveries, home dashboard and report.      *)
(***************************************************************************)
EXTENDS Integers, FiniteSetsExt, Functions

CONSTANTS
    Sales,                     \* orders that may be in the books, numbered as they were created
    Today, Half,               \* day and half of the day of the query, day 0 being a Monday
    MonthStarts, YearStarts,   \* first days of the months and of the years
    Any, NoTime,               \* no filter, a step without a date
    LateAfter,                 \* minutes from the counter to the customer
    Since                      \* day each customer's account was opened

Final == {"COMPLETED", "COLLECTED"}
Paid(o) == o.paied /\ o.status \in Final

-----------------------------------------------------------------------------
(* Periods: [from, to], both days included.                                *)

Span(from, to) == [from |-> from, to |-> to]
StartIn(starts, d) == Max({s \in starts : s <= d})
PeriodOf(starts, d) == Span(StartIn(starts, d), Min({s \in starts : s > d}) - 1)
Week(d) == LET monday == d - (d % 7) IN Span(monday, monday + 6)

Refused(q) == q.period = "custom" /\ q.to < q.from

parseDateRange(q) ==
    CASE q.period = "custom" -> Span(q.from, q.to)
      [] q.period = "today" -> Span(Today, Today)
      [] q.period = "yesterday" -> Span(Today - 1, Today - 1)
      [] q.period = "week" -> Week(Today)
      [] q.period = "last_week" -> Week(Today - 7)
      [] q.period = "month" -> PeriodOf(MonthStarts, Today)
      [] q.period = "last_month" -> PeriodOf(MonthStarts, StartIn(MonthStarts, Today) - 1)
      [] q.period = "year" -> PeriodOf(YearStarts, Today)

getPreviousPeriod(p) == LET diff == (p.to - p.from) + 1 IN Span(p.from - diff, p.to - diff)

\* Every handler begins with the period of its query; most need the one before as well.
Dated(q) ==
    LET p == parseDateRange(q) IN
    [f \in DOMAIN q \union {"span", "before"} |->
        CASE f = "span" -> p [] f = "before" -> getPreviousPeriod(p) [] OTHER -> q[f]]

\* The intervals of a curve: they cover the period and may go beyond it.
Intervals(p, granularity) ==
    {CASE granularity = "day" -> Span(d, d)
       [] granularity = "week" -> Week(d)
       [] granularity = "month" -> PeriodOf(MonthStarts, d) : d \in p.from .. p.to}

-----------------------------------------------------------------------------
(* Filters and figures.                                                    *)

During(S, p) == {o \in S : p.from <= o.day /\ o.day <= p.to}
AtRestaurant(S, q) == {o \in S : q.restaurant \in {Any, o.restaurant}}

\* The orders most figures count: paid, over, of the period and of the restaurant.
Everywhere(S, p) == {o \in During(S, p) : Paid(o)}
Served(S, q) == AtRestaurant(Everywhere(S, q.span), q)
Deliveries(S) == {o \in S : o.type = "DELIVERY"}

Total(f) == FoldFunction(+, 0, f)
Column(S, field) == [o \in S |-> o[field]]
Net(S) == Total(Column(S, "net"))

Figures(S) == [count |-> Cardinality(S), revenue |-> Net(S)]
GroupsOf(key) == [k \in {key[o] : o \in DOMAIN key} |-> {o \in DOMAIN key : key[o] = k}]
By(field, S) == GroupsOf(Column(S, field))
Counts(g) == [k \in DOMAIN g |-> Cardinality(g[k])]
Revenues(g) == [k \in DOMAIN g |-> Net(g[k])]

Round(a, b) == (2 * a + b) \div (2 * b)
Rate(a, b) == IF b > 0 THEN Round(100 * a, b) ELSE 0
Average(f) == IF DOMAIN f = {} THEN 0 ELSE Round(Total(f), Cardinality(DOMAIN f))

\* In tenths of a percent.
calculateTrend(current, previous) ==
    IF previous = 0 THEN IF current > 0 THEN 1000 ELSE 0
    ELSE IF current >= previous THEN Round(1000 * (current - previous), previous)
    ELSE -Round(1000 * (previous - current), previous)

\* Customers served before the period, in any restaurant.
Known(S, p) == {o.customer : o \in {x \in S : Paid(x) /\ x.day < p.from}}

-----------------------------------------------------------------------------
(* Orders.                                                                 *)

getOrdersOverview(S, q) ==
    LET base == {o \in AtRestaurant(During(S, q.span), q) : q.type \in {Any, o.type}}
        done == {o \in base : Paid(o)}
        before == AtRestaurant(Everywhere(S, q.before), q)
        cancelled == {o \in base : o.status = "CANCELLED"}
    IN [totalOrders |-> Cardinality(done), totalRevenue |-> Net(done),
        cancelled |-> Cardinality(cancelled), all |-> Cardinality(base),
        cancellationRate |-> Rate(Cardinality(cancelled), Cardinality(base)),
        evolution |-> calculateTrend(Net(done), Net(before)),
        byStatus |-> Counts(By("status", base)),
        byType |-> By("type", done)]

\* App or call center, customers known or not.
Channel(S, known) ==
    LET recurring == {o \in S : o.customer \in known} IN
    [totalOrders |-> Cardinality(S), revenue |-> Net(S),
     newOrders |-> Cardinality(S \ recurring), recurringOrders |-> Cardinality(recurring)]

getOrdersByChannel(S, q) ==
    LET orders == Served(S, q)
        app == {o \in orders : o.auto}
        known == Known(S, q.span)
        of(x, d) == Channel({o \in x : o.day = d}, known)
    IN [app |-> Channel(app, known), callCenter |-> Channel(orders \ app, known),
        dailyTrend |-> [d \in q.span.from .. q.span.to |-> [app |-> of(app, d), callCenter |-> of(orders \ app, d)]]]

\* Minutes between two steps; a step without a date or without a duration is left out.
Lasted(from, to) ==
    {o \in DOMAIN from : from[o] # NoTime /\ to[o] # NoTime /\ to[o] - from[o] > 0}
Times(from, to) ==
    LET minutes == [o \in Lasted(from, to) |-> to[o] - from[o]]
        T == DOMAIN minutes
    IN [orders |-> Cardinality(T), average |-> Average(minutes),
        min |-> IF T = {} THEN 0 ELSE Min(Range(minutes)),
        max |-> IF T = {} THEN 0 ELSE Max(Range(minutes))]

Created(S) == [o \in S |-> 0]
Accepted(S) == Column(S, "accepted")
Ready(S) == Column(S, "ready")
Collected(S) == Column(S, "collected")
Over(S) == [o \in S |-> IF o.collected # NoTime THEN o.collected ELSE o.completed]

getOrdersProcessingTime(S, q) ==
    LET orders == {o \in Served(S, q) : o.accepted # NoTime} IN
    [sampleSize |-> Cardinality(orders), total |-> Times(Accepted(orders), Over(orders)),
     steps |-> <<Times(Created(orders), Accepted(orders)), Times(Accepted(orders), Ready(orders)),
                 Times(Ready(orders), Over(orders))>>]

Timed(S) == {o \in Deliveries(S) : o.ready # NoTime /\ o.collected # NoTime}
Late(S) == {o \in S : o.collected - o.ready > LateAfter}
Delays(S) == [o \in Late(S) |-> (o.collected - o.ready) - LateAfter]

getLateOrders(S, q) ==
    LET orders == Timed(Served(S, q))
        late == Late(orders)
    IN [total |-> Cardinality(orders), onTime |-> Cardinality(orders) - Cardinality(late),
        late |-> Cardinality(late), lateRate |-> Rate(Cardinality(late), Cardinality(orders)),
        averageDelay |-> Average(Delays(orders))]

getRestaurantPunctuality(S, q) ==
    LET orders == {o \in Served(S, q) : o.accepted # NoTime /\ o.ready # NoTime}
        groups == By("restaurant", Lasted(Accepted(orders), Ready(orders)))
    IN [all |-> Times(Accepted(orders), Ready(orders)),
        byRestaurant |-> [r \in DOMAIN groups |-> Times(Accepted(groups[r]), Ready(groups[r]))]]

\* These three look at every restaurant, whatever the query says.
getOrdersByRestaurant(S, q) ==
    LET now == By("restaurant", Everywhere(S, q.span))
        before == Revenues(By("restaurant", Everywhere(S, q.before)))
    IN [items |-> [r \in DOMAIN now |->
            [count |-> Cardinality(now[r]), revenue |-> Net(now[r]),
             evolution |-> calculateTrend(Net(now[r]), IF r \in DOMAIN before THEN before[r] ELSE 0)]],
        totalOrders |-> Total(Counts(now)), totalRevenue |-> Total(Revenues(now))]

getOrdersByRestaurantAndType(S, q) ==
    LET groups == By("restaurant", Everywhere(S, q.span))
    IN [r \in DOMAIN groups |-> [total |-> Cardinality(groups[r]), types |-> Counts(By("type", groups[r]))]]

getOrdersByRestaurantAndSource(S, q) ==
    LET app == {o \in Everywhere(S, q.span) : o.auto}
        groups == By("restaurant", Everywhere(S, q.span))
    IN [r \in DOMAIN groups |->
           [app |-> Cardinality(groups[r] \intersect app), callCenter |-> Cardinality(groups[r] \ app)]]

-----------------------------------------------------------------------------
(* Zones: deliveries whose address has coordinates, by rounded position.   *)

getClientZones(S, q) ==
    LET orders == Deliveries(Served(S, q))
    IN [points |-> Counts(By("zone", {o \in orders : o.zone # Any})), totalOrders |-> Cardinality(orders)]

getInfluenceZones(S, q) ==
    LET orders == Deliveries(Everywhere(S, q.span))
        key == [o \in {o \in orders : o.zone # Any} |-> <<o.zone, o.restaurant>>]
    IN [points |-> Counts(GroupsOf(key)), totalOrders |-> Cardinality(orders)]

-----------------------------------------------------------------------------
(* Curves.                                                                 *)

getOrdersDailyTrend(S, q, granularity) ==
    LET orders == Served(S, q) IN
    [data |-> [i \in Intervals(q.span, granularity) |-> Figures(During(orders, i))],
     totalOrders |-> Cardinality(orders), totalRevenue |-> Net(orders)]

\* A restaurant without a timed delivery is on time.
getDailyTrendByRestaurant(S, q, granularity) ==
    LET point(x) == [figures |-> Figures(x),
                     onTimeRate |-> IF Timed(x) = {} THEN 100
                                    ELSE Rate(Cardinality(Timed(x) \ Late(Timed(x))), Cardinality(Timed(x)))]
    IN [i \in Intervals(q.span, granularity) |->
           LET x == During(Everywhere(S, q.span), i)
               groups == By("restaurant", x)
           IN [total |-> point(x), byRestaurant |-> [r \in DOMAIN groups |-> point(groups[r])]]]

-----------------------------------------------------------------------------
(* Deliveries.                                                             *)

Fees(S) == Total(Column(S, "fee"))

getDeliveryOverview(S, q) ==
    LET orders == Deliveries(Served(S, q))
        before == Deliveries(AtRestaurant(Everywhere(S, q.before), q))
        of(service) == Cardinality({o \in orders : o.service = service})
    IN [total |-> Cardinality(orders), fees |-> Fees(orders), revenue |-> Net(orders),
        turbo |-> of("TURBO"), free |-> of("FREE"),
        evolution |-> calculateTrend(Cardinality(orders), Cardinality(before))]

\* The same by amount of the fee; the home dashboard has it for completed orders only.
FeesBreakdown(orders) ==
    LET groups == By("fee", orders)
    IN [breakdown |-> [f \in DOMAIN groups |->
            [count |-> Cardinality(groups[f]), collected |-> Fees(groups[f]),
             percentage |-> Rate(Cardinality(groups[f]), Cardinality(orders))]],
        totalFees |-> Fees(orders), totalRevenue |-> Net(orders)]
getDeliveryFeesBreakdown(S, q) == FeesBreakdown(Deliveries(Served(S, q)))

getDeliveryByZone(S, q) ==
    LET groups == By("city", Deliveries(Served(S, q)))
    IN [zones |-> [z \in DOMAIN groups |-> Figures(groups[z])], total |-> Cardinality(Deliveries(Served(S, q)))]

\* The zones of the marketing are computed apart, in the same way.
getTopZones(S, q) == getDeliveryByZone(S, q)

\* Unlike the late orders, a delivery that lasted no minute is not counted.
getDeliveryPerformance(S, q) ==
    LET orders == Lasted(Ready(Timed(Served(S, q))), Collected(Timed(Served(S, q))))
        late == Late(orders)
    IN [times |-> Times(Ready(orders), Collected(orders)), late |-> Cardinality(late),
        onTime |-> Cardinality(orders) - Cardinality(late),
        onTimeRate |-> Rate(Cardinality(orders) - Cardinality(late), Cardinality(orders)),
        averageDelay |-> Average(Delays(orders))]

-----------------------------------------------------------------------------
(* The home dashboard counts the completed orders only.                    *)

Completed(S) == {o \in S : o.paied /\ o.status = "COMPLETED"}
CompletedIn(S, p, q) == During(AtRestaurant(Completed(S), q), p)

getStatsCards(S, q) ==
    LET now == CompletedIn(S, q.span, q)
        before == CompletedIn(S, q.before, q)
    IN [revenue |-> Net(now), orders |-> Cardinality(now),
        customers |-> Cardinality({c \in {o.customer : o \in AtRestaurant(Completed(S), q)} : Since[c] <= q.span.to}),
        revenueTrend |-> calculateTrend(Net(now), Net(before)),
        ordersTrend |-> calculateTrend(Cardinality(now), Cardinality(before))]

\* The total of a curve is that of its points, whole months for a year.
getPeriodicRevenueData(S, p, q) ==
    LET data == [i \in Intervals(p, IF q.period = "year" THEN "month" ELSE "day") |-> Net(CompletedIn(S, i, q))]
    IN [data |-> data, total |-> Total(data)]

getRevenueData(S, q) ==
    LET main == getPeriodicRevenueData(S, q.span, q).total
        before == getPeriodicRevenueData(S, q.before, q).total
    IN [total |-> main, trend |-> calculateTrend(main, before)]

getWeeklyOrdersData(S, q) ==
    [d \in q.span.from .. q.span.to |-> Cardinality(CompletedIn(S, Span(d, d), q))]

getDeliveryStats(S, q) == FeesBreakdown(Deliveries(CompletedIn(S, q.span, q)))

-----------------------------------------------------------------------------
(* The marketing report: overview and channels as above, its restaurants   *)
(* and its account without the deleted orders.                             *)

AnyType(q) == [q EXCEPT !.type = Any]

collectReportData(S, q) ==
    LET kept == {o \in Served(S, q) : ~o.deleted}
        groups == By("restaurant", kept)
    IN [overview |-> getOrdersOverview(S, AnyType(q)), channel |-> getOrdersByChannel(S, q),
        byRestaurant |-> [r \in DOMAIN groups |->
            [sources |-> Counts(By("auto", groups[r])), revenue |-> Net(groups[r])]],
        totalOrders |-> Cardinality(kept), totalRevenue |-> Net(kept), deliveryFee |-> Fees(kept)]
================================================================================
