----------------------------- MODULE PushAudience -----------------------------
(***************************************************************************)
(* Whom a push campaign of the back office reaches: the preset segments,   *)
(* the segments saved with filters, the filters of one campaign, the       *)
(* counts the screens show, and the sending with its figures.              *)
(***************************************************************************)
EXTENDS Integers, Sequences, FiniteSetsExt, Functions, TLC

CONSTANTS
    Directory,      \* customers: [id, active, token, level, points, since, cities, words, orders]
    Custom,         \* segments the back office may save: key -> filters
    CityOf,         \* segments by city: key -> city
    Wanted,         \* campaigns asked for: <<[type, config, personal, later]>>
    Chunk,          \* messages of one request to Expo
    MaxPeople, MaxCampaigns

VARIABLE push       \* [people, saved, campaigns, sending]

PushInit == push = [people |-> {}, saved |-> {}, campaigns |-> <<>>, sending |-> {}]

-----------------------------------------------------------------------------
(* Customers: those whose device can be reached, and those a query finds.  *)

getAllTokens(P) == {p \in P : p.token # "none"}
Known(P) == {p \in P : p.active}
OrderedWithin(P, days) == {p \in P : \E o \in p.orders : o.age <= days}
Spent(p) == FoldFunction(+, 0, [o \in p.orders |-> o.amount])

\* Orders are grouped by customer, so one who never ordered is in no group.
Grouped(P) == {p \in P : p.orders # {}}
getCustomerIdsByOrdersMin(P, min) == {p \in Grouped(P) : Cardinality(p.orders) >= min}
getCustomerIdsByTotalSpent(P, min) == {p \in Grouped(P) : Spent(p) >= min}
getCustomerIdsByLoyalty(P, level) == {p \in Known(P) : p.level = level}
getCustomerIdsByCity(P, city) == {p \in P : city \in p.cities}

Matching(P, field, v) ==
    CASE field = "contains" -> {p \in Known(P) : v \in p.words}
      [] field = "min_orders" -> getCustomerIdsByOrdersMin(P, v)
      [] field = "max_orders" -> {p \in Grouped(P) : Cardinality(p.orders) <= v}
      [] field = "min_spent" -> getCustomerIdsByTotalSpent(P, v)
      [] field = "max_spent" -> {p \in Grouped(P) : Spent(p) <= v}
      [] field = "loyalty_level" -> getCustomerIdsByLoyalty(P, v)
      [] field = "city" -> getCustomerIdsByCity(P, v)
      [] field = "min_points" -> {p \in Known(P) : p.points >= v}
      [] field = "max_points" -> {p \in Known(P) : p.points <= v}
      [] field = "registered_after" -> {p \in Known(P) : p.since <= v}
      [] field = "registered_before" -> {p \in Known(P) : p.since >= v}
      [] field = "last_order_days" -> OrderedWithin(P, v)
      [] field = "no_order_days" -> getAllTokens(P) \ OrderedWithin(P, v)

\* A saved segment without a filter is everybody ...
resolveCustomFiltersCustomerIds(P, filters) ==
    IF filters = {} THEN getAllTokens(P) ELSE {p \in P : \A f \in filters : p \in Matching(P, f[1], f[2])}

\* ... and a campaign without a filter it knows is nobody.
FilterField == "orders" :> "min_orders" @@ "total_spent" :> "min_spent" @@ "loyalty_level" :> "loyalty_level" @@ "city" :> "city"
resolveFilterCustomerIds(P, filters) ==
    LET understood == {f \in filters : f[1] \in DOMAIN FilterField} IN
    {p \in P : understood # {} /\ \A f \in understood : p \in Matching(P, FilterField[f[1]], f[2])}

resolveSegmentCustomerIds(P, segment) ==
    CASE segment = "active_buyers" -> OrderedWithin(P, 7)
      [] segment = "inactive_30d" -> getAllTokens(P) \ OrderedWithin(P, 30)
      [] segment = "new_customers" -> {p \in Known(P) : p.since <= 7}
      [] segment = "loyal_customers" -> getCustomerIdsByOrdersMin(P, 5)
      [] segment = "big_spenders" -> getCustomerIdsByTotalSpent(P, 50000)
      [] segment = "gold" -> getCustomerIdsByLoyalty(P, "VVIP")
      [] segment = "premium" -> getCustomerIdsByLoyalty(P, "VIP")
      [] segment \in DOMAIN CityOf -> getCustomerIdsByCity(P, CityOf[segment])
      [] segment \in push.saved -> resolveCustomFiltersCustomerIds(P, Custom[segment])
      [] OTHER -> {}

resolveTargetTokens(P, w) ==
    CASE w.type \in {"all", "segments"} \/ (w.type = "segment" /\ w.config \in {"", "all"}) -> getAllTokens(P)
      [] w.type = "segment" -> getAllTokens(resolveSegmentCustomerIds(P, w.config))
      [] w.type = "filters" -> getAllTokens(resolveFilterCustomerIds(P, w.config))
      [] w.type = "ids" -> getAllTokens({p \in P : p.id \in w.config})
      [] OTHER -> {}

\* The same for a campaign whose text has variables.
resolveTargetCustomerSettings(P, w) ==
    CASE w.type = "all" -> getAllTokens(P)
      [] w.type = "segment" -> getAllTokens(resolveSegmentCustomerIds(P, w.config))
      [] w.type = "filters" -> getAllTokens(resolveFilterCustomerIds(P, w.config))
      [] w.type = "ids" -> getAllTokens({p \in P : p.id \in w.config})
      [] OTHER -> {}

\* What the screens count, each by a query of its own.
Count(P) == Cardinality(getAllTokens(P))
countInactive(P, days) == Cardinality({p \in getAllTokens(P) : \A o \in p.orders : o.age > days})
countActiveBuyers(P, days) == Count(OrderedWithin(P, days))
countNewCustomers(P, days) == Count({p \in Known(P) : p.since <= days})
countByOrdersMin(P, min) == Count(getCustomerIdsByOrdersMin(P, min))
countBigSpenders(P, min) == Count(getCustomerIdsByTotalSpent(P, min))
countByLoyalty(P, level) == Count({p \in Known(P) : p.level = level})
countByCustomFilters(P, filters) == Count(resolveCustomFiltersCustomerIds(P, filters))

getSegments(P) ==
    "all" :> Count(P) @@ "active_buyers" :> countActiveBuyers(P, 7) @@ "inactive_30d" :> countInactive(P, 30)
    @@ "new_customers" :> countNewCustomers(P, 7) @@ "loyal_customers" :> countByOrdersMin(P, 5)
    @@ "big_spenders" :> countBigSpenders(P, 50000)
    @@ "gold" :> countByLoyalty(P, "VVIP") @@ "premium" :> countByLoyalty(P, "VIP")
    @@ [k \in push.saved |-> countByCustomFilters(P, Custom[k])]
previewSegment(P, w) == Cardinality(resolveTargetTokens(P, w))

-----------------------------------------------------------------------------
(* Campaigns.                                                              *)

Register ==
    /\ Cardinality(push.people) < MaxPeople
    /\ \E p \in Directory \ push.people : push' = [push EXCEPT !.people = @ \union {p}]

createSegment(k) == k \notin push.saved /\ push' = [push EXCEPT !.saved = @ \union {k}]
deleteSegment(k) == k \in push.saved /\ push' = [push EXCEPT !.saved = @ \ {k}]

\* A campaign for later only waits; one that is not is sent at once.
create(k) ==
    /\ Len(push.campaigns) < MaxCampaigns
    /\ push' = [push EXCEPT
         !.campaigns = Append(@, [wanted |-> k, status |-> IF Wanted[k].later THEN "scheduled" ELSE "draft",
                                  targeted |-> 0, sent |-> 0, failed |-> 0]),
         !.sending = IF Wanted[k].later THEN @ ELSE @ \union {Len(push.campaigns) + 1}]

\* Expo takes the well-formed tokens by chunks; a chunk it refuses is one error,
\* and a ticket it gives may be an error as well.
sendPushNotifications(targets) ==
    LET n == Cardinality({p \in targets : p.token = "valid"})
        chunks == 1 .. ((n + Chunk - 1) \div Chunk)
        size(c) == IF c * Chunk <= n THEN Chunk ELSE n % Chunk
        tickets(C) == FoldFunction(+, 0, [c \in C |-> size(c)])
    IN UNION {{[sent |-> tickets(chunks \ refused), failed |-> Cardinality(refused) + bad] :
                  bad \in 0 .. tickets(chunks \ refused)} : refused \in SUBSET chunks}

sendCampaignPersonalized(i) ==
    LET w == Wanted[push.campaigns[i].wanted]
        targets == IF w.personal THEN resolveTargetCustomerSettings(push.people, w)
                   ELSE resolveTargetTokens(push.people, w)
    IN /\ i \in push.sending
       /\ \E result \in sendPushNotifications(targets) :
              push' = [push EXCEPT !.sending = @ \ {i},
                         !.campaigns[i] = [wanted |-> @.wanted, status |-> "sent", targeted |-> Cardinality(targets),
                                           sent |-> result.sent, failed |-> result.failed]]

\* A query fails, or the backend stops before the campaign is updated.
SendingFails(i) ==
    /\ i \in push.sending
    /\ \E status \in {"failed", push.campaigns[i].status} :
           push' = [push EXCEPT !.sending = @ \ {i}, !.campaigns[i].status = status]

cancel(i) ==
    /\ push.campaigns[i].status = "scheduled"
    /\ push' = [push EXCEPT !.campaigns[i].status = "draft"]

getStats(C) ==
    LET sum(field) == FoldFunction(+, 0, [i \in DOMAIN C |-> C[i][field]]) IN
    [totalCampaigns |-> Len(C), totalSent |-> sum("sent"), totalFailed |-> sum("failed"),
     distribution |-> [s \in {C[i].status : i \in DOMAIN C} |-> Cardinality({i \in DOMAIN C : C[i].status = s})]]

PushNext ==
    \/ Register
    \/ \E k \in DOMAIN Custom : createSegment(k) \/ deleteSegment(k)
    \/ \E k \in DOMAIN Wanted : create(k)
    \/ \E i \in DOMAIN push.campaigns : sendCampaignPersonalized(i) \/ SendingFails(i) \/ cancel(i)

-----------------------------------------------------------------------------
(* A segment has as many members on the screens as devices a campaign to   *)
(* it reaches; a text with variables reaches the same ones as a text       *)
(* without, except where everybody is written otherwise than "all".        *)
CountsTellReach ==
    /\ LET counts == getSegments(push.people) IN
       \A s \in DOMAIN counts : counts[s] = previewSegment(push.people, [type |-> "segment", config |-> s])
    /\ \A k \in DOMAIN Wanted :
           LET w == Wanted[k] IN
           \/ w.type = "segments" \/ (w.type = "segment" /\ w.config \in {"", "all"})
           \/ resolveTargetCustomerSettings(push.people, w) = resolveTargetTokens(push.people, w)

(* Who ordered lately and who did not share out the devices; who ordered   *)
(* more and who ordered less, those who ordered; one more filter never     *)
(* adds anybody.                                                           *)
SegmentsShareOut ==
    LET P == push.people
        shared(A, B, all) == A \intersect B = {} /\ A \union B = all
        lately(d) == Matching(P, "last_order_days", d)
    IN /\ \A d \in {7, 30} : shared(getAllTokens(lately(d)), Matching(P, "no_order_days", d), getAllTokens(P))
       /\ \A n \in 1 .. 5 : shared(Matching(P, "min_orders", n), Matching(P, "max_orders", n - 1), Grouped(P))
       /\ lately(7) \subseteq lately(30)
       /\ \A s \in DOMAIN Custom : \A f \in Custom[s] :
              Custom[s] = {f} \/ resolveCustomFiltersCustomerIds(P, Custom[s])
                                     \subseteq resolveCustomFiltersCustomerIds(P, Custom[s] \ {f})

(* A campaign has no more tickets, nor more errors, than devices, and none *)
(* before it is sent; one that is planned is not being sent; the totals    *)
(* are those of the campaigns sent.                                        *)
FiguresAreBounded ==
    LET C == push.campaigns
        stats == getStats(C)
    IN /\ \A i \in DOMAIN C :
              /\ C[i].sent <= C[i].targeted /\ C[i].failed <= C[i].targeted
              /\ C[i].status # "sent" => C[i].targeted = 0
              /\ C[i].status = "scheduled" => i \notin push.sending
       /\ FoldFunction(+, 0, stats.distribution) = stats.totalCampaigns
       /\ stats.totalSent > 0 => "sent" \in DOMAIN stats.distribution
===============================================================================
