------------------------------ MODULE MCServices ------------------------------
(***************************************************************************)
(* The services around the dispatch, each checked on a small instance of   *)
(* its own.  They share no state in the models, so an execution follows    *)
(* one of them, its focus, while the others stay in their initial state:   *)
(* the reachable states are the disjoint union of those of the components. *)
(***************************************************************************)
EXTENDS Integers, TLC

CONSTANTS
    Focus,                            \* components the instance exercises
    none,
    a1, a2,                           \* orders of the loyalty ledger
    b1, b2,                           \* orders that use a coupon
    s1, s2, lotVoucher, lotGift,  \* orders and lots of the scratch game
    r1, r2,                           \* orders of the referee
    k1, k2, u1, u2,                   \* campaigns and customers
    n1, n2,                           \* notifications
    d1, d2,                           \* accounts of livreurs
    p1, p2, l1,                       \* plans and a livreur
    x1, x2,                           \* players of the combo game
    f1, v1, v2,                       \* a phone and two sales of the call center
    t1, t2, ph1, ph2, ph3, em1, em2,  \* orders of the till, phones and emails
    c1, c2, c3, c4,                   \* a caller, two receivers, an administrator
    g1, g2,                           \* agents of the support
    m1, m2, m3, o1, o2, o3, o4,       \* customers and orders of a promotion
    w1, w2, w3, w4                    \* processes

VARIABLES
    focus,
    acct, ledger, past, lorder, lh, years, stops,
    promo, usages, voucher, redemptions, cord, ch, errors,
    sorder, draw, used, rewards, gift, due, sh, broken,
    referral, giftOrder, closed, paid, late, earn, job, revoke, rh, retried,
    cust, requests, cards, drawn, files, nh,
    camp, given, recent, seen, kh,
    now, plan, sent, batch, ph, switches,
    acc, docs, ah, expired, acts,
    period,
    plans, shift, rest, byHand, planner, ans, handled, halts,
    call, room, ui, hh, silent, rings, failures,
    tick, game, tries, found, told, draws, winners, gifts, gh, crossed, undone, actions,
    contacts, fh, sold, codes, attributed, callCards, stale, callsMade,
    at, row, course, qh, refused, overlap, pressed,
    till, callbacks, orders, customers, th, missed, doubled, counts,
    tickets, queued, online, hd, there, reopened, handed, during, spent,
    bill, pays, bh, feeAlone, shrunk, clash, bacts,
    request, asked, push, basket,
    convs, msgs, mh, halted,
    offer, uses, today, changed,
    promotion, promoUses, placed, redeemed, sph, crossing

-----------------------------------------------------------------------------
(* The instances. *)

Loyalty == INSTANCE LoyaltyLedger WITH
    Order <- {a1, a2}, Earns <- (a1 :> 2 @@ a2 :> 3), Spends <- (a1 :> 0 @@ a2 :> 2), Minimum <- 1,
    VipAt <- 2, VvipAt <- 5, Bonus <- [STANDARD |-> 0, VIP |-> 1, VVIP |-> 2],
    Worker <- {w1}, MaxRows <- 3, MaxStops <- 1, MaxYears <- 1, None <- none

\* Two orders with concurrent handlers, each moved once; one order whose writes
\* may fail, accepted then cancelled.
Coupon == INSTANCE Coupons WITH
    COrder <- {b1, b2}, Net <- (b1 :> 2 @@ b2 :> 3), Value <- 1, MaxUsage <- 2, PerUser <- 1, Issued <- 3,
    CWorker <- {w1, w2}, CKinds <- (w1 :> {"create", "status"} @@ w2 :> {"record"}),
    MaxUsages <- 2, MaxErrors <- 0, MaxMoves <- 1, Nil <- none

CouponErrors == INSTANCE Coupons WITH
    COrder <- {b1}, Net <- (b1 :> 2), Value <- 1, MaxUsage <- 2, PerUser <- 1, Issued <- 4,
    CWorker <- {w1, w2}, CKinds <- (w1 :> {"create", "status"} @@ w2 :> {"record"}),
    MaxUsages <- 2, MaxErrors <- 1, MaxMoves <- 2, Nil <- none

\* Two draws with a break in between; two draws at once and the use of a gift.
Scratch == INSTANCE ScratchGame WITH
    SOrder <- {s1, s2}, Lot <- {lotVoucher, lotGift},
    LotType <- (lotVoucher :> "VOUCHER" @@ lotGift :> "GIFT"),
    Stock <- (lotVoucher :> 1 @@ lotGift :> 1), SWorker <- {w1}, Racing <- FALSE,
    MaxRewards <- 2, MaxBreaks <- 1, Nobody <- none

ScratchGifts == INSTANCE ScratchGame WITH
    SOrder <- {s1, s2}, Lot <- {lotVoucher, lotGift},
    LotType <- (lotVoucher :> "VOUCHER" @@ lotGift :> "GIFT"),
    Stock <- (lotVoucher :> 1 @@ lotGift :> 1), SWorker <- {w1, w2}, Racing <- FALSE,
    MaxRewards <- 2, MaxBreaks <- 0, Nobody <- none

Referral == INSTANCE ReferralEarnings WITH
    used <- giftOrder, ROrder <- {r1, r2}, Basket <- (r1 :> 3 @@ r2 :> 3),
    MinBasket <- 2, Prime <- 2, Commission <- (r1 :> 2 @@ r2 :> 2), Cap <- 3, Threshold <- 3,
    RWorker <- {w1}, MaxRetries <- 1, NoOrder <- none

Cards == INSTANCE NationCards WITH
    NWorker <- {w1, w2}, NKinds <- (w1 :> {"request", "review"} @@ w2 :> {"redraw"}),
    MaxRequests <- 2, MaxCards <- 2, MaxImages <- 2

Campaigns == INSTANCE RewardCampaigns WITH
    Campaign <- {k1, k2}, Target <- (k1 :> {u1, u2} @@ k2 :> {u2}), Uncapped <- {},
    Customer <- {u1, u2}, Cron <- {w1, w2}, Desk <- w3, NoCampaign <- none

Pushes == INSTANCE ScheduledPush WITH
    Notice <- {n1, n2}, Once <- {n1}, Server <- {w1, w2}, Horizon <- 3, MaxEdits <- 1,
    Never <- 99, NoNotice <- none, edits <- switches

Accounts == INSTANCE DelivererAccounts WITH
    Account <- {d1, d2}, AWorker <- {w1, w2}, AKinds <- (w1 :> {"register", "account"} @@ w2 :> {"register"}),
    MaxActs <- 5, NoAccount <- none, due <- expired

Rotation == INSTANCE RestRotation WITH
    Teams <- 1 .. 4, Starts <- {0, 1, 3}, Lengths <- {1, 5, 7, 9, 14}, Forbidden <- {{}, {5, 6, 0}, {1, 6}},
    Counts <- {1, 2}, SoloRest <- 5

RestDays(l, days) == {1} \intersect days
Schedule == INSTANCE SchedulePlans WITH
    Plan <- {p1, p2}, Livreur <- {l1}, Periods <- {{1}, {1, 2}, {2}}, RestFor <- RestDays,
    Planner <- {w1, w2}, MaxHandled <- 2, MaxHalts <- 1, NoPlan <- none, sh <- planner

Calls == INSTANCE StaffCalls WITH
    Caller <- c1, Receiver <- {c2, c3}, Admin <- {c4}, Slot <- 1 .. 4, UserOf <- <<c1, c2, c3, c4>>,
    MaxRequests <- 5, MaxFailures <- 1, requests <- rings

\* Two players with the back office at work; one player on two devices.
Combo == INSTANCE ComboGame WITH
    Player <- {x1, x2}, Front <- {w1}, Backend <- {w2, w3}, Office <- {w4}, MaxAttempts <- 1, WinnersCount <- 1,
    Windows <- {<<0, 2>>, <<1, 2>>}, LastTick <- 2, MaxActions <- 1, Somebody <- none

ComboDevices == INSTANCE ComboGame WITH
    Player <- {x1}, Front <- {w1, w4}, Backend <- {w2}, Office <- {w3}, MaxAttempts <- 1, WinnersCount <- 1,
    Windows <- {<<0, 2>>, <<1, 2>>}, LastTick <- 2, MaxActions <- 1, Somebody <- none

Prospects == INSTANCE ProspectFunnel WITH
    Phone <- {f1}, Sale <- {v1, v2}, Agent <- {w1}, Listener <- {w2, w3},
    StoreOf <- <<"plateau", "cocody">>, Scope <- {{"plateau", "cocody"}, {"cocody"}},
    MaxContacts <- 2, MaxCalls <- 2, MaxMessages <- 2, Nothing <- none, cards <- callCards

\* One livreur with handlers at once; two livreurs to rank.
Queue == INSTANCE DelivererQueue WITH
    Livreur <- {d1}, Merit <- (d1 :> 10), QWorker <- {w1, w2}, Window <- 2, PenaltyTime <- 1, PauseTime <- 2,
    Threshold <- 2, Positions <- 3, WeightQueue <- 3000, WeightChain <- 900, PerPosition <- 600,
    LastTick <- 3, MaxRefusals <- 2, MaxButtons <- 2

Ranking == INSTANCE DelivererQueue WITH
    Livreur <- {d1, d2}, Merit <- (d1 :> 10 @@ d2 :> 10), QWorker <- {w1}, Window <- 2, PenaltyTime <- 1,
    PauseTime <- 2, Threshold <- 2, Positions <- 3, WeightQueue <- 3000, WeightChain <- 900, PerPosition <- 600,
    LastTick <- 2, MaxRefusals <- 1, MaxButtons <- 1

Till == INSTANCE TillSync WITH
    TillOrder <- {t1, t2}, PhoneOf <- (t1 :> ph1 @@ t2 :> ph3), EmailOf <- (t1 :> em1 @@ t2 :> em1),
    NoPhone <- none, Account <- (ph2 :> em2), TWorker <- {w1, w2},
    MaxChanges <- 2, MaxRepeats <- 2, MaxErrors <- 1

Support == INSTANCE SupportTickets WITH
    job <- queued, seen <- there, byHand <- handed, late <- during, used <- spent,
    Agent <- {g1, g2}, Nobody <- none, Front <- {w1}, Consumer <- {w2}, Gateway <- {w3},
    Attempts <- 2, MaxTicketsPerAgent <- 1, MaxTickets <- 2, MaxConnections <- 1, MaxMishaps <- 1

\* One process and several operations; two processes that cross.
NoTax(net) == 0
OneUnit(net) == 1
Billing == INSTANCE OrderBilling WITH
    BWorker <- {w1}, Baskets <- {2, 4}, Fees <- {0, 1}, TotalPoints <- 3, MinPoints <- 2, PointValue <- 1,
    MaxPct <- 50, CouponValue <- 4, TaxOf <- OneUnit, Tolerance <- 0, MaxPayments <- 2, MaxBillingActs <- 4

BillingEdits == INSTANCE OrderBilling WITH
    BWorker <- {w1, w2}, Baskets <- {2, 4}, Fees <- {0, 1}, TotalPoints <- 3, MinPoints <- 2, PointValue <- 1,
    MaxPct <- 50, CouponValue <- 4, TaxOf <- NoTax, Tolerance <- 0, MaxPayments <- 1, MaxBillingActs <- 2

\* Offers of every type, for all or for some days and hours, one of them used up,
\* one whose tiers the back office must refuse.
T(km, price) == [max |-> km, price |-> price]
Offer(id, type, value, tiers) ==
    [id |-> id, type |-> type, value |-> value, tiers |-> tiers,
     min |-> 0, days |-> {}, from |-> 0, to |-> 23, left |-> 1]
DeliveryOffers ==
    {[Offer(1, "FREE_DELIVERY", 0, <<>>) EXCEPT !.min = 3000],
     [Offer(2, "PERCENTAGE", 33, <<>>) EXCEPT !.from = 22, !.to = 2],
     [Offer(3, "FIXED_AMOUNT", 1200, <<>>) EXCEPT !.days = {5}],
     Offer(4, "FIXED_PRICE", 0, <<T(4, 1200), T(2, 500)>>),
     Offer(5, "FIXED_PRICE", 0, <<T(2, 1200), T(4, 500)>>),
     [Offer(6, "FIXED_PRICE", 500, <<>>) EXCEPT !.from = 10, !.to = 22],
     [Offer(7, "FREE_DELIVERY", 0, <<>>) EXCEPT !.left = 0]}

Fees == INSTANCE DeliveryFees WITH
    Grids <- {<<T(4, 1500), T(2, 1000), T(99, 5000)>>, <<T(2, 1000), T(4, 1500)>>},
    ZoneSets <- {<<>>, <<[far |-> 2, prix |-> 800], [far |-> 1, prix |-> 900], [far |-> 1, prix |-> 1300]>>},
    Catalogue <- DeliveryOffers, Distances <- {1, 2, 3, 4, 6}, Amounts <- {2000, 3000},
    Hours <- {1, 12, 22}, Days <- {4, 5}, Forced <- {0, 700, 1500}, NoPrice <- -1

Promotion == INSTANCE StaffPromotions WITH
    PCustomer <- {m1, m2, m3}, POrder <- {o1, o2, o3, o4},
    Buyer <- (o1 :> m1 @@ o2 :> m1 @@ o3 :> m2 @@ o4 :> m3),
    Worth <- (o1 :> 1 @@ o2 :> 5 @@ o3 :> 1 @@ o4 :> 5), Total <- (o1 :> 3 @@ o2 :> 4 @@ o3 :> 3 @@ o4 :> 4),
    max_usage_per_user <- 1, max_total_usage <- 2, max_discount_amount <- 3, SPWorker <- {w1, w2}

\* Promotions and codes of every aim and type, refused ones too, and partial changes.
Draft == [kind |-> "promotion", type |-> "PERCENTAGE", value |-> 30, min |-> 0, from |-> 1, to |-> 2,
          target |-> "ALL_PRODUCTS", dishes |-> {}, categories |-> {}, gifts |-> {}, stores |-> {}, private |-> FALSE,
          levels |-> {}, perUser |-> 1, total |-> 2, status |-> "ACTIVE", deleted |-> FALSE]
OfferDrafts ==
    {[Draft EXCEPT !.stores = {"plateau"}, !.private = TRUE, !.levels = {"VIP"}],
     [Draft EXCEPT !.status = "DRAFT", !.from = 2, !.to = 3, !.target = "CATEGORIES", !.categories = {"hot"}],
     [Draft EXCEPT !.type = "BUY_X_GET_Y", !.value = 2, !.gifts = {"juice"}, !.perUser = 0],
     [Draft EXCEPT !.type = "FIXED_AMOUNT", !.min = 2, !.to = 1],
     [Draft EXCEPT !.kind = "code", !.value = 100, !.target = "SPECIFIC_PRODUCTS", !.dishes = {"wings"}],
     [Draft EXCEPT !.kind = "code", !.type = "FIXED_AMOUNT", !.value = 900, !.perUser = 2, !.from = 2, !.to = 3],
     [Draft EXCEPT !.kind = "code", !.value = 101], [Draft EXCEPT !.kind = "code", !.target = "CATEGORIES"],
     [Draft EXCEPT !.target = "CATEGORIES", !.dishes = {"wings"}]}
OfferChanges ==
    {("type" :> "PERCENTAGE" @@ "value" :> 90), ("value" :> 300), ("type" :> "PERCENTAGE"), ("target" :> "CATEGORIES"),
     ("target" :> "SPECIFIC_PRODUCTS" @@ "dishes" :> {"juice"}), ("dishes" :> {}), ("target" :> "ALL_PRODUCTS"),
     ("stores" :> {}), ("status" :> "ACTIVE" @@ "to" :> 3), ("type" :> "BUY_X_GET_Y" @@ "gifts" :> {"wings"})}

Catalogue == INSTANCE OfferCatalogue WITH
    Buyers <- (m1 :> "VIP" @@ m2 :> none), Plates <- ("wings" :> "hot" @@ "juice" :> "drinks"),
    Places <- {"plateau", "cocody"}, Drafts <- OfferDrafts, Changes <- OfferChanges,
    LastDay <- 3, MaxChanges <- 2, MaxUses <- 2, NoLevel <- none, NoOffer <- none

\* Orders that differ by what one of the statistics looks at, in a calendar of
\* months of ten days and of years of three months.
Sale == [id |-> 1, day |-> 17, half |-> 0, paied |-> TRUE, status |-> "COMPLETED", type |-> "DELIVERY", auto |-> TRUE,
         restaurant |-> "plateau", customer |-> m1, net |-> 3, fee |-> 1, service |-> "FREE", deleted |-> FALSE,
         hubrise |-> FALSE, accepted |-> 2, ready |-> 4, collected |-> 9, completed |-> 9, zone |-> "north",
         city |-> "north", method |-> "ONLINE", lines |-> ("wings" :> 2)]
SaleBook ==
    {[Sale EXCEPT !.id = 1, !.day = 5, !.customer = m2, !.lines = ("wings" :> 1 @@ "juice" :> 1)],
     [Sale EXCEPT !.id = 2, !.day = 10, !.auto = FALSE, !.restaurant = "cocody"],
     [Sale EXCEPT !.id = 3, !.day = 14, !.half = 1, !.type = "PICKUP", !.status = "COLLECTED", !.fee = 0,
                  !.accepted = -1, !.ready = -1, !.collected = -1, !.method = "OFFLINE"],
     [Sale EXCEPT !.id = 4, !.day = 15, !.customer = m2, !.service = "TURBO", !.fee = 2,
                  !.collected = 30, !.completed = 31],
     [Sale EXCEPT !.id = 5, !.day = 16, !.auto = FALSE, !.deleted = TRUE, !.zone = none, !.city = "unknown",
                  !.lines = ("juice" :> 3), !.net = 5],
     [Sale EXCEPT !.id = 6, !.restaurant = "cocody", !.hubrise = TRUE, !.auto = FALSE, !.customer = m3,
                  !.accepted = 0, !.ready = 0, !.collected = 0, !.fee = 0],
     [Sale EXCEPT !.id = 7, !.status = "CANCELLED", !.paied = FALSE, !.accepted = -1, !.ready = -1, !.collected = -1],
     [Sale EXCEPT !.id = 8, !.half = 1, !.net = 1, !.service = "CHICKEN_NATION", !.collected = -1, !.completed = 20, !.lines = ("soda" :> 1)],
     [Sale EXCEPT !.id = 9, !.half = 1, !.status = "READY", !.customer = m3, !.collected = -1, !.completed = -1]}

Ask(when, from, to, restaurant, type) ==
    [period |-> when, from |-> from, to |-> to, restaurant |-> restaurant, type |-> type, category |-> none]

Screens == INSTANCE Statistics WITH
    Sales <- SaleBook, Today <- 17, Half <- 1, MonthStarts <- {-20, -10, 0, 10, 20, 30, 40}, YearStarts <- {-20, 10, 40},
    Any <- none, NoTime <- -1, LateAfter <- 10, Since <- (m1 :> 1 @@ m2 :> 4 @@ m3 :> 20), LostAfter <- 2,
    Level <- (m1 :> "STANDARD" @@ m2 :> "VIP" @@ m3 :> "STANDARD"),
    Cities <- (m1 :> {"north", "south"} @@ m2 :> {} @@ m3 :> {"south"}),
    Dish <- ("wings" :> [price |-> 2, promotion |-> TRUE, reduced |-> 1, category |-> "hot", active |-> TRUE]
          @@ "juice" :> [price |-> 1, promotion |-> TRUE, reduced |-> -1, category |-> "drinks", active |-> TRUE]
          @@ "soda" :> [price |-> 1, promotion |-> FALSE, reduced |-> 1, category |-> "drinks", active |-> FALSE]),
    Queries <- {Ask("custom", 14, 17, none, none), Ask("custom", 5, 5, "plateau", none), Ask("custom", 9, 2, none, none),
                Ask("today", 0, 0, none, "PICKUP"), Ask("yesterday", 0, 0, none, none), Ask("week", 0, 0, "cocody", none),
                Ask("last_week", 0, 0, none, none), Ask("month", 0, 0, none, "DELIVERY"),
                Ask("last_month", 0, 0, none, none), Ask("year", 0, 0, none, none)},
    MaxBook <- 4

\* Customers that differ by what a segment looks at; segments with one filter, with
\* two, with none.
Bought(age, amount) == [age |-> age, amount |-> amount]
Person == [id |-> 1, active |-> TRUE, token |-> "valid", level |-> "STANDARD", points |-> 5, since |-> 3,
           cities |-> {"north"}, words |-> {}, orders |-> {}]
People ==
    {Person,
     [Person EXCEPT !.id = 2, !.level = "VVIP", !.points = 50, !.since = 90, !.words = {"awa"},
                    !.orders = {Bought(d, 12000) : d \in {7, 9, 30, 40, 50}}],
     [Person EXCEPT !.id = 3, !.level = "VIP", !.token = "broken", !.cities = {"north", "south"},
                    !.orders = {Bought(8, 50000)}],
     [Person EXCEPT !.id = 4, !.token = "none", !.words = {"awa"}, !.orders = {Bought(1, 3000)}],
     [Person EXCEPT !.id = 5, !.active = FALSE, !.level = "VIP", !.cities = {}, !.since = 90, !.orders = {Bought(30, 3000)}]}

To(type, config) == [type |-> type, config |-> config, personal |-> FALSE, later |-> FALSE]
Audience == INSTANCE PushAudience WITH
    Directory <- People, CityOf <- ("city_north" :> "north" @@ "city_south" :> "south"),
    Custom <- ("custom_1" :> {<<"contains", "awa">>, <<"no_order_days", 30>>, <<"max_points", 50>>, <<"registered_before", 30>>}
            @@ "custom_2" :> {<<"max_orders", 4>>, <<"max_spent", 50000>>, <<"min_spent", 3000>>, <<"last_order_days", 30>>,
                              <<"registered_after", 30>>, <<"min_points", 5>>, <<"city", "north">>}
            @@ "custom_3" :> {}),
    Wanted <- <<To("all", ""), To("segments", ""), [To("segment", "all") EXCEPT !.later = TRUE],
                [To("segment", "city_north") EXCEPT !.personal = TRUE], To("segment", "custom_3"),
                [To("filters", {<<"orders", 1>>, <<"city", "south">>, <<"age", 3>>}) EXCEPT !.personal = TRUE],
                To("filters", {<<"age", 3>>}), To("ids", {1, 3, 9})>>,
    Chunk <- 2, MaxPeople <- 3, MaxCampaigns <- 1

\* Dishes composed, reduced, of the night; three restaurants, the nearest one closed early
\* or without a dish; gifts; reductions of every type and target.
Course == [price |-> 2000, promotion |-> FALSE, reduced |-> -1, types |-> {}, from |-> 0, until |-> 0, groups |-> {},
           composable |-> FALSE, excluded |-> {}, category |-> "hot", active |-> TRUE]
Choice(items, low, high, missing) == [items |-> items, min |-> low, max |-> high, missing |-> missing]
Line(dish, quantity) == [dish |-> dish, quantity |-> quantity, supplements |-> <<>>, options |-> {}, gift |-> FALSE, offered |-> {}]
Of(id, quantity) == [id |-> id, quantity |-> quantity]
Reduction(type, value, target, concerned) ==
    [type |-> type, value |-> value, target |-> target, concerned |-> concerned, min |-> 0, max |-> 0,
     offered |-> ("juice" :> 1), levels |-> {}]

Basket == INSTANCE OrderBasket WITH
    Dish <- ("burger" :> [Course EXCEPT !.promotion = TRUE, !.reduced = 1500, !.composable = TRUE,
                             !.groups = {Choice("cola" :> 0 @@ "large" :> 500, 1, 1, {}),
                                         Choice("chili" :> 100 @@ "mayo" :> 0, 0, 1, {"chili"})}]
          @@ "wings" :> [Course EXCEPT !.from = 22, !.until = 2, !.excluded = {"cheese"}, !.promotion = TRUE]
          @@ "juice" :> [Course EXCEPT !.price = 500, !.category = "drinks", !.types = {"DELIVERY"}]),
    Supplement <- ("cheese" :> [price |-> 300, available |-> TRUE, types |-> {"DELIVERY"}]
                @@ "rice" :> [price |-> 200, available |-> TRUE, types |-> {}]
                @@ "corn" :> [price |-> 200, available |-> FALSE, types |-> {}]),
    Shop <- ("plateau" :> [active |-> TRUE, slots |-> {<<10, 15>>, <<18, 2>>}, distance |-> 1, unsold |-> {"wings"}]
          @@ "cocody" :> [active |-> TRUE, slots |-> {<<0, 23>>}, distance |-> 2, unsold |-> {}]
          @@ "bingerville" :> [active |-> FALSE, slots |-> {<<0, 23>>}, distance |-> 0, unsold |-> {}]),
    LineKinds <- {Line("wings", 2), Line("juice", 1), [Line("burger", 2) EXCEPT !.options = {"large", "mayo"}],
                  [Line("burger", 1) EXCEPT !.options = {"cola", "chili"}],
                  [Line("burger", 1) EXCEPT !.options = {"large"}, !.gift = TRUE],
                  [Line("wings", 1) EXCEPT !.supplements = <<Of("rice", 2), Of("cheese", 1)>>],
                  [Line("juice", 3) EXCEPT !.supplements = <<Of("rice", 2), Of("cheese", 1)>>, !.offered = {"rice"}],
                  [Line("juice", 2) EXCEPT !.supplements = <<Of("cheese", 2)>>],
                  [Line("juice", 1) EXCEPT !.supplements = <<Of("rice", 1), Of("rice", 1)>>],
                  [Line("juice", 1) EXCEPT !.options = {"large"}]},
    Promotions <- {[Reduction("PERCENTAGE", 20, "ALL_PRODUCTS", {}) EXCEPT !.max = 600],
                   [Reduction("PERCENTAGE", 30, "CATEGORIES", {"hot"}) EXCEPT !.min = 3000],
                   [Reduction("PERCENTAGE", 50, "SPECIFIC_PRODUCTS", {"juice"}) EXCEPT !.levels = {"VIP"}],
                   [Reduction("PERCENTAGE", 50, "SPECIFIC_PRODUCTS", {"juice", "burger"}) EXCEPT !.max = 700],
                   Reduction("FIXED_AMOUNT", 3000, "CATEGORIES", {"drinks"}),
                   [Reduction("BUY_X_GET_Y", 2, "SPECIFIC_PRODUCTS", {"wings", "juice"}) EXCEPT !.max = 400]},
    Codes <- {Reduction("PERCENTAGE", 30, "CATEGORIES", {"hot"}), Reduction("PERCENTAGE", 15, "ALL_PRODUCTS", {}),
              [Reduction("PERCENTAGE", 50, "SPECIFIC_PRODUCTS", {"juice", "burger"}) EXCEPT !.max = 700],
              [Reduction("FIXED_AMOUNT", 3000, "CATEGORIES", {"drinks"}) EXCEPT !.min = 1000]},
    Types <- {"DELIVERY", "PICKUP"}, Hours <- {1, 12, 23}, Levels <- {"STANDARD", "VIP"}, Given <- 0,
    MaxLines <- 3, NoPrice <- -1

\* One agent at a time, two conversations; two agents, one conversation.
Messages == INSTANCE Messaging WITH
    MCustomer <- {m1}, Employee <- {g1}, Backoffice <- {g2}, Text <- {"hello"}, MWorker <- {w1},
    MaxConversations <- 2, MaxMessages <- 2, MaxRetries <- 1, Anon <- none

MessagesAtOnce == INSTANCE Messaging WITH
    MCustomer <- {m1}, Employee <- {g1}, Backoffice <- {g2}, Text <- {"hello"}, MWorker <- {w1, w2},
    MaxConversations <- 1, MaxMessages <- 1, MaxRetries <- 1, Anon <- none

-----------------------------------------------------------------------------
lv == <<acct, ledger, past, lorder, lh, years, stops>>
cv == <<promo, usages, voucher, redemptions, cord, ch, errors>>
sv == <<sorder, draw, used, rewards, gift, due, sh, broken>>
rv == <<referral, giftOrder, closed, paid, late, earn, job, revoke, rh, retried>>
nv == <<cust, requests, cards, drawn, files, nh>>
kv == <<camp, given, recent, seen, kh>>
pv == <<now, plan, sent, batch, ph, switches>>
av == <<acc, docs, ah, expired, acts>>
schv == <<plans, shift, rest, byHand, planner, ans, handled, halts>>
callv == <<call, room, ui, hh, silent, rings, failures>>
gv == <<tick, game, tries, found, told, draws, winners, gifts, gh, crossed, undone, actions>>
fv == <<contacts, fh, sold, codes, attributed, callCards, stale, callsMade>>
qv == <<at, row, course, qh, refused, overlap, pressed>>
tv == <<till, callbacks, orders, customers, th, missed, doubled, counts>>
stv == <<tickets, queued, online, hd, there, reopened, handed, during, spent>>
bv == <<bill, pays, bh, feeAlone, shrunk, clash, bacts>>
mv == <<convs, msgs, mh, halted>>
ov == <<offer, uses, today, changed>>
spv == <<promotion, promoUses, placed, redeemed, sph, crossing>>

vars == <<focus, lv, cv, sv, rv, nv, kv, pv, av, period, schv, callv, gv, fv, qv, tv, stv, bv, request, asked, push, basket, mv, ov, spv>>

Init ==
    /\ focus \in Focus
    /\ Loyalty!LInit /\ Referral!RInit
    /\ IF focus = "failing coupon" THEN CouponErrors!CInit ELSE Coupon!CInit
    /\ IF focus = "gifts" THEN ScratchGifts!SInit ELSE Scratch!SInit
    /\ Cards!NInit /\ Campaigns!KInit /\ Pushes!PInit /\ Accounts!AInit
    /\ IF focus = "rotation" THEN Rotation!RestInit ELSE period = 0
    /\ Schedule!SchInit /\ Calls!CallInit
    /\ IF focus = "combo devices" THEN ComboDevices!GInit ELSE Combo!GInit
    /\ Prospects!FInit
    /\ IF focus = "ranking" THEN Ranking!QInit ELSE Queue!QInit
    /\ Till!TInit
    /\ IF focus = "support" THEN Support!STInit ELSE Support!STInit /\ online = {}
    /\ IF focus = "billing edits" THEN BillingEdits!BInit ELSE Billing!BInit
    /\ Promotion!SPInit
    /\ IF focus = "fees" THEN Fees!FeeInit ELSE request = none
    /\ Audience!PushInit
    /\ IF focus = "basket" THEN Basket!BasketInit ELSE basket = none
    /\ IF focus = "messaging at once" THEN MessagesAtOnce!MInit ELSE Messages!MInit
    /\ Catalogue!OfferInit
    /\ IF focus = "statistics" THEN Screens!StatInit ELSE asked = none

\* What the components of each group leave alone.
OthersA == UNCHANGED <<gv, fv, qv, tv, stv, bv, request, asked, push, basket, mv, ov, spv>>
OthersB == UNCHANGED <<lv, cv, sv, rv, nv, kv, pv, av, period, schv, callv>>

Next ==
    /\ focus' = focus
    /\ \/ /\ OthersA
          /\ \/ focus = "loyalty" /\ Loyalty!LNext /\ UNCHANGED <<cv, sv, rv, nv, kv, pv, av, period, schv, callv>>
             \/ focus = "coupons" /\ Coupon!CNext /\ UNCHANGED <<lv, sv, rv, nv, kv, pv, av, period, schv, callv>>
             \/ focus = "failing coupon" /\ CouponErrors!CNext /\ UNCHANGED <<lv, sv, rv, nv, kv, pv, av, period, schv, callv>>
             \/ focus = "gifts" /\ ScratchGifts!SNext /\ UNCHANGED <<lv, cv, rv, nv, kv, pv, av, period, schv, callv>>
             \/ focus = "scratch" /\ Scratch!SNext /\ UNCHANGED <<lv, cv, rv, nv, kv, pv, av, period, schv, callv>>
             \/ focus = "referral" /\ Referral!RNext /\ UNCHANGED <<lv, cv, sv, nv, kv, pv, av, period, schv, callv>>
             \/ focus = "cards" /\ Cards!NNext /\ UNCHANGED <<lv, cv, sv, rv, kv, pv, av, period, schv, callv>>
             \/ focus = "campaigns" /\ Campaigns!KNext /\ UNCHANGED <<lv, cv, sv, rv, nv, pv, av, period, schv, callv>>
             \/ focus = "pushes" /\ Pushes!PNext /\ UNCHANGED <<lv, cv, sv, rv, nv, kv, av, period, schv, callv>>
             \/ focus = "accounts" /\ Accounts!ANext /\ UNCHANGED <<lv, cv, sv, rv, nv, kv, pv, period, schv, callv>>
             \/ focus = "rotation" /\ Rotation!AnotherPeriod /\ UNCHANGED <<lv, cv, sv, rv, nv, kv, pv, av, schv, callv>>
             \/ focus = "schedule" /\ Schedule!SchNext /\ UNCHANGED <<lv, cv, sv, rv, nv, kv, pv, av, period, callv>>
             \/ focus = "calls" /\ Calls!CallNext /\ UNCHANGED <<lv, cv, sv, rv, nv, kv, pv, av, period, schv>>
       \/ /\ OthersB
          /\ \/ focus = "audience" /\ Audience!PushNext /\ UNCHANGED <<gv, fv, qv, tv, stv, bv, request, asked, basket, mv, ov, spv>>
             \/ focus = "combo" /\ Combo!GNext /\ UNCHANGED <<fv, qv, tv, stv, bv, request, asked, push, basket, mv, ov, spv>>
             \/ focus = "combo devices" /\ ComboDevices!GNext /\ UNCHANGED <<fv, qv, tv, stv, bv, request, asked, push, basket, mv, ov, spv>>
             \/ focus = "prospects" /\ Prospects!FNext /\ UNCHANGED <<gv, qv, tv, stv, bv, request, asked, push, basket, mv, ov, spv>>
             \/ focus = "queue" /\ Queue!QNext /\ UNCHANGED <<gv, fv, tv, stv, bv, request, asked, push, basket, mv, ov, spv>>
             \/ focus = "ranking" /\ Ranking!QNext /\ UNCHANGED <<gv, fv, tv, stv, bv, request, asked, push, basket, mv, ov, spv>>
             \/ focus = "till" /\ Till!TNext /\ UNCHANGED <<gv, fv, qv, stv, bv, request, asked, push, basket, mv, ov, spv>>
             \/ focus = "support" /\ Support!STNext /\ UNCHANGED <<gv, fv, qv, tv, bv, request, asked, push, basket, mv, ov, spv>>
             \/ focus = "billing" /\ Billing!BNext /\ UNCHANGED <<gv, fv, qv, tv, stv, request, asked, push, basket, mv, ov, spv>>
             \/ focus = "billing edits" /\ BillingEdits!BNext /\ UNCHANGED <<gv, fv, qv, tv, stv, request, asked, push, basket, mv, ov, spv>>
             \/ focus = "fees" /\ Fees!AnotherRequest /\ UNCHANGED <<gv, fv, qv, tv, stv, bv, asked, push, basket, mv, ov, spv>>
             \/ focus = "statistics" /\ Screens!AnotherSale /\ UNCHANGED <<gv, fv, qv, tv, stv, bv, request, push, basket, mv, ov, spv>>
             \/ focus = "basket" /\ Basket!AnotherLine /\ UNCHANGED <<gv, fv, qv, tv, stv, bv, request, asked, push, mv, ov, spv>>
             \/ focus = "messaging" /\ Messages!MNext /\ UNCHANGED <<gv, fv, qv, tv, stv, bv, request, asked, push, basket, ov, spv>>
             \/ focus = "messaging at once" /\ MessagesAtOnce!MNext /\ UNCHANGED <<gv, fv, qv, tv, stv, bv, request, asked, push, basket, ov, spv>>
             \/ focus = "offers" /\ Catalogue!OfferNext /\ UNCHANGED <<gv, fv, qv, tv, stv, bv, request, asked, push, basket, mv, spv>>
             \/ focus = "promotions" /\ Promotion!SPNext /\ UNCHANGED <<gv, fv, qv, tv, stv, bv, request, asked, push, basket, mv, ov>>

Spec == Init /\ [][Next]_vars

-----------------------------------------------------------------------------
(* Properties.  A component is judged in its own executions only: the rest *)
(* of the state is its initial one there.                                  *)

Sees(f, p) == focus = f => p

(* Type invariants of the components, with what each says of its rows: no  *)
(* earning without a payment, one open card request, one number per living *)
(* account, one process per distribution, shifts inside their plan.        *)
TypesOK ==
    /\ Sees("loyalty", Loyalty!LTypeOK)
    /\ Sees("coupons", Coupon!CTypeOK) /\ Sees("failing coupon", CouponErrors!CTypeOK)
    /\ Sees("scratch", Scratch!STypeOK) /\ Sees("gifts", ScratchGifts!STypeOK)
    /\ Sees("referral", Referral!RTypeOK)
    /\ Sees("cards", Cards!NTypeOK)
    /\ Sees("campaigns", Campaigns!KTypeOK)
    /\ Sees("pushes", Pushes!PTypeOK)
    /\ Sees("accounts", Accounts!ATypeOK)
    /\ Sees("schedule", Schedule!SchTypeOK)
    /\ Sees("calls", Calls!CallTypeOK)
    /\ Sees("combo", Combo!GTypeOK) /\ Sees("combo devices", ComboDevices!GTypeOK)
    /\ Sees("prospects", Prospects!FTypeOK)
    /\ Sees("queue", Queue!QTypeOK) /\ Sees("ranking", Ranking!QTypeOK)
    /\ Sees("till", Till!TTypeOK)
    /\ Sees("support", Support!STTypeOK)
    /\ Sees("billing", Billing!BTypeOK) /\ Sees("billing edits", BillingEdits!BTypeOK)
    /\ Sees("promotions", Promotion!SPTypeOK)
    /\ Sees("messaging", Messages!MTypeOK) /\ Sees("messaging at once", MessagesAtOnce!MTypeOK)

(* Every counter the code keeps beside the rows it counts agrees with them *)
(* wherever handlers interleave: points and their ledger, usages of a      *)
(* code, balance of a voucher, stock of the scratch game, ceiling of the   *)
(* referral earnings, attempts at the combo game, refusals of a livreur,   *)
(* tickets of an agent, uses of a promotion, figures of a campaign, dishes *)
(* sold on every screen that counts them.                                  *)
CountersAgree ==
    /\ Sees("loyalty", Loyalty!BalanceIsLedger /\ Loyalty!SpentIsRecorded)
    /\ Sees("coupons", Coupon!CountIsActive /\ Coupon!VoucherBalance)
    /\ Sees("failing coupon", CouponErrors!CountIsActive /\ CouponErrors!VoucherBalance)
    /\ Sees("scratch", Scratch!StockIsHeld /\ Scratch!NeverOversold)
    /\ Sees("gifts", ScratchGifts!StockIsHeld /\ ScratchGifts!NeverOversold)
    /\ Sees("referral", Referral!WithinCap)
    /\ Sees("combo", Combo!WithinAttempts) /\ Sees("combo devices", ComboDevices!WithinAttempts)
    /\ Sees("queue", Queue!RefusalsCounted /\ Queue!TooManyPauses)
    /\ Sees("support", Support!LoadWithinLimit)
    /\ Sees("promotions", Promotion!PromotionWithinLimits)
    /\ Sees("audience", Audience!FiguresAreBounded)
    /\ Sees("statistics", Screens!ProductsAgree)

(* What is given or done once is never given or done again by a repeated   *)
(* event, a second backend or a retry: redemption of an order, reward,     *)
(* voucher and gift of a draw, prime of a referral, campaign of a          *)
(* customer, run of a notification, plan of a week, answer to a call,      *)
(* draw of a game, coupon and sale of a contact, order of the till, ticket *)
(* in progress of a customer, conversation, message sent again.            *)
OnceOnly ==
    /\ Sees("loyalty", Loyalty!RedeemedOnce)
    /\ Sees("scratch", Scratch!OneRewardPerOrder /\ Scratch!OneVoucherPerReward)
    /\ Sees("gifts", ScratchGifts!OneVoucherPerReward /\ ScratchGifts!GiftUsedOnce)
    /\ Sees("referral", Referral!QualifyingEarnsPrimeOnly)
    /\ Sees("campaigns", Campaigns!DistributedOnce)
    /\ Sees("pushes", Pushes!RunSentOnce /\ Pushes!OnceSentOnce)
    /\ Sees("schedule", Schedule!OnePlanPerStart)
    /\ Sees("calls", Calls!OneAnswerer)
    /\ Sees("combo", Combo!OpeningToldOnce /\ Combo!DrawnOnce)
    /\ Sees("prospects", Prospects!OneCode /\ Prospects!SaleAttributedOnce)
    /\ Sees("till", Till!OneRowPerTillOrder)
    /\ Sees("support", Support!OneTicketInProgress)
    /\ Sees("messaging", Messages!OneConversation /\ Messages!NoRepeat)

(* Two records that must agree once their handlers are done do: level and  *)
(* points, accepted order and counted code, qualified referral and prime,  *)
(* card and request and image, campaign sent and customers reached, run    *)
(* sent and next date, validated account and courses offered, plan closed  *)
(* and shifts answered, call in progress and room, call over and pages,    *)
(* winner and gift, sale and contact, pause and queue, order and till,     *)
(* ticket and job, amount and parts, flag and payments, promotion granted  *)
(* and recorded, messages read and counted, written and told.  So do the   *)
(* screens that show the same rows: of the customers, the earnings of a    *)
(* referrer, the cards, the contacts, the reductions and their uses.       *)
RecordsAgree ==
    /\ Sees("loyalty", Loyalty!LevelFollowsStatus)
    /\ Sees("coupons", Coupon!AcceptedIsCounted)
    /\ Sees("failing coupon", CouponErrors!AcceptedIsCounted)
    /\ Sees("referral", Referral!PrimeIsAccruedAtOnce /\ Referral!DashboardsAgree)
    /\ Sees("cards", Cards!ImageExists /\ Cards!CardIsApproved /\ Cards!CardScreensAgree)
    /\ Sees("campaigns", Campaigns!SentIsComplete)
    /\ Sees("pushes", Pushes!RunIsOver)
    /\ Sees("accounts", Accounts!OperationalIsSound /\ Accounts!ValidatedIsOperational)
    /\ Sees("schedule", Schedule!ClosedIsAnswered)
    /\ Sees("calls", Calls!OngoingHasRoom /\ Calls!EveryoneIsTold)
    /\ Sees("combo", Combo!WinnersHaveOneGift)
    /\ Sees("prospects", Prospects!SaleIsKept /\ Prospects!ProspectScreensAgree)
    /\ Sees("queue", Queue!PausedIsOut)
    /\ Sees("till", Till!RowFollowsTill /\ Till!MissedForAReason)
    /\ Sees("support", Support!WaitingIsCovered)
    /\ Sees("billing", Billing!AmountIsItsParts /\ Billing!FlagFollowsPayments)
    /\ Sees("billing edits", BillingEdits!AmountIsItsParts /\ BillingEdits!FlagFollowsPayments)
    /\ Sees("statistics", Screens!ClientsAgree)
    /\ Sees("offers", Catalogue!OfferIsCoherent /\ Catalogue!ListedIsUsable /\ Catalogue!UsagesAgree)
    /\ Sees("promotions", Promotion!GrantedIsRecorded /\ Promotion!PointsFollowPromotion)
    /\ Sees("messaging", Messages!InboxAgrees /\ Messages!OnlyColleaguesRead /\ Messages!RightPeopleTold)
    /\ Sees("messaging at once",
            MessagesAtOnce!InboxAgrees /\ MessagesAtOnce!OnlyColleaguesRead /\ MessagesAtOnce!RightPeopleTold)

(* What is computed is what it should be: the rest days of a team are      *)
(* outside the forbidden days, reach every livreur every week and are      *)
(* staggered; of two equal livreurs the one who waits longer is offered    *)
(* the course; the fee of a delivery is the lowest of the offers, grows    *)
(* with the distance and is accounted for; an order owes nothing; the      *)
(* screens of the back office show the same orders, revenues, fees and     *)
(* times, or differ by what is known; the segments of the push campaigns   *)
(* count whom they reach and share out the customers; a basket costs the   *)
(* same for the back office and for the application, and its reductions    *)
(* stay within it.                                                         *)
ComputationsAreSound ==
    /\ Sees("rotation", Rotation!NoRestOnBusyDays /\ Rotation!EveryoneRests /\ Rotation!RestIsStaggered)
    /\ Sees("ranking", Ranking!FirstInFirstOffered)
    /\ Sees("fees", Fees!BestOfferApplies /\ Fees!CloserIsNotDearer /\ Fees!FeeIsAccounted)
    /\ Sees("statistics", Screens!PeriodsAreSound /\ Screens!TotalsAgree /\ Screens!DeliveriesAgree)
    /\ Sees("statistics", Screens!TimesAgree /\ Screens!DifferencesAreKnown)
    /\ Sees("audience", Audience!CountsTellReach /\ Audience!SegmentsShareOut)
    /\ Sees("basket", Basket!PathsAgree /\ Basket!PartsAddUp /\ Basket!ReductionsWithin)
    /\ Sees("billing", Billing!NothingOwedToCustomer)
    /\ Sees("billing edits", BillingEdits!NothingOwedToCustomer)

(* What was settled is not taken back: a level before the yearly reset, an *)
(* earning paid or cancelled, a shift refused, a call that is over, the    *)
(* progress of a contact; who has a coupon is not called again, and a paid *)
(* order is not deleted.                                                   *)
NothingTakenBack ==
    /\ Loyalty!LevelFallsAtReset
    /\ Referral!EarningIsFinal
    /\ Schedule!RefusalIsFinal
    /\ Calls!OverIsOver
    /\ Prospects!FunnelForward
    /\ Prospects!CouponNotCalledAgain
    /\ Billing!DeletedWasUnpaid

(* "le retry BullMQ finit par accrediter" (referral.service.ts:243): once  *)
(* its job is over, the order that qualified a referral has its prime.     *)
PrimeIsAccrued == Referral!PrimeIsAccrued
=============================================================================
