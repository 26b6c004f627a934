---------------------------- MODULE ProspectFunnel ----------------------------
(***************************************************************************)
(* Contacts taken from Glovo and Yango orders: an agent of the call center *)
(* calls them and sends a coupon, and they move on to INSCRIT and CONVERTI *)
(* when the customer signs up and pays a first order.  One person may have *)
(* several contacts, one per order captured, with the same phone.          *)
(*                                                                         *)
(* The agents read a contact and write it by id; the listeners of the      *)
(* events claim it by its status.                                          *)
(***************************************************************************)
EXTENDS Naturals, SequencesExt, FiniteSetsExt

CONSTANTS
    Phone, Sale,         \* phones; paid orders
    StoreOf, Scope,      \* restaurant of the n-th contact; those a user sees: its own, one, all
    Agent,               \* agents of the call center
    Listener,            \* processes that handle the events of orders and customers
    MaxContacts,         \* bound: contacts
    MaxCalls,            \* bound: calls and coupons
    MaxMessages,         \* bound: messages to a contact
    Nothing

VARIABLES
    contacts,            \* the Prospect rows
    fh,                  \* the handler each agent and listener is in
    sold,                \* orders whose event was emitted
    codes,               \* promo codes created for each contact
    attributed,          \* the orders each contact was converted by, in order
    cards,               \* the call queue an agent looks at, with the restaurants it looks at
    stale,               \* contacts moved on by a listener in the back of an agent
    callsMade

fvars == <<contacts, fh, sold, codes, attributed, cards, stale, callsMade>>

FIdle == [pc |-> "idle", row |-> 0]
Treated == {"COUPON_ENVOYE", "INSCRIT", "CONVERTI"}
ToCall == {"NOUVEAU", "A_APPELER", "NON_JOIGNABLE", "JOINT"}
Stage(s) == CASE s = "COUPON_ENVOYE" -> 1 [] s = "INSCRIT" -> 2 [] s = "CONVERTI" -> 3 [] OTHER -> 0

NoQueue == [rows |-> {}, stores |-> {}]

FInit ==
    /\ contacts = <<>>
    /\ fh = [w \in Agent \union Listener |-> FIdle]
    /\ sold = {} /\ codes = <<>> /\ attributed = <<>>
    /\ cards = NoQueue /\ stale = {} /\ callsMade = 0

FAt(w, pc) == fh[w].pc = pc
FRest(w) == fh' = [fh EXCEPT ![w] = FIdle]

In(stores) == {i \in DOMAIN contacts : StoreOf[i] \in stores}

\* Shown before the entry; it does not forbid it.
checkPhone(phone, stores) == {i \in In(stores) : contacts[i].phone = phone}

create(phone) ==
    /\ Len(contacts) < MaxContacts
    /\ contacts' = Append(contacts, [phone |-> phone, status |-> "NOUVEAU", coupon |-> FALSE,
                                     joined |-> FALSE, messages |-> 0])
    /\ codes' = Append(codes, 0) /\ attributed' = Append(attributed, <<>>)
    /\ UNCHANGED <<fh, sold, cards, stale, callsMade>>

-----------------------------------------------------------------------------
(* The call center.                                                        *)

Begins(w) ==
    /\ fh[w] = FIdle /\ callsMade < MaxCalls
    /\ callsMade' = callsMade + 1 /\ cards' = NoQueue

(* The treated phones, then the contacts still to call; one card a phone,  *)
(* that of a contact already joined first, the oldest otherwise.           *)
StartQueue(w, stores) ==
    /\ Begins(w)
    /\ fh' = [fh EXCEPT ![w] = [pc |-> "queue", row |-> 0, stores |-> stores, away |->
          {contacts[i].phone : i \in {j \in In(stores) : contacts[j].status \in Treated}}]]
    /\ UNCHANGED <<contacts, sold, codes, attributed, stale>>

Card(rows) ==
    LET joined == {i \in rows : contacts[i].status = "JOINT"}
    IN Min(IF joined # {} THEN joined ELSE rows)

getCallQueue(w) ==
    LET waiting == {i \in In(fh[w].stores) : contacts[i].status \in ToCall /\ contacts[i].phone \notin fh[w].away}
    IN /\ FAt(w, "queue") /\ FRest(w)
       /\ cards' = [stores |-> fh[w].stores,
                    rows |-> {Card({i \in waiting : contacts[i].phone = p}) : p \in {contacts[i].phone : i \in waiting}}]
       /\ UNCHANGED <<contacts, sold, codes, attributed, stale, callsMade>>

(* The status to write is decided on the contact as it was read.           *)
StartCall(w, i, result) ==
    /\ Begins(w)
    /\ fh' = [fh EXCEPT ![w] = [pc |-> "mark", row |-> i, joined |-> result = "JOINT", status |->
          IF contacts[i].status \in Treated THEN contacts[i].status ELSE result]]
    /\ UNCHANGED <<contacts, sold, codes, attributed, stale>>

markCall(w) ==
    /\ FAt(w, "mark") /\ FRest(w)
    /\ contacts' = [contacts EXCEPT ![fh[w].row] = [@ EXCEPT !.status = fh[w].status, !.joined = @ \/ fh[w].joined]]
    /\ UNCHANGED <<sold, codes, attributed, cards, stale, callsMade>>

StartCoupon(w, i) ==
    /\ Begins(w)
    /\ contacts[i].status = "JOINT" /\ ~contacts[i].coupon
    /\ fh' = [fh EXCEPT ![w] = [pc |-> "code", row |-> i]]
    /\ UNCHANGED <<contacts, sold, codes, attributed, stale>>

(* The code exists before the message is sent and the contact written.     *)
CreateCode(w) ==
    /\ FAt(w, "code")
    /\ codes' = [codes EXCEPT ![fh[w].row] = @ + 1]
    /\ fh' = [fh EXCEPT ![w].pc = "send"]
    /\ UNCHANGED <<contacts, sold, attributed, cards, stale, callsMade>>

sendCoupon(w) ==
    /\ FAt(w, "send") /\ FRest(w)
    /\ contacts' = [contacts EXCEPT ![fh[w].row] = [@ EXCEPT !.coupon = TRUE, !.status = "COUPON_ENVOYE",
                                                                !.messages = @ + 1]]
    /\ UNCHANGED <<sold, codes, attributed, cards, stale, callsMade>>

(* The same code again, in the words of a reminder.                        *)
resendCoupon(i) ==
    /\ callsMade < MaxCalls /\ callsMade' = callsMade + 1
    /\ contacts[i].coupon /\ contacts[i].messages < MaxMessages
    /\ contacts' = [contacts EXCEPT ![i].messages = @ + 1]
    /\ UNCHANGED <<fh, sold, codes, attributed, cards, stale>>

-----------------------------------------------------------------------------
(* The listeners: find a contact, then claim it by its status.             *)

Oldest(phone, past) ==
    {i \in DOMAIN contacts : /\ contacts[i].phone = phone /\ contacts[i].status \notin past
                             /\ \A j \in 1 .. (i - 1) : contacts[j].phone # phone \/ contacts[j].status \in past}

(* The contact whose coupon the order used, or the oldest with its phone.  *)
StartConversion(w, o, phone) ==
    /\ fh[w] = FIdle /\ o \notin sold /\ sold' = sold \union {o}
    /\ \E i \in {j \in DOMAIN contacts : contacts[j].coupon /\ contacts[j].status # "CONVERTI"}
                 \union Oldest(phone, {"CONVERTI"}) :
          fh' = [fh EXCEPT ![w] = [pc |-> "convert", row |-> i, order |-> o]]
    /\ UNCHANGED <<contacts, codes, attributed, cards, stale, callsMade>>

Overtaken(i) == IF \E w \in Agent : fh[w].row = i THEN stale \union {i} ELSE stale

onOrderCreated(w) ==
    LET i == fh[w].row IN
    /\ FAt(w, "convert") /\ FRest(w)
    /\ IF contacts[i].status # "CONVERTI"
       THEN /\ contacts' = [contacts EXCEPT ![i].status = "CONVERTI"]
            /\ attributed' = [attributed EXCEPT ![i] = Append(@, fh[w].order)]
            /\ stale' = Overtaken(i)
       ELSE UNCHANGED <<contacts, attributed, stale>>
    /\ UNCHANGED <<sold, codes, cards, callsMade>>

StartSignUp(w, phone) ==
    /\ fh[w] = FIdle
    /\ \E i \in Oldest(phone, {"INSCRIT", "CONVERTI"}) : fh' = [fh EXCEPT ![w] = [pc |-> "register", row |-> i]]
    /\ UNCHANGED <<contacts, sold, codes, attributed, cards, stale, callsMade>>

onCustomerCreated(w) ==
    LET i == fh[w].row IN
    /\ FAt(w, "register") /\ FRest(w)
    /\ IF contacts[i].status \notin {"INSCRIT", "CONVERTI"}
       THEN contacts' = [contacts EXCEPT ![i].status = "INSCRIT"] /\ stale' = Overtaken(i)
       ELSE UNCHANGED <<contacts, stale>>
    /\ UNCHANGED <<sold, codes, attributed, cards, callsMade>>

-----------------------------------------------------------------------------
(* The screens of the operation.                                           *)

Converted(i) == attributed[i] # <<>>
findOne(i) == [contact |-> contacts[i], code |-> codes[i], sale |-> attributed[i]]
findAll(stores, status) == {i \in In(stores) : status = Nothing \/ contacts[i].status = status}

getStats(stores) ==
    LET seen == In(stores)
        coupons == {i \in seen : contacts[i].coupon}
        sales == {i \in seen : Converted(i)}
    IN [saisis |-> Cardinality(seen),
        verifies |-> Cardinality({i \in seen : contacts[i].joined}),
        coupon_envoye |-> Cardinality(coupons),
        convertis |-> Cardinality(sales),
        couponsUsed |-> Cardinality(coupons \intersect sales),
        by_store |-> [x \in {StoreOf[i] : i \in seen} |->
            [total |-> Cardinality(seen \intersect In({x})), converted |-> Cardinality(sales \intersect In({x}))]]]

\* The date of the sign-up is not kept.  A coupon shows as used when its contact bought, with it or without.
getCoupons(stores) ==
    [i \in {j \in In(stores) : contacts[j].coupon} |-> IF Converted(i) THEN "USED" ELSE "ACTIVE"]
getSales(stores) == {i \in In(stores) : Converted(i)}

exportCsv(type, stores) ==
    CASE type = "coupons" -> DOMAIN getCoupons(stores)
      [] type = "sales" -> getSales(stores)
      [] OTHER -> findAll(stores, Nothing)

-----------------------------------------------------------------------------
FNext ==
    \/ \E p \in Phone : create(p)
    \/ \E w \in Agent :
          \/ getCallQueue(w) \/ markCall(w) \/ CreateCode(w) \/ sendCoupon(w)
          \/ \E stores \in Scope : StartQueue(w, stores)
          \/ \E i \in DOMAIN contacts :
                StartCoupon(w, i) \/ \E r \in {"JOINT", "NON_JOIGNABLE", "REFUS"} : StartCall(w, i, r)
    \/ \E i \in DOMAIN contacts : resendCoupon(i)
    \/ \E w \in Listener :
          \/ onOrderCreated(w) \/ onCustomerCreated(w)
          \/ \E p \in Phone : StartSignUp(w, p) \/ \E o \in Sale : StartConversion(w, o, p)

FSpec == FInit /\ [][FNext]_fvars

-----------------------------------------------------------------------------
(* Properties.                                                             *)

(* Types of the rows.                                                      *)
FTypeOK ==
    /\ \A i \in DOMAIN contacts : contacts[i].status \in ToCall \union Treated \union {"REFUS"}
    /\ cards.rows \subseteq In(cards.stores) /\ sold \subseteq Sale

(* A sale is attributed to one contact, and a contact has one sale unless  *)
(* an agent put a converted contact back with what it had read before.     *)
SaleAttributedOnce ==
    /\ \A i \in DOMAIN contacts : i \notin stale => Len(attributed[i]) <= 1
    /\ \A i, j \in DOMAIN contacts : ToSet(attributed[i]) \intersect ToSet(attributed[j]) # {} => i = j

(* A converted contact stays converted, whatever calls and sign-ups follow *)
(* it, but for an agent that had read it before.                           *)
SaleIsKept ==
    \A i \in DOMAIN contacts : attributed[i] # <<>> /\ i \notin stale => contacts[i].status = "CONVERTI"

(* "un seul coupon actif": with one agent at a time, the contact has one   *)
(* code, and the code it holds exists.                                     *)
OneCode == \A i \in DOMAIN contacts : codes[i] <= 1 /\ (contacts[i].coupon => codes[i] = 1)

(* The screens tell one funnel: a coupon follows a call that joined the    *)
(* person and a message, the figures are those of the lists and files, the *)
(* restaurants add up to the whole, and who bought is listed CONVERTI.     *)
ProspectScreensAgree ==
    /\ \A stores \in Scope :
          LET stats == getStats(stores)
              coupons == getCoupons(stores)
              listed == findAll(stores, "CONVERTI")
          IN /\ stats.coupon_envoye <= stats.verifies /\ stats.verifies <= stats.saisis
             /\ stats.coupon_envoye = Cardinality(exportCsv("coupons", stores))
             /\ stats.convertis = Cardinality(exportCsv("sales", stores))
             /\ stats.saisis = Cardinality(exportCsv("contacts", stores))
             /\ stats.couponsUsed = Cardinality({i \in DOMAIN coupons : coupons[i] = "USED"})
             /\ listed \subseteq getSales(stores) /\ getSales(stores) \ listed \subseteq stale
             /\ \A x \in DOMAIN stats.by_store :
                   stats.by_store[x] = [total |-> getStats({x}).saisis, converted |-> getStats({x}).convertis]
    /\ \A i \in DOMAIN contacts : contacts[i].coupon <=> findOne(i).contact.messages > 0

(* "ne doit JAMAIS etre rappele": a person who was sent a coupon for one   *)
(* order is in no call queue opened since, whatever contact a later order  *)
(* of the same phone has created, among the restaurants the queue looks    *)
(* at: the agent of a restaurant still calls who has another's coupon.     *)
CouponNotCalledAgain ==
    [][cards' # cards =>
          \A i \in cards'.rows, j \in In(cards'.stores) :
              contacts[j].phone = contacts[i].phone => ~contacts[j].coupon]_fvars

(* A contact never goes back in the funnel, unless an agent wrote what it  *)
(* had read before a listener moved the contact on.                        *)
FunnelForward ==
    [][\A i \in DOMAIN contacts :
          i \notin stale => Stage(contacts'[i].status) >= Stage(contacts[i].status)]_fvars
=============================================================================
