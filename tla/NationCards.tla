------------------------------ MODULE NationCards ------------------------------
(***************************************************************************)
(* The "Carte de la Nation" of one customer: requests made in the app,     *)
(* reviewed by the back office, and the card they produce.  A request made *)
(* while a card is active is a revision: it redraws that card.  A card is  *)
(* also redrawn by the back office and when the customer changes level.    *)
(* Drawing uploads a new image; the one it replaces is then deleted.       *)
(***************************************************************************)
EXTENDS Naturals, Sequences, FiniteSets, TLC

CONSTANTS
    NWorker, NKinds, \* the handlers each worker runs
    MaxRequests, MaxCards, MaxImages \* bounds on the rows and drawings

VARIABLES
    cust,            \* is the profile of the customer a student's?
    requests,        \* CardRequest rows
    cards,           \* NationCard rows, "GONE" when deleted
    drawn, files,    \* images drawn so far and those that exist
    nh

nvars == <<cust, requests, cards, drawn, files, nh>>

NIdle == [pc |-> "idle"]

NInit ==
    /\ cust = FALSE
    /\ requests = <<>> /\ cards = <<>>
    /\ drawn = 0 /\ files = {}
    /\ nh = [w \in NWorker |-> NIdle]

Open == {r \in DOMAIN requests : requests[r].status \in {"PENDING", "IN_REVIEW"}}
ActiveCards == {c \in DOMAIN cards : cards[c].status = "ACTIVE"}
NFree(w, k) == nh[w] = NIdle /\ k \in NKinds[w]
NGo(w, rec) == nh' = [nh EXCEPT ![w] = rec]

-----------------------------------------------------------------------------
(* createRequest: what is open and which card is active are read first; an *)
(* index refuses a second open request.                                    *)

createRequest(w, student) ==
    /\ NFree(w, "request") /\ Open = {}
    /\ NGo(w, [pc |-> "post", revision |-> ActiveCards # {}, student |-> student])
    /\ UNCHANGED <<cust, requests, cards, drawn, files>>

PostRequest(w) ==
    /\ nh[w].pc = "post" /\ NGo(w, NIdle)
    /\ \/ Open # {} /\ UNCHANGED requests
       \/ /\ Open = {} /\ Len(requests) < MaxRequests
          /\ requests' = Append(requests, [status |-> IF nh[w].revision THEN "IN_REVIEW" ELSE "PENDING",
                                           student |-> nh[w].student])
    /\ UNCHANGED <<cust, cards, drawn, files>>

-----------------------------------------------------------------------------
(* reviewRequest: the decision is written, and an approval draws the card. *)

reviewRequest(w, r) ==
    /\ NFree(w, "review") /\ r \in Open
    /\ \E student \in BOOLEAN :
         NGo(w, [pc |-> "decide", req |-> r, revision |-> requests[r].status = "IN_REVIEW",
                 student |-> student])
    /\ UNCHANGED <<cust, requests, cards, drawn, files>>

Decide(w) ==
    LET r == nh[w].req IN
    /\ nh[w].pc = "decide"
    /\ \/ requests[r].status = "GONE" /\ NGo(w, NIdle) /\ UNCHANGED requests
       \/ /\ requests[r].status # "GONE"
          /\ requests' = [requests EXCEPT ![r].status = "REJECTED"] /\ NGo(w, NIdle)
       \/ /\ requests[r].status # "GONE"
          /\ requests' = [requests EXCEPT ![r].status = "APPROVED"]
          /\ \/ /\ nh[w].revision
                /\ \E c \in ActiveCards :
                     NGo(w, [pc |-> "draw", card |-> c, req |-> r, profile |-> TRUE, clean |-> TRUE,
                             student |-> nh[w].student, old |-> cards[c].image])
             \/ /\ ~nh[w].revision \/ ActiveCards = {}
                /\ NGo(w, [pc |-> "draw", card |-> 0, req |-> r, profile |-> TRUE, clean |-> FALSE,
                           student |-> nh[w].student, old |-> 0])
    /\ UNCHANGED <<cust, cards, drawn, files>>

-----------------------------------------------------------------------------
(* The redrawing of a card: by the staff, or to follow the level.          *)

regenerateCard(w, c) ==
    /\ NFree(w, "redraw") /\ cards[c].status # "GONE"
    /\ \E student \in BOOLEAN :
         NGo(w, [pc |-> "draw", card |-> c, req |-> 0, profile |-> TRUE, clean |-> TRUE,
                 student |-> student, old |-> cards[c].image])
    /\ UNCHANGED <<cust, requests, cards, drawn, files>>

(* At a change of level, or at the reading of the card when the level it   *)
(* shows is not the one of the customer; the profile comes from the        *)
(* request.  Levels themselves are not kept: one may change at any time.   *)
regenerateActiveCard(w, c) ==
    LET student == requests[cards[c].req].student IN
    /\ NFree(w, "redraw") /\ c \in ActiveCards
    /\ NGo(w, [pc |-> "draw", card |-> c, req |-> 0, profile |-> FALSE, clean |-> FALSE,
               student |-> student, old |-> cards[c].image])
    /\ UNCHANGED <<cust, requests, cards, drawn, files>>

generateCardImage(w) ==
    /\ nh[w].pc = "draw" /\ drawn < MaxImages
    /\ drawn' = drawn + 1 /\ files' = files \union {drawn'}
    /\ NGo(w, [nh[w] EXCEPT !.pc = "write"] @@ ("image" :> drawn'))
    /\ UNCHANGED <<cust, requests, cards>>

DrawingFails(w) ==
    /\ nh[w].pc = "draw" /\ NGo(w, NIdle)
    /\ UNCHANGED <<cust, requests, cards, drawn, files>>

-----------------------------------------------------------------------------
(* The card is written, then the profile of the customer, then the image   *)
(* that is no longer referenced is deleted.                                *)

(* Mutant: the image deleted is the one the card has by then.              *)
DeleteCurrent(w) ==
    LET h == nh[w] IN
    /\ h.pc = "clean" /\ NGo(w, NIdle)
    /\ files' = files \ {cards[h.card].image}
    /\ UNCHANGED <<cust, requests, cards, drawn>>

NewCard(h) == [req |-> h.req, status |-> "ACTIVE", student |-> h.student, image |-> h.image]
Redrawn(card, h) ==
    [card EXCEPT !.req = IF h.req = 0 THEN @ ELSE h.req, !.student = h.student, !.image = h.image]

WriteCard(w) ==
    LET h == nh[w]
        taken == \E c \in DOMAIN cards : c # h.card /\ cards[c].req = h.req /\ cards[c].status # "GONE"
        gone == \/ h.req # 0 /\ (taken \/ requests[h.req].status = "GONE")
                \/ h.card # 0 /\ cards[h.card].status = "GONE"
    IN /\ h.pc = "write"
       /\ \/ gone /\ NGo(w, NIdle) /\ UNCHANGED cards
          \/ /\ ~gone /\ h.card = 0 /\ Len(cards) < MaxCards
             /\ cards' = Append(cards, NewCard(h))
             /\ NGo(w, [h EXCEPT !.pc = "profile"])
          \/ /\ ~gone /\ h.card # 0
             /\ cards' = [cards EXCEPT ![h.card] = Redrawn(@, h)]
             /\ NGo(w, IF h.profile THEN [h EXCEPT !.pc = "profile"] ELSE NIdle)
       /\ UNCHANGED <<cust, requests, drawn, files>>

AlignProfile(w) ==
    /\ nh[w].pc = "profile"
    /\ cust' = nh[w].student
    /\ NGo(w, IF nh[w].clean THEN [nh[w] EXCEPT !.pc = "clean"] ELSE NIdle)
    /\ UNCHANGED <<requests, cards, drawn, files>>

DeletePrevious(w) ==
    LET h == nh[w] IN
    /\ h.pc = "clean" /\ NGo(w, NIdle)
    /\ files' = files \ {h.old}
    /\ UNCHANGED <<cust, requests, cards, drawn>>

-----------------------------------------------------------------------------
(* The back office: suspends (or revokes), activates, deletes.             *)

updateCardStatus(c, s) ==
    /\ cards[c].status \notin {"GONE", s}
    /\ cards' = [cards EXCEPT ![c].status = s]
    /\ UNCHANGED <<cust, requests, drawn, files, nh>>

deleteRequest(r) ==
    LET mine == {c \in DOMAIN cards : cards[c].req = r /\ cards[c].status # "GONE"} IN
    /\ requests[r].status # "GONE"
    /\ requests' = [requests EXCEPT ![r].status = "GONE"]
    /\ cards' = [c \in DOMAIN cards |-> IF c \in mine THEN [cards[c] EXCEPT !.status = "GONE"] ELSE cards[c]]
    /\ files' = files \ {cards[c].image : c \in mine}
    /\ UNCHANGED <<cust, drawn, nh>>

deleteCard(c) ==
    /\ cards[c].status # "GONE"
    /\ cards' = [cards EXCEPT ![c].status = "GONE"]
    /\ files' = files \ {cards[c].image}
    /\ UNCHANGED <<cust, requests, drawn, nh>>

-----------------------------------------------------------------------------
(* What the application and the back office show.                          *)

Kept == {r \in DOMAIN requests : requests[r].status # "GONE"}
Existing == {c \in DOMAIN cards : cards[c].status # "GONE"}
CardOf(r) == {c \in Existing : cards[c].req = r}

\* Sorted from the newest, cut in pages.
Page(rows, page, limit) == {x \in rows : Cardinality({y \in rows : y > x}) \div limit = page - 1}
PageCount(rows, limit) == (Cardinality(rows) + limit - 1) \div limit

getMyRequest == Page(Kept, 1, 1)
getMyCard == Page(ActiveCards, 1, 1)
getRequestById(r) == [request |-> requests[r], card |-> CardOf(r)]
getCardById(c) == [card |-> cards[c], request |-> requests[cards[c].req]]
getAllRequests(status, page, limit) ==
    LET found == {r \in Kept : status \in {"ANY", requests[r].status}} IN
    [data |-> [r \in Page(found, page, limit) |-> getRequestById(r)],
     total |-> Cardinality(found), totalPages |-> PageCount(found, limit)]

getAllCards(status, page, limit) ==
    LET found == {c \in Existing : status \in {"ANY", cards[c].status}} IN
    [data |-> [c \in Page(found, page, limit) |-> getCardById(c)],
     total |-> Cardinality(found), totalPages |-> PageCount(found, limit)]

\* One row for each card; a phone number is not looked for here.
exportCardsToExcel(status, byPhone) ==
    IF byPhone THEN {} ELSE {c \in Existing : status \in {"ANY", cards[c].status}}

-----------------------------------------------------------------------------
CardStep(w) ==
    \/ PostRequest(w) \/ Decide(w) \/ generateCardImage(w) \/ DrawingFails(w)
    \/ WriteCard(w) \/ AlignProfile(w) \/ DeletePrevious(w)

NNext ==
    \/ \E w \in NWorker : CardStep(w) \/ \E student \in BOOLEAN : createRequest(w, student)
    \/ \E w \in NWorker : \/ \E r \in DOMAIN requests : reviewRequest(w, r)
                          \/ \E c \in DOMAIN cards : regenerateCard(w, c) \/ regenerateActiveCard(w, c)
    \/ \E c \in DOMAIN cards :
          deleteCard(c) \/ \E s \in {"ACTIVE", "SUSPENDED"} : updateCardStatus(c, s)
    \/ \E r \in DOMAIN requests : deleteRequest(r)

NSpec == NInit /\ [][NNext]_nvars

-----------------------------------------------------------------------------
(* Properties.                                                             *)

(* Types of the variables; an existing card has an existing request of its *)
(* own, and at most one request is open.                                   *)
NTypeOK ==
    /\ cust \in BOOLEAN
    /\ files \subseteq 1 .. drawn
    /\ Cardinality(Open) <= 1
    /\ \A c \in Existing : requests[cards[c].req].status # "GONE"
    /\ \A c, d \in Existing : cards[c].req = cards[d].req => c = d

(* The image a card shows is never one that a concurrent redrawing or      *)
(* revision has cleaned up.                                                *)
ImageExists == \A c \in Existing : cards[c].image \in files

(* A card stands on an approved request, also after a revision that was    *)
(* refused or whose drawing failed.                                        *)
CardIsApproved == \A c \in Existing : requests[cards[c].req].status = "APPROVED"

(* The screens tell one story: who is shown a card is shown a request, a   *)
(* card is shown under one request and shows it, every row is on one page  *)
(* of its list, and the export holds what the pages of the list hold.      *)
CardScreensAgree == (\A w \in NWorker : nh[w] = NIdle) =>
    /\ getMyCard # {} => getMyRequest # {}
    /\ \A c \in Existing : {r \in Kept : c \in getRequestById(r).card} = {cards[c].req}
    /\ \A r \in Kept : \A c \in getRequestById(r).card : getCardById(c).request = requests[r]
    /\ \A status \in {"ANY", "ACTIVE", "SUSPENDED", "APPROVED", "REJECTED"}, limit \in 1 .. 2 :
          LET list == getAllCards(status, 1, limit)
              asks == getAllRequests(status, 1, limit)
              cardsOn(p) == DOMAIN getAllCards(status, p, limit).data
              asksOn(p) == DOMAIN getAllRequests(status, p, limit).data
          IN /\ UNION {cardsOn(p) : p \in 1 .. list.totalPages} = exportCardsToExcel(status, FALSE)
             /\ list.total = Cardinality(exportCardsToExcel(status, FALSE))
             /\ \A p, o \in 1 .. asks.totalPages : p # o => asksOn(p) \intersect asksOn(o) = {}
             /\ asks.total = Cardinality(UNION {asksOn(p) : p \in 1 .. asks.totalPages})

=============================================================================
