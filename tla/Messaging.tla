------------------------------ MODULE Messaging ------------------------------
(***************************************************************************)
(* Conversations between customers, the employees of a restaurant and the  *)
(* back office: who opens one, who sees it, who is told of a message, what *)
(* is unread.                                                              *)
(***************************************************************************)
EXTENDS Integers, Sequences, FiniteSets

CONSTANTS
    MCustomer, Employee, Backoffice,  \* people; the employees are those of the restaurant
    Text,                             \* bodies
    MWorker,                          \* handlers at once
    MaxConversations, MaxMessages, MaxRetries,
    Anon

VARIABLES
    convs,       \* <<[restaurant, customer, pair, users]>>
    msgs,        \* <<[conv, by, text, recent, read, told, sent]>>
    mh,          \* worker -> handler
    halted       \* handlers that stopped half way

Staff == Employee \union Backoffice
Everybody == MCustomer \union Staff

MIdle == [step |-> "idle"]
MInit == convs = <<>> /\ msgs = <<>> /\ mh = [w \in MWorker |-> MIdle] /\ halted = 0

-----------------------------------------------------------------------------
(* What each person finds.  A message has two columns for its author, one  *)
(* of them null, and null is not "other than me".                          *)

OfOther(x) == {i \in DOMAIN msgs : msgs[i].by # x /\ (msgs[i].by \in Staff <=> x \in Staff)}
Unread(x) == {i \in OfOther(x) : ~msgs[i].read}
countUnreadMessages(c, x) == Cardinality({i \in Unread(x) : msgs[i].conv = c})

AtRestaurant(x, c) == convs[c].customer # Anon /\ convs[c].restaurant /\ x \in Employee

getConversationById(x) ==
    {c \in DOMAIN convs : \/ x \in Backoffice
                          \/ x \in MCustomer /\ convs[c].customer = x
                          \/ x \in convs[c].users
                          \/ AtRestaurant(x, c)}

getCustomerConversations(x) == {c \in DOMAIN convs : convs[c].customer = x}

getUserConversations(x) ==
    {c \in DOMAIN convs : x \in convs[c].users \/ IF x \in Backoffice THEN convs[c].customer # Anon ELSE AtRestaurant(x, c)}

getConversationStats(x) ==
    LET seen == {c \in DOMAIN convs : \/ x \in convs[c].users
                                      \/ x \in Backoffice /\ convs[c].customer # Anon
                                      \/ x \in Employee /\ AtRestaurant(x, c)}
    IN [total_conversations |-> Cardinality(seen),
        unread_conversations |-> Cardinality({c \in seen : \E i \in Unread(x) : msgs[i].conv = c}),
        unread_messages |-> Cardinality({i \in Unread(x) : msgs[i].conv \in seen})]

-----------------------------------------------------------------------------
(* Opening a conversation.                                                 *)

\* A customer writes to the restaurant, an employee to one of its customers, or a
\* member of the staff to another, in the name of the restaurant or not.
Requests ==
    [by : MCustomer, restaurant : {TRUE}, customer : MCustomer, pair : {{}}]
        \union [by : Employee, restaurant : {TRUE}, customer : MCustomer, pair : {{}}]
        \union [by : Staff, restaurant : BOOLEAN, customer : {Anon}, pair : {{x, y} : x, y \in Staff}]

Allowed(r) ==
    /\ r.by \in MCustomer => r.customer = r.by
    /\ r.customer = Anon => r.by \in r.pair /\ Cardinality(r.pair) = 2 /\ (r.restaurant => r.by \in Employee)

Existing(r) ==
    {c \in DOMAIN convs : /\ convs[c].restaurant = r.restaurant /\ convs[c].customer = r.customer
                          /\ r.pair \subseteq convs[c].users}

Open(w, r) ==
    /\ mh[w] = MIdle /\ Allowed(r) /\ Existing(r) = {}
    /\ mh' = [mh EXCEPT ![w] = [step |-> "create", request |-> r]]
    /\ UNCHANGED <<convs, msgs, halted>>

\* The new conversation is told without its restaurant, which was not read.
createConversationWithInitialMessage(w) ==
    LET r == mh[w].request
        users == r.pair \union ({r.by} \intersect Staff)
    IN /\ mh[w].step = "create" /\ Len(convs) < MaxConversations /\ Len(msgs) < MaxMessages
       /\ convs' = Append(convs, [restaurant |-> r.restaurant, customer |-> r.customer, pair |-> r.pair, users |-> users])
       /\ \E t \in Text : msgs' = Append(msgs, [conv |-> Len(convs) + 1, by |-> r.by, text |-> t, recent |-> TRUE,
                                               read |-> FALSE, told |-> users \union ({r.customer} \ {Anon}), sent |-> FALSE])
       /\ mh' = [mh EXCEPT ![w] = MIdle]
       /\ UNCHANGED halted

-----------------------------------------------------------------------------
(* Writing and reading a message.                                          *)

Same(c, x, t) == {i \in DOMAIN msgs : msgs[i].recent /\ msgs[i].conv = c /\ msgs[i].by = x /\ msgs[i].text = t}

\* A text the author has just sent is not sent again; a picture or an order is.
Write(w, c, x, t, plain) ==
    /\ mh[w] = MIdle /\ c \in getConversationById(x)
    /\ plain => Same(c, x, t) = {}
    /\ mh' = [mh EXCEPT ![w] = [step |-> "write", conv |-> c, by |-> x, text |-> IF plain THEN t ELSE Anon]]
    /\ UNCHANGED <<convs, msgs, halted>>

createMessage(w) ==
    /\ mh[w].step = "write" /\ Len(msgs) < MaxMessages
    /\ msgs' = Append(msgs, [conv |-> mh[w].conv, by |-> mh[w].by, text |-> mh[w].text, recent |-> TRUE,
                             read |-> FALSE, told |-> {}, sent |-> FALSE])
    /\ mh' = [mh EXCEPT ![w] = [step |-> "tell", message |-> Len(msgs) + 1, users |-> convs[mh[w].conv].users]]
    /\ UNCHANGED <<convs, halted>>

\* Whom the sockets, the push and the bell reach.
emitNewMessage(c, x, users) ==
    (users \ {x}) \union ({convs[c].customer} \ {Anon, x}) \union (IF convs[c].restaurant THEN Employee ELSE {})
notifyStaffNewMessage(x) == IF x \in MCustomer THEN Staff ELSE {}

\* The author joins, or an error that is only logged keeps him out.
TakePart(w) ==
    LET i == mh[w].message
        m == msgs[i]
    IN /\ mh[w].step = "tell"
       /\ \E joins \in {{m.by} \intersect Staff, {}} : convs' = [convs EXCEPT ![m.conv].users = @ \union joins]
       /\ msgs' = [msgs EXCEPT ![i].sent = TRUE,
                               ![i].told = emitNewMessage(m.conv, m.by, mh[w].users) \union notifyStaffNewMessage(m.by)]
       /\ mh' = [mh EXCEPT ![w] = MIdle]
       /\ UNCHANGED halted

\* The one who reads is not asked whether he sees the conversation.
markMessagesAsRead(c, x) ==
    /\ msgs' = [i \in DOMAIN msgs |-> [msgs[i] EXCEPT !.read = @ \/ (msgs[i].conv = c /\ i \in OfOther(x))]]
    /\ UNCHANGED <<convs, mh, halted>>

WindowPasses ==
    /\ msgs' = [i \in DOMAIN msgs |-> [msgs[i] EXCEPT !.recent = FALSE]]
    /\ UNCHANGED <<convs, mh, halted>>

HandlerHalts(w) ==
    /\ mh[w] # MIdle /\ halted < MaxRetries
    /\ mh' = [mh EXCEPT ![w] = MIdle] /\ halted' = halted + 1
    /\ UNCHANGED <<convs, msgs>>

MNext ==
    \/ \E w \in MWorker :
          \/ \E r \in Requests : Open(w, r)
          \/ \E c \in DOMAIN convs, x \in Everybody, t \in Text, plain \in BOOLEAN : Write(w, c, x, t, plain)
          \/ createConversationWithInitialMessage(w) \/ createMessage(w) \/ TakePart(w) \/ HandlerHalts(w)
    \/ \E c \in DOMAIN convs, x \in Everybody : markMessagesAsRead(c, x)
    \/ WindowPasses

-----------------------------------------------------------------------------
MTypeOK ==
    /\ \A c \in DOMAIN convs : convs[c].users \subseteq Staff /\ convs[c].pair \subseteq convs[c].users
    /\ \A i \in DOMAIN msgs : msgs[i].conv \in DOMAIN convs /\ msgs[i].by \in Everybody /\ msgs[i].told \subseteq Everybody

(* The figures of the inbox are those of its list, and whatever is listed  *)
(* can be opened.                                                          *)
InboxAgrees ==
    /\ \A x \in Staff :
           LET listed == getUserConversations(x)
               stats == getConversationStats(x)
           IN /\ listed \subseteq getConversationById(x)
              /\ stats.total_conversations = Cardinality(listed)
              /\ stats.unread_conversations = Cardinality({c \in listed : countUnreadMessages(c, x) > 0})
              /\ stats.unread_messages > 0 <=> stats.unread_conversations > 0
    /\ \A x \in MCustomer : getCustomerConversations(x) = getConversationById(x)

(* Only colleagues read one another: what a customer writes is never       *)
(* marked as read, and he has nothing unread.                              *)
OnlyColleaguesRead ==
    /\ \A i \in DOMAIN msgs : msgs[i].read => msgs[i].by \in Staff
    /\ \A c \in DOMAIN convs, x \in MCustomer : convs[c].customer \in {x, Anon} => countUnreadMessages(c, x) = 0

(* A message that was sent reached the people of its conversation, and     *)
(* nobody who may not open it, save the whole restaurant when two of the   *)
(* staff write in its name.                                                *)
RightPeopleTold ==
    \A i \in DOMAIN msgs :
        LET m == msgs[i]
            conv == convs[m.conv]
            reached == m.told \union {m.by}
        IN m.sent => /\ conv.pair \union ({conv.customer} \ {Anon}) \subseteq reached
                     /\ conv.customer # Anon => Employee \subseteq reached
                     /\ \A x \in m.told : \/ m.conv \in getConversationById(x)
                                          \/ conv.customer = Anon /\ conv.restaurant /\ x \in Employee

(* One handler at a time: a restaurant and a customer, or two of the staff,*)
(* have one conversation, and a text is not sent twice in a row.           *)
OneConversation ==
    \A c, d \in DOMAIN convs :
        (/\ convs[c].restaurant = convs[d].restaurant /\ convs[c].customer = convs[d].customer
         /\ convs[c].pair = convs[d].pair) => c = d
NoRepeat == \A i \in DOMAIN msgs : msgs[i].text \in Text /\ msgs[i].recent =>
                Same(msgs[i].conv, msgs[i].by, msgs[i].text) = {i}
==============================================================================
