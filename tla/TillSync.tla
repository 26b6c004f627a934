------------------------------- MODULE TillSync -------------------------------
(***************************************************************************)
(* HubRise: the orders of an external till are copied into the database.   *)
(* A callback only carries the id of an order; its handler reads the order *)
(* from the till, and creates or updates the local row.  Callbacks may be  *)
(* repeated, reordered, and their errors are answered as a success.        *)
(***************************************************************************)
EXTENDS Naturals, SequencesExt, FiniteSetsExt

CONSTANTS
    TillOrder, PhoneOf, EmailOf,  \* orders of the till and who made them
    NoPhone,
    Account,                      \* emails of the customers known beforehand, by phone
    TWorker,
    MaxChanges, MaxRepeats, MaxErrors  \* bounds

VARIABLES
    till,       \* status of each order in the till
    callbacks,  \* ids of the callbacks on their way
    orders,     \* local Order rows with a hubrise_order_id
    customers,  \* email of each local customer, by phone
    th,         \* the handler each worker is in
    missed,     \* orders whose last callback could not be handled
    doubled,    \* orders two of whose callbacks were handled at once
    counts      \* changes, repetitions and errors so far

tvars == <<till, callbacks, orders, customers, th, missed, doubled, counts>>

TillStatus == {"new", "received", "accepted", "awaiting_collection", "completed", "delivery_failed"}
HUBRISE_TO_CN_STATUS(s) ==
    CASE s \in {"new", "received"} -> "ACCEPTED"
      [] s = "accepted" -> "IN_PROGRESS"
      [] s = "awaiting_collection" -> "READY"
      [] s = "completed" -> "COMPLETED"
      [] s = "delivery_failed" -> "CANCELLED"

TIdle == [pc |-> "idle", order |-> NoPhone]

TInit ==
    /\ till = [o \in TillOrder |-> "none"]
    /\ callbacks = {} /\ orders = <<>> /\ customers = Account
    /\ th = [w \in TWorker |-> TIdle]
    /\ missed = {} /\ doubled = {}
    /\ counts = [changes |-> 0, repeats |-> 0, errors |-> 0]

TAt(w, pc) == th[w].pc = pc
TTo(w, pc) == th' = [th EXCEPT ![w].pc = pc]
TRest(w) == th' = [th EXCEPT ![w] = TIdle]
Once(k) == counts' = [counts EXCEPT ![k] = @ + 1]
Misses(w) == missed' = missed \union {th[w].order}

-----------------------------------------------------------------------------
(* The till: an order changes and a callback is sent.                      *)

TillChanges(o, s) ==
    /\ counts.changes < MaxChanges /\ Once("changes")
    /\ IF till[o] = "none" THEN s = "new" ELSE s \notin {"new", till[o]}
    /\ till' = [till EXCEPT ![o] = s]
    /\ callbacks' = callbacks \union {o}
    /\ UNCHANGED <<orders, customers, th, missed, doubled>>

Repeat(o) ==
    /\ till[o] # "none" /\ o \notin callbacks
    /\ counts.repeats < MaxRepeats /\ Once("repeats")
    /\ callbacks' = callbacks \union {o}
    /\ UNCHANGED <<till, orders, customers, th, missed, doubled>>

-----------------------------------------------------------------------------
(* The handler.                                                            *)

(* handleCallback: the order is read from the till, whatever the callback  *)
(* was sent for; an error of the till is logged and answered as a success. *)
handleCallback(w, o) ==
    /\ th[w] = TIdle /\ o \in callbacks
    /\ callbacks' = callbacks \ {o}
    /\ doubled' = IF \E v \in TWorker : th[v].order = o THEN doubled \union {o} ELSE doubled
    /\ \/ th' = [th EXCEPT ![w] = [pc |-> "find", order |-> o, status |-> till[o]]]
          /\ UNCHANGED <<missed, counts>>
       \/ /\ counts.errors < MaxErrors /\ Once("errors")
          /\ missed' = missed \union {o} /\ UNCHANGED th
    /\ UNCHANGED <<till, orders, customers>>

RowsOf(o) == {i \in DOMAIN orders : orders[i].order = o}

findOrderByHubriseId(w) ==
    /\ TAt(w, "find")
    /\ \/ \E i \in RowsOf(th[w].order) :
             th' = [th EXCEPT ![w] = [pc |-> "update", order |-> @.order, status |-> @.status, row |-> i]]
       \/ RowsOf(th[w].order) = {} /\ TTo(w, "resolve")
    /\ UNCHANGED <<till, callbacks, orders, customers, missed, doubled, counts>>

updateExistingOrder(w) ==
    /\ TAt(w, "update") /\ TRest(w)
    /\ orders' = [orders EXCEPT ![th[w].row].status = HUBRISE_TO_CN_STATUS(th[w].status)]
    /\ missed' = missed \ {th[w].order}
    /\ UNCHANGED <<till, callbacks, customers, doubled, counts>>

(* No phone, no customer, no order.                                        *)
resolveCustomer(w) ==
    LET phone == PhoneOf[th[w].order] IN
    /\ TAt(w, "resolve")
    /\ IF phone = NoPhone THEN TRest(w) /\ Misses(w)
       ELSE UNCHANGED missed /\ TTo(w, IF phone \in DOMAIN customers THEN "create" ELSE "customer")
    /\ UNCHANGED <<till, callbacks, orders, customers, doubled, counts>>

(* Phone and email are unique: a conflict is an error of the handler.      *)
CreateCustomer(w) ==
    LET phone == PhoneOf[th[w].order]  email == EmailOf[th[w].order] IN
    /\ TAt(w, "customer")
    /\ IF phone \in DOMAIN customers \/ \E p \in DOMAIN customers : customers[p] = email
       THEN TRest(w) /\ Misses(w) /\ UNCHANGED customers
       ELSE /\ customers' = [p \in DOMAIN customers \union {phone} |->
                                IF p = phone THEN email ELSE customers[p]]
            /\ TTo(w, "create") /\ UNCHANGED missed
    /\ UNCHANGED <<till, callbacks, orders, doubled, counts>>

createNewOrder(w) ==
    /\ TAt(w, "create") /\ TRest(w)
    /\ orders' = Append(orders, [order |-> th[w].order, status |-> HUBRISE_TO_CN_STATUS(th[w].status)])
    /\ missed' = missed \ {th[w].order}
    /\ UNCHANGED <<till, callbacks, customers, doubled, counts>>

-----------------------------------------------------------------------------
TNext ==
    \/ \E o \in TillOrder : Repeat(o) \/ \E s \in TillStatus : TillChanges(o, s)
    \/ \E w \in TWorker :
          \/ findOrderByHubriseId(w) \/ updateExistingOrder(w)
          \/ resolveCustomer(w) \/ CreateCustomer(w) \/ createNewOrder(w)
          \/ \E o \in TillOrder : handleCallback(w, o)

TSpec == TInit /\ [][TNext]_tvars

-----------------------------------------------------------------------------
(* Properties.                                                             *)

(* Types of the variables.                                                 *)
TTypeOK ==
    /\ \A o \in TillOrder : till[o] \in TillStatus \union {"none"}
    /\ \A i \in DOMAIN orders :
          orders[i].status \in {"ACCEPTED", "IN_PROGRESS", "READY", "COMPLETED", "CANCELLED"}
    /\ callbacks \union missed \union doubled \subseteq TillOrder

(* A callback repeated one after the other creates no second order.        *)
OneRowPerTillOrder ==
    \A o \in TillOrder : o \notin doubled => Cardinality(RowsOf(o)) <= 1

(* Once its callbacks are handled, an order has the status it has in the   *)
(* till, whatever their order and their number, unless the last one failed *)
(* or two of them were handled at once.                                    *)
RowFollowsTill ==
    \A o \in TillOrder :
        (/\ till[o] # "none" /\ o \notin callbacks \union missed \union doubled
         /\ \A w \in TWorker : th[w].order # o)
        => \E i \in RowsOf(o) : orders[i].status = HUBRISE_TO_CN_STATUS(till[o])

(* An order whose customer has no phone, or a new phone with the email of  *)
(* another customer, is never created; nothing else keeps an order out     *)
(* once a callback has reached the database.                               *)
MissedForAReason ==
    \A o \in missed : \/ counts.errors > 0
                      \/ PhoneOf[o] = NoPhone
                      \/ \E p \in DOMAIN customers : customers[p] = EmailOf[o]
=============================================================================
