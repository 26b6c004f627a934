--------------------------- MODULE DelivererAccounts ---------------------------
(***************************************************************************)
(* The accounts of the livreurs who share one telephone number over time:  *)
(* registration, validation and suspension by the back office, assignment  *)
(* to a restaurant, deletion by the livreur or by the back office, and the *)
(* purge after the 90 days of grace.  Each handler reads the row, decides, *)
(* and writes it by id.                                                    *)
(***************************************************************************)
EXTENDS Naturals, FiniteSets

CONSTANTS
    Account,       \* possible accounts of the number
    AWorker,       \* requests handled at once
    AKinds,        \* AKinds[w] \subseteq {"register", "account"}
    MaxActs,       \* bound: requests on existing accounts
    NoAccount

VARIABLES
    acc,           \* the Deliverer rows
    docs,          \* accounts whose identity card and licence are uploaded
    ah,            \* the handler each worker is in
    due,           \* accounts the purge cron has read as expired
    acts

avars == <<acc, docs, ah, due, acts>>

Statuses == {"PENDING_VALIDATION", "ACTIVE", "REJECTED", "SUSPENDED"}
AIdle == [pc |-> "idle", d |-> NoAccount]
Nobody == [entity |-> "none", status |-> "PENDING_VALIDATION", resto |-> FALSE,
           op |-> FALSE, deletion |-> "none", number |-> FALSE]

AInit ==
    /\ acc = [d \in Account |-> Nobody]
    /\ docs = {}
    /\ ah = [w \in AWorker |-> AIdle]
    /\ due = {} /\ acts = 0

Living(d) == acc[d].entity = "ACTIVE"
Free(w, kind) == ah[w] = AIdle /\ kind \in AKinds[w]
Go(w, h) == ah' = [ah EXCEPT ![w] = h]

-----------------------------------------------------------------------------
(* Registration, with the unique index on Deliverer.phone at its end.      *)

registerPhone(w, d) ==
    /\ Free(w, "register")
    /\ acc[d].entity = "none" /\ \A v \in AWorker : ah[v].d # d
    /\ ~ \E e \in Account : Living(e)
    /\ Go(w, [pc |-> "verified", d |-> d])
    /\ UNCHANGED <<acc, docs, due, acts>>

completeRegistration(w) ==
    /\ ah[w].pc = "verified"
    /\ IF \E e \in Account : Living(e) THEN Go(w, AIdle) ELSE Go(w, [ah[w] EXCEPT !.pc = "create"])
    /\ UNCHANGED <<acc, docs, due, acts>>

(* Mutant: without the unique index.                                       *)
CreateAnyway(w) ==
    LET d == ah[w].d IN
    /\ ah[w].pc = "create" /\ Go(w, AIdle)
    /\ acc' = [acc EXCEPT ![d] = [Nobody EXCEPT !.entity = "ACTIVE", !.number = TRUE]]
    /\ \E full \in BOOLEAN : docs' = IF full THEN docs \union {d} ELSE docs
    /\ UNCHANGED <<due, acts>>

CreateAccount(w) ==
    LET d == ah[w].d IN
    /\ ah[w].pc = "create" /\ Go(w, AIdle)
    /\ IF \E e \in Account : acc[e].number
       THEN UNCHANGED <<acc, docs>>
       ELSE /\ acc' = [acc EXCEPT ![d] = [Nobody EXCEPT !.entity = "ACTIVE", !.number = TRUE]]
            /\ \E full \in BOOLEAN : docs' = IF full THEN docs \union {d} ELSE docs
    /\ UNCHANGED <<due, acts>>

uploadDocument(d) ==
    /\ Living(d) /\ d \notin docs
    /\ docs' = docs \union {d}
    /\ UNCHANGED <<acc, ah, due, acts>>

-----------------------------------------------------------------------------
(* The checks of each handler on the row it reads, and the status it wants.*)
Wanted(d) ==
    LET s == acc[d].status IN
    (IF s \in {"PENDING_VALIDATION", "REJECTED"} /\ d \in docs THEN {"ACTIVE"} ELSE {})  \* validate
    \union (IF s = "PENDING_VALIDATION" THEN {"ACTIVE"} ELSE {})                  \* forceActivate
    \union (IF s # "REJECTED" THEN {"REJECTED"} ELSE {})                          \* reject
    \union (IF s = "REJECTED" /\ d \in docs THEN {"PENDING_VALIDATION"} ELSE {})  \* resubmit
    \union (IF s # "SUSPENDED" THEN {"SUSPENDED"} ELSE {})                        \* suspend
    \union (IF s = "SUSPENDED" THEN {"ACTIVE"} ELSE {})                           \* reactivate

Begin(w, d) ==
    /\ Free(w, "account") /\ Living(d)
    /\ acts < MaxActs /\ acts' = acts + 1
    /\ UNCHANGED <<acc, docs, due>>

StartTransition(w, d) ==
    /\ Begin(w, d)
    /\ \E s \in Wanted(d) : Go(w, [pc |-> "status", d |-> d, to |-> s, resto |-> acc[d].resto])

transitionStatus(w) ==
    LET h == ah[w] IN
    /\ h.pc = "status" /\ Go(w, AIdle)
    /\ acc' = [acc EXCEPT ![h.d].status = h.to, ![h.d].op = h.to = "ACTIVE" /\ h.resto]
    /\ UNCHANGED <<docs, due, acts>>

StartAssign(w, d) ==
    /\ Begin(w, d)
    /\ Go(w, [pc |-> "assign", d |-> d, active |-> acc[d].status = "ACTIVE"])

assignRestaurant(w) ==
    LET h == ah[w] IN
    /\ h.pc = "assign" /\ Go(w, AIdle)
    /\ acc' = [acc EXCEPT ![h.d].resto = TRUE, ![h.d].op = h.active]
    /\ UNCHANGED <<docs, due, acts>>

(* The password check lies between the read and the write.                 *)
StartDeletion(w, d) ==
    /\ Begin(w, d)
    /\ \E by \in {"deleteAccount", "softDelete"} : Go(w, [pc |-> by, d |-> d])

deleteAccount(w) ==
    /\ ah[w].pc = "deleteAccount" /\ Go(w, AIdle)
    /\ acc' = [acc EXCEPT ![ah[w].d].deletion = "scheduled", ![ah[w].d].op = FALSE]
    /\ UNCHANGED <<docs, due, acts>>

softDelete(w) ==
    /\ ah[w].pc = "softDelete" /\ Go(w, AIdle)
    /\ acc' = [acc EXCEPT ![ah[w].d].entity = "DELETED", ![ah[w].d].op = FALSE]
    /\ UNCHANGED <<docs, due, acts>>

StartRestore(w, d) ==
    /\ Begin(w, d) /\ acc[d].deletion # "none"
    /\ Go(w, [pc |-> "restore", d |-> d, op |-> acc[d].status = "ACTIVE" /\ acc[d].resto])

restoreAccount(w) ==
    LET h == ah[w] IN
    /\ h.pc = "restore" /\ Go(w, AIdle)
    /\ acc' = [acc EXCEPT ![h.d].deletion = "none", ![h.d].op = h.op]
    /\ UNCHANGED <<docs, due, acts>>

-----------------------------------------------------------------------------
GraceEnds(d) ==
    /\ acc[d].deletion = "scheduled"
    /\ acc' = [acc EXCEPT ![d].deletion = "expired"]
    /\ UNCHANGED <<docs, ah, due, acts>>

(* The nightly cron reads the expired accounts, then erases them by id.    *)
purgeExpiredDeletions ==
    LET expired == {d \in Account : acc[d].deletion = "expired" /\ acc[d].entity # "DELETED"} IN
    /\ due = {} /\ expired # {}
    /\ due' = expired
    /\ UNCHANGED <<acc, docs, ah, acts>>

EraseAccount(d) ==
    /\ d \in due /\ due' = due \ {d}
    /\ acc' = [acc EXCEPT ![d].entity = "DELETED", ![d].op = FALSE, ![d].number = FALSE]
    /\ docs' = docs \ {d}
    /\ UNCHANGED <<ah, acts>>

ANext ==
    \/ \E w \in AWorker :
          \/ completeRegistration(w) \/ CreateAccount(w)
          \/ transitionStatus(w) \/ assignRestaurant(w)
          \/ deleteAccount(w) \/ softDelete(w) \/ restoreAccount(w)
          \/ \E d \in Account :
                \/ registerPhone(w, d) \/ StartTransition(w, d) \/ StartAssign(w, d)
                \/ StartDeletion(w, d) \/ StartRestore(w, d)
    \/ purgeExpiredDeletions
    \/ \E d \in Account : uploadDocument(d) \/ GraceEnds(d) \/ EraseAccount(d)

ASpec == AInit /\ [][ANext]_avars

-----------------------------------------------------------------------------
(* Properties.                                                             *)

(* Types of the variables; a number belongs to one row, and a living       *)
(* account has its number.                                                 *)
ATypeOK ==
    /\ \A d \in Account :
          /\ acc[d].entity \in {"none", "ACTIVE", "DELETED"} /\ acc[d].status \in Statuses
          /\ acc[d].deletion \in {"none", "scheduled", "expired"}
          /\ Living(d) => acc[d].number
    /\ Cardinality({d \in Account : acc[d].number}) <= 1
    /\ due \subseteq Account /\ docs \subseteq Account

(* A living account offered courses is validated and has a restaurant      *)
(* (deliverers.service.ts:454), whatever order validation, assignment,     *)
(* suspension and restoration came in.                                     *)
OperationalIsSound ==
    \A d \in Account : Living(d) /\ acc[d].op => acc[d].status = "ACTIVE" /\ acc[d].resto

(* And a validated account with a restaurant is offered courses, unless    *)
(* its owner has asked for its deletion.                                   *)
ValidatedIsOperational ==
    \A d \in Account :
        Living(d) /\ acc[d].status = "ACTIVE" /\ acc[d].resto /\ acc[d].deletion = "none" => acc[d].op

=============================================================================
