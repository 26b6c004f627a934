------------------------------ MODULE SchedulePlans ------------------------------
(***************************************************************************)
(* The plannings of one restaurant: a plan covers some days, assigns every *)
(* livreur of the team to the shifts of each day he does not rest, is sent,*)
(* answered shift by shift, confirmed at its deadline and archived.  The   *)
(* back office and the crons generate, edit again and delete plans; the    *)
(* rest days of a livreur are rows of their own, which no plan owns.  One  *)
(* shift stands for the morning and the evening shift of a day.            *)
(***************************************************************************)
EXTENDS Naturals, FiniteSets

CONSTANTS
    Plan,
    Livreur,
    Periods,       \* sets of days a plan may cover
    RestFor(_, _), \* the days of a period livreur l rests, by the rotation
    Planner,       \* requests of the back office and crons handled at once
    MaxHandled,    \* bound: requests and answers
    MaxHalts,      \* bound: interrupted handlers
    NoPlan

VARIABLES
    plans,         \* the SchedulePlan rows
    shift,         \* shift[p][l][d]: the ShiftAssignment of livreur l, or "none"
    rest,          \* the RestDay rows: "none", "AUTO", "ADMIN" or "SELF"
    byHand,        \* plans completed, or confirmed, by the back office
    sh,            \* the handler each planner is in
    ans,           \* the answer each livreur is giving
    handled, halts

svars == <<plans, shift, rest, byHand, sh, ans, handled, halts>>

Days == UNION Periods
First(S) == CHOOSE x \in S : \A y \in S : x <= y
NoRow == [st |-> "none", days |-> {}, late |-> FALSE]
NoShifts == [l \in Livreur |-> [d \in Days |-> "none"]]
SIdle == [pc |-> "idle", p |-> NoPlan]
Active == {"DRAFT", "SENT", "CONFIRMED"}

SchInit ==
    /\ plans = [p \in Plan |-> NoRow]
    /\ shift = [p \in Plan |-> NoShifts]
    /\ rest = [l \in Livreur |-> [d \in Days |-> "none"]]
    /\ byHand = {}
    /\ sh = [w \in Planner |-> SIdle]
    /\ ans = [l \in Livreur |-> SIdle]
    /\ handled = 0 /\ halts = 0

Held(w, h) == sh' = [sh EXCEPT ![w] = h]
Request == handled < MaxHandled /\ handled' = handled + 1
Overlaps(days) == \E q \in Plan : plans[q].st \in Active /\ plans[q].days \intersect days # {}

-----------------------------------------------------------------------------
(* generatePlan: the check, and the transaction that creates all the rows. *)
(* The unique index allows one plan that is not archived per first day.    *)

StartGenerate(w, days) ==
    /\ sh[w] = SIdle /\ Request
    /\ ~ Overlaps(days)
    /\ Held(w, [pc |-> "create", p |-> NoPlan, days |-> days, send |-> FALSE])
    /\ UNCHANGED <<plans, shift, rest, byHand, ans, halts>>

autoSendWeeklyPlans(w, days) ==
    /\ sh[w] = SIdle /\ Request
    /\ ~ \E q \in Plan : plans[q].st \in {"DRAFT", "SENT"} /\ First(plans[q].days) = First(days)
    /\ ~ Overlaps(days)
    /\ Held(w, [pc |-> "create", p |-> NoPlan, days |-> days, send |-> TRUE])
    /\ UNCHANGED <<plans, shift, rest, byHand, ans, halts>>

Taken(days) == \E q \in Plan : plans[q].st \in Active /\ First(plans[q].days) = First(days)

Assigned(days) ==
    [l \in Livreur |-> [d \in Days |-> IF d \in days \ RestFor(l, days) THEN "ASSIGNED" ELSE "none"]]

CreatePlan(w, p) ==
    LET h == sh[w] IN
    /\ h.pc = "create" /\ plans[p].st = "none"
    /\ \A v \in Planner : sh[v].p # p
    /\ \A l \in Livreur : ans[l].p # p
    /\ IF Taken(h.days)
       THEN /\ Held(w, IF h.p = NoPlan THEN SIdle ELSE [h EXCEPT !.pc = "restore"])
            /\ UNCHANGED <<plans, shift, rest>>
       ELSE /\ plans' = [plans EXCEPT ![p] = [st |-> "DRAFT", days |-> h.days, late |-> FALSE]]
            /\ shift' = [shift EXCEPT ![p] = Assigned(h.days)]
            /\ rest' = [l \in Livreur |-> [d \in Days |->
                   IF rest[l][d] = "none" /\ d \in RestFor(l, h.days) THEN "AUTO" ELSE rest[l][d]]]
            /\ Held(w, IF h.p # NoPlan THEN [h EXCEPT !.pc = "drop"]
                       ELSE IF h.send THEN [pc |-> "send", p |-> p] ELSE SIdle)
    /\ UNCHANGED <<byHand, ans, handled, halts>>

-----------------------------------------------------------------------------
StartSend(w, p) ==
    /\ sh[w] = SIdle /\ Request /\ plans[p].st # "none"
    /\ Held(w, [pc |-> "send", p |-> p])
    /\ UNCHANGED <<plans, shift, rest, byHand, ans, halts>>

sendPlan(w) ==
    LET p == sh[w].p IN
    /\ sh[w].pc = "send"
    /\ IF plans[p].st = "DRAFT" THEN Held(w, [pc |-> "sending", p |-> p]) ELSE Held(w, SIdle)
    /\ UNCHANGED <<plans, shift, rest, byHand, ans, handled, halts>>

(* An update by id; the unique index refuses to bring a plan back beside   *)
(* another of the same first day.                                          *)
Writes(w, p, st) ==
    /\ Held(w, SIdle)
    /\ plans' = IF plans[p].st = "none" \/ (plans[p].st = "ARCHIVED" /\ Taken(plans[p].days))
                THEN plans ELSE [plans EXCEPT ![p].st = st]
    /\ UNCHANGED <<shift, rest, byHand, ans, handled, halts>>

MarkSent(w) == sh[w].pc = "sending" /\ Writes(w, sh[w].p, "SENT")

DeadlinePasses(p) ==
    /\ plans[p].st = "SENT" /\ ~ plans[p].late
    /\ plans' = [plans EXCEPT ![p].late = TRUE]
    /\ UNCHANGED <<shift, rest, byHand, sh, ans, handled, halts>>

(* The cron confirms every shift left without an answer, then the plan.    *)
closeOverduePlans(w, p) ==
    /\ sh[w] = SIdle /\ plans[p].st = "SENT" /\ plans[p].late
    /\ Held(w, [pc |-> "close", p |-> p])
    /\ UNCHANGED <<plans, shift, rest, byHand, ans, handled, halts>>

(* Mutant: every shift is confirmed.                                       *)
ConfirmAll(w) ==
    LET p == sh[w].p IN
    /\ sh[w].pc = "close"
    /\ shift' = [shift EXCEPT ![p] = [l \in Livreur |-> [d \in Days |->
           IF shift[p][l][d] # "none" THEN "CONFIRMED" ELSE "none"]]]
    /\ Held(w, [pc |-> "confirm", p |-> p])
    /\ UNCHANGED <<plans, rest, byHand, ans, handled, halts>>

ConfirmLeft(w) ==
    LET p == sh[w].p IN
    /\ sh[w].pc = "close"
    /\ shift' = [shift EXCEPT ![p] = [l \in Livreur |-> [d \in Days |->
           IF shift[p][l][d] = "ASSIGNED" THEN "CONFIRMED" ELSE shift[p][l][d]]]]
    /\ Held(w, [pc |-> "confirm", p |-> p])
    /\ UNCHANGED <<plans, rest, byHand, ans, handled, halts>>

confirmPlan(w) ==
    LET p == sh[w].p IN
    /\ sh[w].pc = "confirm"
    /\ IF plans[p].st = "SENT" THEN Held(w, [pc |-> "confirming", p |-> p]) ELSE Held(w, SIdle)
    /\ UNCHANGED <<plans, shift, rest, byHand, ans, handled, halts>>

(* The back office may confirm before the deadline.                        *)
StartConfirm(w, p) ==
    /\ sh[w] = SIdle /\ Request /\ plans[p].st = "SENT"
    /\ Held(w, [pc |-> "confirming", p |-> p])
    /\ byHand' = byHand \union {p}
    /\ UNCHANGED <<plans, shift, rest, ans, halts>>

MarkConfirmed(w) == sh[w].pc = "confirming" /\ Writes(w, sh[w].p, "CONFIRMED")

(* By hand, or by the cron for the confirmed plans whose period is over.   *)
archivePlan(p) ==
    /\ plans[p].st # "none" /\ Request
    /\ plans' = [plans EXCEPT ![p].st = "ARCHIVED"]
    /\ UNCHANGED <<shift, rest, byHand, sh, ans, halts>>

-----------------------------------------------------------------------------
(* Deletion takes the shifts along, not the rest days.                     *)
Drop(p) ==
    /\ plans' = [plans EXCEPT ![p] = NoRow]
    /\ shift' = [shift EXCEPT ![p] = NoShifts]
    /\ byHand' = byHand \ {p}

StartDelete(w, p) ==
    /\ sh[w] = SIdle /\ Request /\ plans[p].st \notin {"none", "CONFIRMED"}
    /\ Held(w, [pc |-> "delete", p |-> p])
    /\ UNCHANGED <<plans, shift, rest, byHand, ans, halts>>

deletePlan(w) ==
    /\ sh[w].pc = "delete" /\ Drop(sh[w].p) /\ Held(w, SIdle)
    /\ UNCHANGED <<rest, ans, handled, halts>>

(* regeneratePlan: the old plan is archived, a new one generated, and the  *)
(* old one deleted, or restored when the generation is refused.            *)
StartRegenerate(w, p, days) ==
    /\ sh[w] = SIdle /\ Request /\ plans[p].st \in {"DRAFT", "SENT"}
    /\ Held(w, [pc |-> "set aside", p |-> p, days |-> days, was |-> plans[p].st, send |-> FALSE])
    /\ UNCHANGED <<plans, shift, rest, byHand, ans, halts>>

SetAside(w) ==
    LET p == sh[w].p IN
    /\ sh[w].pc = "set aside"
    /\ IF plans[p].st = "none" THEN Held(w, SIdle) /\ UNCHANGED plans
       ELSE /\ plans' = [plans EXCEPT ![p].st = "ARCHIVED"]
            /\ Held(w, [sh[w] EXCEPT !.pc = "check"])
    /\ UNCHANGED <<shift, rest, byHand, ans, handled, halts>>

regeneratePlan(w) ==
    /\ sh[w].pc = "check"
    /\ Held(w, [sh[w] EXCEPT !.pc = IF Overlaps(sh[w].days) THEN "restore" ELSE "create"])
    /\ UNCHANGED <<plans, shift, rest, byHand, ans, handled, halts>>

DropOld(w) ==
    /\ sh[w].pc = "drop" /\ Drop(sh[w].p) /\ Held(w, SIdle)
    /\ UNCHANGED <<rest, ans, handled, halts>>

RestoreOld(w) == sh[w].pc = "restore" /\ Writes(w, sh[w].p, sh[w].was)

Halt(w) ==
    /\ sh[w] # SIdle /\ halts < MaxHalts /\ halts' = halts + 1
    /\ Held(w, SIdle)
    /\ UNCHANGED <<plans, shift, rest, byHand, ans, handled>>

-----------------------------------------------------------------------------
(* Edition of one day of one livreur by the back office.                   *)
setDelivererDayMode(p, l, d) ==
    /\ plans[p].st \in Active /\ d \in plans[p].days /\ Request
    /\ \/ /\ rest' = [rest EXCEPT ![l][d] = "ADMIN"]
          /\ shift' = [shift EXCEPT ![p][l][d] = "none"]
          /\ UNCHANGED byHand
       \/ /\ rest' = [rest EXCEPT ![l][d] = "none"]
          /\ shift' = [shift EXCEPT ![p][l][d] = IF @ = "none" THEN "ASSIGNED" ELSE @]
          /\ byHand' = byHand \union {p}
    /\ UNCHANGED <<plans, sh, ans, halts>>

(* A livreur who joined the restaurant after the plan was generated.       *)
addDelivererToPlan(p, l) ==
    /\ plans[p].st \in Active /\ Request
    /\ \A d \in Days : shift[p][l][d] = "none"
    /\ shift' = [shift EXCEPT ![p][l] = Assigned(plans[p].days)[l]]
    /\ rest' = [rest EXCEPT ![l] = [d \in Days |->
           IF @[d] = "none" /\ d \in RestFor(l, plans[p].days) THEN "AUTO" ELSE @[d]]]
    /\ byHand' = byHand \union {p}
    /\ UNCHANGED <<plans, sh, ans, halts>>

(* The livreur answers for a shift he has read as ASSIGNED.                *)
ReadShift(l, p, d) ==
    /\ ans[l] = SIdle /\ Request /\ shift[p][l][d] = "ASSIGNED"
    /\ \E a \in {"CONFIRMED", "REFUSED"} : ans' = [ans EXCEPT ![l] = [pc |-> a, p |-> p, d |-> d]]
    /\ UNCHANGED <<plans, shift, rest, byHand, sh, halts>>

(* acceptAssignment and refuseAssignment write by id; a shift deleted in   *)
(* between makes the request fail.                                         *)
Answer(l) ==
    LET a == ans[l] IN
    /\ a # SIdle
    /\ shift' = IF shift[a.p][l][a.d] = "none" THEN shift ELSE [shift EXCEPT ![a.p][l][a.d] = a.pc]
    /\ ans' = [ans EXCEPT ![l] = SIdle]
    /\ UNCHANGED <<plans, rest, byHand, sh, handled, halts>>

addRestDay(l, d) ==
    /\ Request /\ rest[l][d] # "SELF"
    /\ rest' = [rest EXCEPT ![l][d] = "SELF"]
    /\ UNCHANGED <<plans, shift, byHand, sh, ans, halts>>

removeRestDay(l, d) ==
    /\ Request /\ rest[l][d] = "SELF"
    /\ rest' = [rest EXCEPT ![l][d] = "none"]
    /\ UNCHANGED <<plans, shift, byHand, sh, ans, halts>>

-----------------------------------------------------------------------------
SchNext ==
    \/ \E w \in Planner :
          \/ sendPlan(w) \/ MarkSent(w) \/ ConfirmLeft(w) \/ confirmPlan(w) \/ MarkConfirmed(w)
          \/ deletePlan(w) \/ SetAside(w) \/ regeneratePlan(w) \/ DropOld(w) \/ RestoreOld(w)
          \/ Halt(w)
          \/ \E days \in Periods :
                \/ StartGenerate(w, days) \/ autoSendWeeklyPlans(w, days)
                \/ \E p \in Plan : StartRegenerate(w, p, days)
          \/ \E p \in Plan :
                \/ CreatePlan(w, p) \/ StartSend(w, p) \/ closeOverduePlans(w, p) \/ StartConfirm(w, p) \/ StartDelete(w, p)
    \/ \E p \in Plan : DeadlinePasses(p) \/ archivePlan(p)
    \/ \E p \in Plan, l \in Livreur : addDelivererToPlan(p, l)
    \/ \E l \in Livreur, d \in Days :
          \/ addRestDay(l, d) \/ removeRestDay(l, d)
          \/ \E p \in Plan : setDelivererDayMode(p, l, d) \/ ReadShift(l, p, d)
    \/ \E l \in Livreur : Answer(l)

SchSpec == SchInit /\ [][SchNext]_svars

-----------------------------------------------------------------------------
(* Properties.                                                             *)

(* Types of the variables; shifts lie in the days of their plan.           *)
SchTypeOK ==
    /\ \A p \in Plan :
          /\ plans[p].st \in Active \union {"none", "ARCHIVED"}
          /\ plans[p].st = "none" => plans[p] = NoRow
          /\ \A l \in Livreur, d \in Days :
                /\ shift[p][l][d] \in {"none", "ASSIGNED", "CONFIRMED", "REFUSED"}
                /\ shift[p][l][d] # "none" => d \in plans[p].days
    /\ \A l \in Livreur, d \in Days : rest[l][d] \in {"none", "AUTO", "ADMIN", "SELF"}

(* Two plans in force never begin on one day, even when the back office    *)
(* and the cron generate at once.                                          *)
OnePlanPerStart ==
    \A p, q \in Plan :
        p # q /\ plans[p].st \in Active /\ plans[q].st \in Active =>
            First(plans[p].days) # First(plans[q].days)

(* A plan confirmed at its deadline leaves no shift without an answer, but *)
(* those of a plan the back office completed or confirmed itself.          *)
ClosedIsAnswered ==
    \A p \in Plan :
        plans[p].st = "CONFIRMED" /\ p \notin byHand =>
            \A l \in Livreur, d \in Days : shift[p][l][d] # "ASSIGNED"

(* A shift the livreur refused is not given back to him, neither by the    *)
(* deadline nor by the rest of the planning: only its plan, or an edition  *)
(* of that very day, takes it away.                                        *)
RefusalIsFinal ==
    [][\A p \in Plan, l \in Livreur, d \in Days :
          shift[p][l][d] = "REFUSED" => shift'[p][l][d] \in {"REFUSED", "none"}]_svars

=============================================================================
