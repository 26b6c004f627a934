----------------------------- MODULE ScheduledPush -----------------------------
(***************************************************************************)
(* Push notifications planned once or at intervals: the cron of each       *)
(* backend reads those that are due, claims each by moving its next run,   *)
(* sends it and then records the sending.                                  *)
(***************************************************************************)
EXTENDS Naturals, FiniteSets

CONSTANTS
    Notice,
    Once,          \* notifications planned for one date
    Server,
    Horizon,       \* bound: last date
    MaxEdits,      \* bound: edits and switches by the back office
    Never, NoNotice

VARIABLES
    now,
    plan,          \* the ScheduledNotification rows: active, next, count, kept
    sent,          \* sent[n][d]: pushes sent for the run planned at date d
    batch,         \* what each cron read as due, with the date it read
    ph,            \* the notification each cron is sending
    edits

pvars == <<now, plan, sent, batch, ph, edits>>

Date == 0 .. Horizon
PIdle == [pc |-> "idle", n |-> NoNotice]

PInit ==
    /\ now = 0
    /\ plan \in [Notice -> {[active |-> TRUE, next |-> d, count |-> 0, kept |-> TRUE] : d \in {1}}]
    /\ sent = [n \in Notice |-> [d \in Date |-> 0]]
    /\ batch = [p \in Server |-> {}]
    /\ ph = [p \in Server |-> PIdle]
    /\ edits = 0

-----------------------------------------------------------------------------
Due(n) == plan[n].kept /\ plan[n].active /\ plan[n].next # Never /\ plan[n].next <= now

processScheduledNotifications(p) ==
    /\ ph[p] = PIdle /\ batch[p] = {}
    /\ {n \in Notice : Due(n)} # {}
    /\ batch' = [batch EXCEPT ![p] = {<<n, plan[n].next>> : n \in {m \in Notice : Due(m)}}]
    /\ UNCHANGED <<now, plan, sent, ph, edits>>

computeNextRun(n) == IF n \in Once \/ now = Horizon THEN Never ELSE now + 1

ClaimNotice(p, b) ==
    LET n == b[1] IN
    /\ ph[p] = PIdle /\ b \in batch[p]
    /\ batch' = [batch EXCEPT ![p] = @ \ {b}]
    /\ IF plan[n].kept /\ plan[n].active /\ plan[n].next = b[2]
       THEN /\ plan' = [plan EXCEPT ![n].next = computeNextRun(n), ![n].active = n \notin Once]
            /\ ph' = [ph EXCEPT ![p] = [pc |-> "send", n |-> n, d |-> b[2]]]
       ELSE UNCHANGED <<plan, ph>>
    /\ UNCHANGED <<now, sent, edits>>

processOne(p) ==
    /\ ph[p].pc = "send"
    /\ sent' = [sent EXCEPT ![ph[p].n][ph[p].d] = @ + 1]
    /\ ph' = [ph EXCEPT ![p].pc = "record"]
    /\ UNCHANGED <<now, plan, batch, edits>>

RecordSending(p) ==
    /\ ph[p].pc = "record"
    /\ plan' = IF plan[ph[p].n].kept THEN [plan EXCEPT ![ph[p].n].count = @ + 1] ELSE plan
    /\ ph' = [ph EXCEPT ![p] = PIdle]
    /\ UNCHANGED <<now, sent, batch, edits>>

(* A push that fails, or a backend that stops: the run is lost.            *)
SendingFails(p) ==
    /\ ph[p] # PIdle
    /\ ph' = [ph EXCEPT ![p] = PIdle]
    /\ UNCHANGED <<now, plan, sent, batch, edits>>

-----------------------------------------------------------------------------
(* The back office.  toggleScheduled reads the row and writes its opposite.*)
toggleScheduled(n) ==
    /\ plan[n].kept /\ edits < MaxEdits /\ edits' = edits + 1
    /\ plan' = [plan EXCEPT ![n].active = ~@]
    /\ UNCHANGED <<now, sent, batch, ph>>

deleteScheduled(n) ==
    /\ plan[n].kept /\ edits < MaxEdits /\ edits' = edits + 1
    /\ plan' = [plan EXCEPT ![n].kept = FALSE]
    /\ UNCHANGED <<now, sent, batch, ph>>

Tick ==
    /\ now < Horizon /\ now' = now + 1
    /\ UNCHANGED <<plan, sent, batch, ph, edits>>

PNext ==
    \/ \E p \in Server :
          \/ processScheduledNotifications(p) \/ \E b \in batch[p] : ClaimNotice(p, b)
          \/ processOne(p) \/ RecordSending(p) \/ SendingFails(p)
    \/ \E n \in Notice : toggleScheduled(n) \/ deleteScheduled(n)
    \/ Tick

PSpec == PInit /\ [][PNext]_pvars

-----------------------------------------------------------------------------
(* Properties.                                                             *)

Pushes(n) == Cardinality({d \in Date : sent[n][d] > 0})

(* Types of the variables; send_count never exceeds what was sent.         *)
PTypeOK ==
    /\ now \in Date
    /\ \A n \in Notice : /\ plan[n].next \in Date \union {Never}
                         /\ plan[n].count <= Pushes(n)

(* Each run of a notification goes out at most once, whichever backends    *)
(* read it as due.                                                         *)
RunSentOnce == \A n \in Notice, d \in Date : sent[n][d] <= 1

(* A notification planned once goes out once, also when it is switched on  *)
(* again after its date.                                                   *)
OnceSentOnce == \A n \in Once : Pushes(n) <= 1 /\ plan[n].count <= 1

(* A run that went out is over: the row never comes back to its date.      *)
RunIsOver ==
    \A n \in Notice, d \in Date : sent[n][d] > 0 => plan[n].next = Never \/ plan[n].next > d
=============================================================================
