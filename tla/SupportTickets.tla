---------------------------- MODULE SupportTickets ----------------------------
(***************************************************************************)
(* Support: a ticket is opened by the customer or by the staff, and a job  *)
(* assigns it to the connected agent who has the fewest open ones.  A job  *)
(* is tried a number of times, then dropped; the connection of an agent    *)
(* queues it again.  One customer, one category, whose tickets are         *)
(* numbered in the order of their creation.                                *)
(***************************************************************************)
EXTENDS Naturals, Sequences, FiniteSetsExt

CONSTANTS
    Agent, Nobody,
    Front, Consumer, Gateway,   \* processes that create, assign, and hear an agent connect
    Attempts, MaxTicketsPerAgent,
    MaxTickets, MaxConnections, MaxMishaps  \* bounds

VARIABLES
    tickets,   \* TicketThread rows, by number
    job,       \* attempts made by the queued job of each ticket, or NoJob
    online,    \* connectedUsers
    hd,        \* the handler each process is in
    seen,      \* agents connected when the job of a ticket was dropped
    reopened,  \* tickets the staff has put back to OPEN or IN_PROGRESS
    byHand,    \* tickets the staff has assigned
    late,      \* tickets whose agent connected during the last attempt
    used       \* connections, and writes by hand or jobs lost, so far

stv == <<tickets, job, online, hd, seen, reopened, byHand, late, used>>

TicketStatus == {"OPEN", "IN_PROGRESS", "RESOLVED", "CLOSED"}
NoJob == Attempts
Row == 1 .. MaxTickets
STWorker == Front \union Consumer \union Gateway
STIdle == [pc |-> "idle", n |-> 0, who |-> Nobody, set |-> {}]

STInit ==
    /\ tickets = <<>> /\ online \in SUBSET Agent
    /\ job = [t \in Row |-> NoJob] /\ seen = [t \in Row |-> {}]
    /\ hd = [w \in STWorker |-> STIdle]
    /\ reopened = {} /\ byHand = {} /\ late = {}
    /\ used = [connections |-> 0, mishaps |-> 0]

STTo(w, h) == hd' = [hd EXCEPT ![w] = h]
STRest(w) == STTo(w, STIdle)
Uses(k, max) == used[k] < max /\ used' = [used EXCEPT ![k] = @ + 1]

InProgress(t) == tickets[t].status \in {"OPEN", "IN_PROGRESS"}
Pending(t) == tickets[t].status = "OPEN" /\ tickets[t].assignee = Nobody
getTicketCountByAgent(a) == Cardinality({t \in DOMAIN tickets : tickets[t].status = "OPEN" /\ tickets[t].assignee = a})

\* The job id is that of the ticket: a job already there is left as it is.
enqueueAutoAssign(ts) == job' = [t \in Row |-> IF t \in ts /\ job[t] = NoJob THEN 0 ELSE job[t]]

-----------------------------------------------------------------------------
(* Creation.                                                               *)

\* A customer has one ticket in progress at a time; the staff is not limited.
CheckExisting(w) ==
    /\ hd[w] = STIdle /\ Len(tickets) < MaxTickets
    /\ \A t \in DOMAIN tickets : ~InProgress(t)
    /\ STTo(w, [STIdle EXCEPT !.pc = "customer"])
    /\ UNCHANGED <<tickets, job, online, seen, reopened, byHand, late, used>>

ReadLastNumber(w, from) ==
    /\ IF from = "staff" THEN hd[w] = STIdle ELSE hd[w].pc = "customer" /\ hd[w].n = 0
    /\ Len(tickets) < MaxTickets
    /\ STTo(w, [STIdle EXCEPT !.pc = from, !.n = Len(tickets) + 1])
    /\ UNCHANGED <<tickets, job, online, seen, reopened, byHand, late, used>>

\* The code is unique: the second of two creations that read the same number fails.
createTicket(w, assignee) ==
    /\ hd[w].pc \in {"customer", "staff"} /\ hd[w].n > 0
    /\ IF assignee = Nobody THEN UNCHANGED used
       ELSE hd[w].pc = "staff" /\ Uses("mishaps", MaxMishaps)
    /\ IF hd[w].n \in DOMAIN tickets
       THEN STRest(w) /\ UNCHANGED <<tickets, byHand>>
       ELSE /\ tickets' = Append(tickets, [status |-> "OPEN", assignee |-> assignee, from |-> hd[w].pc])
            /\ byHand' = IF assignee = Nobody THEN byHand ELSE byHand \union {hd[w].n}
            /\ STTo(w, [STIdle EXCEPT !.pc = "created", !.n = hd[w].n])
    /\ UNCHANGED <<job, online, seen, reopened, late>>

handleTicketCreatedEvent(w) ==
    /\ hd[w].pc = "created" /\ STRest(w)
    /\ \/ enqueueAutoAssign({hd[w].n}) /\ UNCHANGED <<seen, used>>
       \/ \* The queue refuses, or the process stops.
          /\ Uses("mishaps", MaxMishaps)
          /\ seen' = [seen EXCEPT ![hd[w].n] = online]
          /\ UNCHANGED job
    /\ UNCHANGED <<tickets, online, reopened, byHand, late>>

-----------------------------------------------------------------------------
(* The job: the connected agents and their loads are read, then the ticket *)
(* is written by id.                                                       *)

autoAssignTicket(w, t) ==
    /\ hd[w] = STIdle /\ job[t] # NoJob
    /\ \A o \in Consumer : hd[o].n # t
    /\ LET least == Min({getTicketCountByAgent(a) : a \in online})
           h == [pc |-> "attempt", n |-> t, who |-> Nobody, set |-> {}]
       IN IF online = {} \/ least >= MaxTicketsPerAgent
          THEN STTo(w, IF job[t] + 1 = NoJob THEN [h EXCEPT !.set = online] ELSE h)
          ELSE \E a \in online : getTicketCountByAgent(a) = least /\ STTo(w, [h EXCEPT !.who = a])
    /\ UNCHANGED <<tickets, job, online, seen, reopened, byHand, late, used>>

process(w) ==
    /\ hd[w].pc = "attempt" /\ STRest(w)
    /\ LET t == hd[w].n IN
       IF hd[w].who # Nobody
       THEN /\ tickets' = [tickets EXCEPT ![t].assignee = hd[w].who]
            /\ job' = [job EXCEPT ![t] = NoJob] /\ UNCHANGED seen
       ELSE /\ job' = [job EXCEPT ![t] = @ + 1] /\ UNCHANGED tickets
            /\ seen' = IF job[t] + 1 = NoJob THEN [seen EXCEPT ![t] = hd[w].set] ELSE seen
    /\ UNCHANGED <<online, reopened, byHand, late, used>>

-----------------------------------------------------------------------------
(* Connections: the tickets nobody has are queued again.                   *)

handleConnection(w, a) ==
    /\ hd[w] = STIdle /\ a \notin online /\ Uses("connections", MaxConnections)
    /\ online' = online \union {a}
    /\ STTo(w, [STIdle EXCEPT !.pc = "online"])
    /\ UNCHANGED <<tickets, job, seen, reopened, byHand, late>>

ReadPending(w) ==
    /\ hd[w].pc = "online"
    /\ STTo(w, [STIdle EXCEPT !.pc = "queue", !.set = {t \in DOMAIN tickets : Pending(t)}])
    /\ UNCHANGED <<tickets, job, online, seen, reopened, byHand, late, used>>

handleUserOnlineEvent(w) ==
    /\ hd[w].pc = "queue" /\ STRest(w)
    /\ enqueueAutoAssign(hd[w].set)
    /\ late' = (late \ {t \in hd[w].set : job[t] = NoJob})
                 \union {t \in hd[w].set : job[t] + 1 = NoJob /\ \E c \in Consumer : hd[c].n = t}
    /\ seen' = [t \in Row |-> IF t \in hd[w].set THEN {} ELSE seen[t]]
    /\ UNCHANGED <<tickets, online, reopened, byHand, used>>

handleDisconnect(a) ==
    /\ a \in online /\ online' = online \ {a}
    /\ UNCHANGED <<tickets, job, hd, seen, reopened, byHand, late, used>>

-----------------------------------------------------------------------------
(* The staff: a status, or an agent, is written whatever the ticket is.    *)

updateTicket(t, s) ==
    /\ s # tickets[t].status /\ Uses("mishaps", MaxMishaps)
    /\ tickets' = [tickets EXCEPT ![t].status = s]
    /\ reopened' = IF s = "OPEN" \/ (s = "IN_PROGRESS" /\ ~InProgress(t)) THEN reopened \union {t} ELSE reopened
    /\ UNCHANGED <<job, online, hd, seen, byHand, late>>

assignTicketToAgent(t, a) ==
    /\ a # tickets[t].assignee /\ Uses("mishaps", MaxMishaps)
    /\ tickets' = [tickets EXCEPT ![t].assignee = a]
    /\ byHand' = byHand \union {t}
    /\ UNCHANGED <<job, online, hd, seen, reopened, late>>

STNext ==
    \/ \E w \in Front : \/ CheckExisting(w) \/ handleTicketCreatedEvent(w)
                        \/ \E from \in {"customer", "staff"} : ReadLastNumber(w, from)
                        \/ \E a \in Agent \union {Nobody} : createTicket(w, a)
    \/ \E w \in Consumer : process(w) \/ \E t \in DOMAIN tickets : autoAssignTicket(w, t)
    \/ \E w \in Gateway : ReadPending(w) \/ handleUserOnlineEvent(w) \/ \E a \in Agent : handleConnection(w, a)
    \/ \E a \in Agent : handleDisconnect(a)
    \/ \E t \in DOMAIN tickets : \/ \E s \in TicketStatus : updateTicket(t, s)
                                 \/ \E a \in Agent : assignTicketToAgent(t, a)

-----------------------------------------------------------------------------
STTypeOK ==
    /\ tickets \in Seq([status : TicketStatus, assignee : Agent \union {Nobody}, from : {"customer", "staff"}])
    /\ Len(tickets) <= MaxTickets /\ online \subseteq Agent
    /\ job \in [Row -> 0 .. NoJob] /\ seen \in [Row -> SUBSET Agent]
    /\ \A t \in Row \ DOMAIN tickets : job[t] = NoJob

(* An open ticket that nobody has and no job will assign waits for an agent *)
(* to connect: whoever is connected was there, with no room, at the last   *)
(* attempt.  Known exceptions: a connection during that attempt, a ticket  *)
(* put back to OPEN.                                                       *)
WaitingIsCovered ==
    \A t \in DOMAIN tickets :
        (/\ Pending(t) /\ job[t] = NoJob /\ t \notin late \union reopened
         /\ \A w \in STWorker : hd[w].pc \in {"created", "online", "queue"} => hd[w].n # t /\ w \notin Gateway)
        => online \subseteq seen[t]

(* The job alone never gives an agent more open tickets than the limit,    *)
(* when one backend runs it.                                               *)
LoadWithinLimit ==
    Cardinality(Consumer) = 1 =>
        \A a \in Agent : Cardinality({t \in DOMAIN tickets \ (byHand \union reopened) :
                            tickets[t].status = "OPEN" /\ tickets[t].assignee = a}) <= MaxTicketsPerAgent

(* A customer opens a second ticket only beside one the staff reopened, or *)
(* while another is being created.                                         *)
OneTicketInProgress ==
    Cardinality(Front) = 1 =>
        \A i, j \in DOMAIN tickets :
            i < j /\ InProgress(i) /\ InProgress(j) /\ tickets[j].from = "customer" => i \in reopened
=============================================================================
