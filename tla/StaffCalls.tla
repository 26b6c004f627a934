------------------------------- MODULE StaffCalls -------------------------------
(***************************************************************************)
(* One call between members of the staff: it rings at a group of           *)
(* receivers, the first to answer takes it, a receiver may refuse, the     *)
(* caller may give up, either may hang up.  Every handler reads the call,  *)
(* then claims its change on the status.  The room of the call and its     *)
(* closing webhook belong to the external meeting service.                 *)
(***************************************************************************)
EXTENDS Naturals, FiniteSets

CONSTANTS
    Caller, Receiver, Admin,  \* an admin who takes part in no call, or nobody
    Slot,          \* open pages of the users, each with one request at a time
    UserOf,        \* UserOf[s]: the user of page s
    MaxRequests,   \* bound: requests
    MaxFailures    \* bound: tokens the meeting service does not deliver

VARIABLES
    call,          \* the Call row: st, ringing, by
    room,          \* whether the room exists
    ui,            \* what each user sees: "none", "calling", "ringing", "in"
    hh,            \* the handler each page is in
    silent,        \* the call was closed by the webhook, the sweep or a third person
    requests, failures

cvars == <<call, room, ui, hh, silent, requests, failures>>

User == {Caller} \union Receiver \union Admin
Over == {"MISSED", "CANCELLED", "ENDED"}
HIdle == [pc |-> "idle"]

CallInit ==
    /\ call = [st |-> "none", ringing |-> {}, by |-> {}]
    /\ room = FALSE
    /\ ui = [u \in User |-> "none"]
    /\ hh = [s \in Slot |-> HIdle]
    /\ silent = FALSE /\ requests = 0 /\ failures = 0

Serve(s, h) == hh' = [hh EXCEPT ![s] = h]
Asks(s) == hh[s] = HIdle /\ requests < MaxRequests /\ requests' = requests + 1
See(view) == ui' = [u \in User |-> IF u \in DOMAIN view THEN view[u] ELSE ui[u]]

-----------------------------------------------------------------------------
createAndRing ==
    /\ call.st = "none" /\ room' = TRUE
    /\ call' = [st |-> "RINGING", ringing |-> Receiver, by |-> {}]
    /\ ui' = [u \in User |-> IF u = Caller THEN "calling" ELSE IF u \in Receiver THEN "ringing" ELSE "none"]
    /\ UNCHANGED <<hh, silent, requests, failures>>

StartAnswer(s) ==
    /\ Asks(s) /\ UserOf[s] \in call.ringing
    /\ Serve(s, [pc |-> "claim"])
    /\ UNCHANGED <<call, room, ui, silent, failures>>

answer(s) ==
    /\ hh[s].pc = "claim"
    /\ IF call.st = "RINGING"
       THEN /\ call' = [call EXCEPT !.st = "ONGOING", !.by = {UserOf[s]}]
            /\ Serve(s, [pc |-> "tell"]) /\ UNCHANGED ui
       ELSE /\ ui' = [ui EXCEPT ![UserOf[s]] = "none"]
            /\ Serve(s, HIdle) /\ UNCHANGED call
    /\ UNCHANGED <<room, silent, requests, failures>>

(* The token, then the events to the caller and to the other receivers.    *)
TellAnswer(s) ==
    LET u == UserOf[s] IN
    /\ hh[s].pc = "tell" /\ Serve(s, HIdle)
    /\ IF call.st = "ONGOING"
       THEN ui' = [v \in User |-> IF v \in {u, Caller} THEN "in"
                                  ELSE IF v \in Receiver THEN "none" ELSE ui[v]]
       ELSE ui' = [v \in User |-> IF v \in Receiver THEN "none" ELSE ui[v]]
    /\ UNCHANGED <<call, room, silent, requests, failures>>

TokenFails(s) ==
    /\ hh[s].pc = "tell" /\ failures < MaxFailures /\ failures' = failures + 1
    /\ Serve(s, HIdle)
    /\ UNCHANGED <<call, room, ui, silent, requests>>

-----------------------------------------------------------------------------
StartReject(s) ==
    /\ Asks(s) /\ UserOf[s] \in Receiver /\ call.st = "RINGING"
    /\ Serve(s, [pc |-> "remove"])
    /\ UNCHANGED <<call, room, ui, silent, failures>>

(* reject: array_remove under the status, and the list that is left.       *)
reject(s) ==
    /\ hh[s].pc = "remove"
    /\ ui' = [ui EXCEPT ![UserOf[s]] = "none"]
    /\ IF call.st = "RINGING"
       THEN /\ call' = [call EXCEPT !.ringing = @ \ {UserOf[s]}]
            /\ Serve(s, IF call'.ringing = {} THEN [pc |-> "miss"] ELSE HIdle)
       ELSE Serve(s, HIdle) /\ UNCHANGED call
    /\ UNCHANGED <<room, silent, requests, failures>>

(* The last refusal: whatever the update found, the caller is told and the *)
(* room deleted.                                                           *)
MissCall(s) ==
    /\ hh[s].pc = "miss" /\ Serve(s, HIdle)
    /\ call' = IF call.st = "RINGING" THEN [call EXCEPT !.st = "MISSED"] ELSE call
    /\ ui' = [ui EXCEPT ![Caller] = "none"]
    /\ room' = FALSE
    /\ UNCHANGED <<silent, requests, failures>>

(* hangup: by the caller while it rings, afterwards by whoever was rung;   *)
(* a receiver who hangs up while it rings refuses (StartReject).           *)
StartHangup(s) ==
    LET u == UserOf[s] IN
    /\ Asks(s) /\ (u \in Admin \/ ui[u] # "none")
    /\ \/ call.st = "RINGING" /\ u = Caller /\ Serve(s, [pc |-> "cancel", ringing |-> call.ringing])
       \/ call.st = "ONGOING" /\ Serve(s, [pc |-> "end", by |-> call.by])
    /\ UNCHANGED <<call, room, ui, silent, failures>>

hangup(s) ==
    /\ hh[s].pc = "cancel"
    /\ IF call.st = "RINGING"
       THEN /\ call' = [call EXCEPT !.st = "CANCELLED"] /\ room' = FALSE
            /\ ui' = [u \in User |-> IF u \in hh[s].ringing \union {Caller} THEN "none" ELSE ui[u]]
            /\ Serve(s, HIdle)
       ELSE IF call.st = "ONGOING"
       THEN Serve(s, [pc |-> "end", by |-> call.by]) /\ UNCHANGED <<call, room, ui>>
       ELSE Serve(s, HIdle) /\ ui' = [ui EXCEPT ![Caller] = "none"] /\ UNCHANGED <<call, room>>
    /\ UNCHANGED <<silent, requests, failures>>

endOngoing(s) ==
    LET u == UserOf[s]
        told == IF u = Caller THEN hh[s].by ELSE {Caller}
    IN
    /\ hh[s].pc = "end" /\ Serve(s, HIdle)
    /\ IF call.st = "ONGOING"
       THEN /\ call' = [call EXCEPT !.st = "ENDED"] /\ room' = FALSE
            /\ ui' = [v \in User |-> IF v \in told \union {u} THEN "none" ELSE ui[v]]
       ELSE ui' = [ui EXCEPT ![u] = "none"] /\ UNCHANGED <<call, room>>
    /\ silent' = (silent \/ (call.st = "ONGOING" /\ u \notin hh[s].by \union {Caller}))
    /\ UNCHANGED <<requests, failures>>

-----------------------------------------------------------------------------
(* The closing webhook of the meeting service, and the sweep of calls that *)
(* have lasted too long, run by getActiveForMe: nobody is told.            *)
handleWebhook ==
    /\ call.st \in {"RINGING", "ONGOING"}
    /\ call' = [call EXCEPT !.st = "ENDED"]
    /\ silent' = TRUE
    /\ UNCHANGED <<room, ui, hh, requests, failures>>

(* The pages also ask for the status from time to time.                    *)
getStatus(u) ==
    /\ ui[u] # "none"
    /\ LET seen == IF call.st \in Over \/ (call.st = "ONGOING" /\ u \notin call.by \union {Caller}) THEN "none"
                   ELSE IF call.st = "ONGOING" /\ u = Caller THEN "in" ELSE ui[u]
       IN seen # ui[u] /\ ui' = [ui EXCEPT ![u] = seen]
    /\ UNCHANGED <<call, room, hh, silent, requests, failures>>

CallNext ==
    \/ createAndRing \/ handleWebhook
    \/ \E s \in Slot :
          \/ StartAnswer(s) \/ answer(s) \/ TellAnswer(s) \/ TokenFails(s)
          \/ StartReject(s) \/ reject(s) \/ MissCall(s)
          \/ StartHangup(s) \/ hangup(s) \/ endOngoing(s)
    \/ \E u \in User : getStatus(u)

CallSpec == CallInit /\ [][CallNext]_cvars

-----------------------------------------------------------------------------
(* Properties.                                                             *)

Quiet == \A s \in Slot : hh[s] = HIdle

(* Types of the variables; only a call that was answered has an answerer.  *)
CallTypeOK ==
    /\ call.st \in {"none", "RINGING", "ONGOING"} \union Over
    /\ call.ringing \subseteq Receiver /\ call.by \subseteq Receiver /\ Cardinality(call.by) <= 1
    /\ call.st \in {"none", "RINGING", "MISSED", "CANCELLED"} => call.by = {}
    /\ ui \in [User -> {"none", "calling", "ringing", "in"}]

(* One receiver at most is in the call, and it is the one recorded.        *)
OneAnswerer == \A r \in Receiver : ui[r] = "in" => call.by = {r}

(* A call in progress has its room.                                        *)
OngoingHasRoom == call.st = "ONGOING" => room

(* A call that was taken, given up or missed is never taken afterwards.    *)
OverIsOver == [][call.st \in Over => call'.st = call.st]_cvars

(* Once a call is over, and nobody but its parties ended it, no page still *)
(* rings or shows it in progress, even before it asks for the status.      *)
EveryoneIsTold ==
    call.st \in Over /\ Quiet /\ ~ silent /\ failures = 0 => \A u \in User : ui[u] = "none"
=============================================================================
