---------------------------- MODULE DelivererQueue ----------------------------
(***************************************************************************)
(* The queue of the livreurs of a restaurant: who waits since when, the    *)
(* penalty of a refusal, the automatic pause after too many of them, and   *)
(* the ranking of the candidates for an offer.                             *)
(*                                                                         *)
(* Times are ticks, 0 stands for null.  Scores are in hundredths of the    *)
(* code's, times 60 so that the ranks divide them.                         *)
(***************************************************************************)
EXTENDS Integers, SequencesExt, FiniteSetsExt

CONSTANTS
    Livreur, Merit,           \* a livreur's score for distance and vehicle
    QWorker,
    Window, PenaltyTime, PauseTime, Threshold, Positions,  \* settings
    WeightQueue, WeightChain, PerPosition,                 \* weights of the score
    LastTick, MaxRefusals, MaxButtons                      \* bounds

VARIABLES
    at,                       \* the time
    row,                      \* the queue columns of each Deliverer row
    course,                   \* "none", "active" or "ending" (about to finish)
    qh,                       \* the handler each worker is in
    refused,                  \* the refusals there really were
    overlap,                  \* livreurs two of whose handlers overlapped
    pressed                   \* buttons pressed

qvars == <<at, row, course, qh, refused, overlap, pressed>>

QIdle == [pc |-> "idle", who |-> ""]
Fresh == [since |-> 0, refusals |-> <<>>, positions |-> 0, penalty |-> 0, pause |-> 0, auto |-> 0]

QInit ==
    /\ at = 1
    /\ row = [l \in Livreur |-> Fresh] /\ course = [l \in Livreur |-> "none"]
    /\ qh = [w \in QWorker |-> QIdle]
    /\ refused = [l \in Livreur |-> <<>>]
    /\ overlap = {} /\ pressed = 0

Paused(l) == row[l].pause > at \/ row[l].auto > at

(* A handler that reads a livreur while another one, or a button, is       *)
(* between its read and its write.                                         *)
Busy(l) == \E w \in QWorker : qh[w].who = l
Meets(l) == overlap' = IF Busy(l) THEN overlap \union {l} ELSE overlap

-----------------------------------------------------------------------------
(* Candidates and ranking.                                                 *)

findRegularCandidates == {l \in Livreur : course[l] = "none" /\ ~Paused(l)}
findChainableCandidates == {l \in Livreur : course[l] = "ending" /\ ~Paused(l)}
Candidates == findRegularCandidates \union findChainableCandidates

(* Rank by the time of entry, those out of the queue last.                 *)
Sooner(a, b) == row[a].since # 0 /\ (row[b].since = 0 \/ row[a].since < row[b].since)
Rank(l) ==
    IF l \in findChainableCandidates THEN 1
    ELSE 1 + Cardinality({m \in findRegularCandidates : Sooner(m, l)})

computePenaltyMalus(l) == IF row[l].penalty <= at THEN 0 ELSE row[l].positions * PerPosition

Score(l) ==
    WeightQueue \div Rank(l) + Merit[l]
        + (IF l \in findChainableCandidates THEN WeightChain ELSE 0) - computePenaltyMalus(l)

rankCandidates ==
    SetToSortSeq(Candidates, LAMBDA a, b :
        Score(a) > Score(b) \/ (Score(a) = Score(b) /\ Rank(a) < Rank(b)))

-----------------------------------------------------------------------------
(* The handlers of the offers and of the courses.                          *)

onAccept(l) ==
    /\ course[l] = "none"
    /\ row' = [row EXCEPT ![l].since = 0]
    /\ course' = [course EXCEPT ![l] = "active"]
    /\ Meets(l)
    /\ UNCHANGED <<at, qh, refused, pressed>>

LastDelivery(l) ==
    /\ course[l] = "active" /\ course' = [course EXCEPT ![l] = "ending"]
    /\ UNCHANGED <<at, row, qh, refused, overlap, pressed>>

StartComplete(w, l) ==
    /\ qh[w] = QIdle /\ course[l] # "none"
    /\ course' = [course EXCEPT ![l] = "none"]
    /\ IF Paused(l) THEN UNCHANGED qh
       ELSE qh' = [qh EXCEPT ![w] = [pc |-> "requeue", who |-> l, now |-> at]]
    /\ Meets(l)
    /\ UNCHANGED <<at, row, refused, pressed>>

onComplete(w) ==
    LET l == qh[w].who IN
    /\ qh[w].pc = "requeue"
    /\ row' = [row EXCEPT ![l].since = qh[w].now]
    /\ qh' = [qh EXCEPT ![w] = QIdle]
    /\ UNCHANGED <<at, course, refused, overlap, pressed>>

(* onRefuse, onOfferExpired: the row to write is computed from the read.   *)
StartPenalty(w, l) ==
    /\ qh[w] = QIdle /\ Len(refused[l]) < MaxRefusals
    /\ refused' = [refused EXCEPT ![l] = Append(@, at)]
    /\ LET kept == Append(SelectSeq(row[l].refusals, LAMBDA t : t > at - Window), at)
       IN qh' = [qh EXCEPT ![w] =
                   [pc |-> "penalty", who |-> l, now |-> at, kept |-> kept,
                    positions |-> row[l].positions + Positions]]
    /\ Meets(l)
    /\ UNCHANGED <<at, row, course, pressed>>

applyRefusalPenalty(w) ==
    LET h == qh[w]
        fined == [row[h.who] EXCEPT !.refusals = h.kept, !.positions = h.positions,
                                    !.penalty = h.now + PenaltyTime]
    IN /\ h.pc = "penalty"
       /\ row' = [row EXCEPT ![h.who] =
                    IF Len(h.kept) >= Threshold
                    THEN [fined EXCEPT !.auto = h.now + PauseTime, !.since = 0] ELSE fined]
       /\ qh' = [qh EXCEPT ![w] = QIdle]
       /\ UNCHANGED <<at, course, refused, overlap, pressed>>

-----------------------------------------------------------------------------
(* The buttons of the livreur, one statement each.                         *)

Press(l) == pressed < MaxButtons /\ pressed' = pressed + 1 /\ Meets(l)

pauseDeliverer(l, until) ==
    /\ Press(l)
    /\ row' = [row EXCEPT ![l] = [@ EXCEPT !.pause = until, !.since = 0]]
    /\ UNCHANGED <<at, course, qh, refused>>

resumeDeliverer(l) ==
    /\ Press(l)
    /\ row' = [row EXCEPT ![l] = [@ EXCEPT !.pause = 0, !.auto = 0]]
    /\ UNCHANGED <<at, course, qh, refused>>

markAvailable(l) ==
    /\ Press(l)
    /\ row' = [row EXCEPT ![l] = [@ EXCEPT !.since = at, !.pause = 0, !.auto = 0]]
    /\ UNCHANGED <<at, course, qh, refused>>

markUnavailable(l) ==
    /\ Press(l)
    /\ row' = [row EXCEPT ![l].since = 0]
    /\ UNCHANGED <<at, course, qh, refused>>

QTick ==
    /\ at < LastTick /\ at' = at + 1
    /\ UNCHANGED <<row, course, qh, refused, overlap, pressed>>

-----------------------------------------------------------------------------
QNext ==
    \/ \E l \in Livreur :
          \/ onAccept(l) \/ LastDelivery(l)
          \/ resumeDeliverer(l) \/ markAvailable(l) \/ markUnavailable(l)
          \/ \E until \in {at + 1, LastTick + 1} : pauseDeliverer(l, until)
    \/ \E w \in QWorker :
          \/ onComplete(w) \/ applyRefusalPenalty(w)
          \/ \E l \in Livreur : StartComplete(w, l) \/ StartPenalty(w, l)
    \/ QTick

QSpec == QInit /\ [][QNext]_qvars

-----------------------------------------------------------------------------
(* Properties.                                                             *)

(* Types of the columns.                                                   *)
QTypeOK ==
    /\ \A l \in Livreur : /\ row[l].since \in 0 .. LastTick
                          /\ row[l].positions \in Nat /\ course[l] \in {"none", "active", "ending"}
    /\ overlap \subseteq Livreur

(* Nobody waits in the queue during a pause or a sanction: no end of       *)
(* course, refusal or button puts a paused livreur back, unless handlers   *)
(* overlap.                                                                *)
PausedIsOut == \A l \in Livreur : Paused(l) /\ l \notin overlap => row[l].since = 0

(* Every refusal of the sliding window is in the history that decides the  *)
(* automatic pause: none forgotten, none kept beyond the window.           *)
RefusalsCounted ==
    \A l \in Livreur : (l \notin overlap /\ ~Busy(l)) =>
        LET recent(s) == SelectSeq(s, LAMBDA t : t > at - Window)
        IN recent(row[l].refusals) = recent(refused[l])

(* Too many refusals in a window are followed by a pause: the last refusal *)
(* left the livreur paused for its time, unless a button ended the pause.  *)
TooManyPauses ==
    \A l \in Livreur : (l \notin overlap /\ ~Busy(l) /\ pressed = 0 /\ refused[l] # <<>>) =>
        LET last == refused[l][Len(refused[l])]
        IN Len(SelectSeq(refused[l], LAMBDA t : t > last - Window)) >= Threshold
              => row[l].auto = last + PauseTime

(* Of two waiting livreurs of the same merit and without penalty, the one  *)
(* who waits longer is offered the course first.                           *)
FirstInFirstOffered ==
    LET ranking == rankCandidates IN
    \A i, j \in DOMAIN ranking :
        LET a == ranking[i]  b == ranking[j] IN
        /\ {a, b} \subseteq findRegularCandidates
        /\ Merit[a] = Merit[b] /\ computePenaltyMalus(a) = 0 /\ computePenaltyMalus(b) = 0
        /\ Sooner(a, b)
        => i < j
=============================================================================
