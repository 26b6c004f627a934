------------------------------- MODULE ComboGame -------------------------------
(***************************************************************************)
(* "Combo Mystere": a game opens and closes by its dates, customers guess  *)
(* a combination in a limited number of attempts, and the winners are      *)
(* drawn once among those who found it.  The cron of every backend, the    *)
(* customers and the back office work on the game at once.                 *)
(***************************************************************************)
EXTENDS Naturals, FiniteSetsExt

CONSTANTS
    Player,
    Front, Backend, Office,  \* processes: attempts, one cron per backend, back office
    MaxAttempts, WinnersCount,
    Windows,            \* pairs <<starts_at, ends_at>> the back office enters
    LastTick,           \* bound: the clock
    MaxActions,         \* bound: actions of the back office
    Somebody

VARIABLES
    tick,               \* the time
    game,               \* the ComboGame row
    tries, found,       \* attempts of each player, and whether one was right
    told,               \* opening notifications
    draws,              \* draws made
    winners, gifts,     \* ComboWinner rows; gift rewards of each player
    gh,                 \* the handler each process is in
    crossed,            \* players with two attempts at once
    undone,             \* did a removal undo a settlement?
    actions

gvars == <<tick, game, tries, found, told, draws, winners, gifts, gh, crossed, undone, actions>>

GIdle == [pc |-> "idle", player |-> Somebody, data |-> 0]
NoGame == [status |-> "none", window |-> <<0, 0>>]
InWindow(g, t) == g.window[1] <= t /\ t < g.window[2]

GInit ==
    /\ tick = 0 /\ game = NoGame
    /\ tries = [p \in Player |-> 0] /\ found = [p \in Player |-> FALSE]
    /\ told = 0 /\ draws = 0
    /\ winners = {} /\ gifts = [p \in Player |-> 0]
    /\ gh = [w \in Front \union Backend \union Office |-> GIdle]
    /\ crossed = {} /\ undone = FALSE /\ actions = 0

GAt(w, pc) == gh[w].pc = pc
GTo(w, pc) == gh' = [gh EXCEPT ![w].pc = pc]
GRest(w) == gh' = [gh EXCEPT ![w] = GIdle]

-----------------------------------------------------------------------------
(* A customer plays: the checks, then the attempt is recorded.             *)

StartAttempt(w, p) ==
    /\ gh[w] = GIdle
    /\ game.status = "OPEN" /\ InWindow(game, tick)
    /\ ~found[p] /\ tries[p] < MaxAttempts
    /\ crossed' = IF \E v \in Front : gh[v].player = p THEN crossed \union {p} ELSE crossed
    /\ gh' = [gh EXCEPT ![w] = [pc |-> "try", player |-> p, data |-> tick]]
    /\ UNCHANGED <<tick, game, tries, found, told, draws, winners, gifts, undone, actions>>

submitAttempt(w) ==
    /\ GAt(w, "try") /\ GRest(w)
    /\ IF game.status = "deleted"
       THEN UNCHANGED <<tries, found>>
       ELSE /\ tries' = [tries EXCEPT ![gh[w].player] = @ + 1]
            /\ \E right \in BOOLEAN : found' = [found EXCEPT ![gh[w].player] = @ \/ right]
    /\ UNCHANGED <<tick, game, told, draws, winners, gifts, crossed, undone, actions>>

-----------------------------------------------------------------------------
(* The cron: opens, closes, draws; its own flag keeps one run per backend. *)

StartLifecycle(w) ==
    /\ gh[w] = GIdle
    /\ gh' = [gh EXCEPT ![w] =
          [pc |-> IF game.status = "SCHEDULED" /\ InWindow(game, tick) THEN "open" ELSE "close",
           player |-> Somebody, data |-> tick]]
    /\ UNCHANGED <<tick, game, tries, found, told, draws, winners, gifts, crossed, undone, actions>>

ClaimOpening(w) ==
    /\ GAt(w, "open") /\ GTo(w, "close")
    /\ IF game.status = "SCHEDULED"
       THEN game' = [game EXCEPT !.status = "OPEN"] /\ told' = told + 1
       ELSE UNCHANGED <<game, told>>
    /\ UNCHANGED <<tick, tries, found, draws, winners, gifts, crossed, undone, actions>>

Close(w) ==
    /\ GAt(w, "close") /\ GTo(w, "due")
    /\ game' = IF game.status \in {"OPEN", "SCHEDULED"} /\ game.window[2] <= gh[w].data
               THEN [game EXCEPT !.status = "CLOSED"] ELSE game
    /\ UNCHANGED <<tick, tries, found, told, draws, winners, gifts, crossed, undone, actions>>

FindClosed(w) ==
    /\ GAt(w, "due")
    /\ IF game.status = "CLOSED" THEN GTo(w, "claim") ELSE GRest(w)
    /\ UNCHANGED <<tick, game, tries, found, told, draws, winners, gifts, crossed, undone, actions>>

ClaimSettlement(w) ==
    /\ GAt(w, "claim")
    /\ IF game.status = "CLOSED"
       THEN game' = [game EXCEPT !.status = "SETTLED"] /\ GTo(w, "draw")
       ELSE GRest(w) /\ UNCHANGED game
    /\ UNCHANGED <<tick, tries, found, told, draws, winners, gifts, crossed, undone, actions>>

(* The draw, and the two writes per winner: gift first, then the row.      *)
settleGame(w) ==
    LET candidates == {p \in Player : found[p]}
        n == Min({Max({1, WinnersCount}), Cardinality(candidates)})
    IN /\ GAt(w, "draw")
       /\ \E drawn \in {d \in SUBSET candidates : Cardinality(d) = n} :
             gh' = [gh EXCEPT ![w] = [pc |-> "gift", player |-> Somebody, data |-> drawn]]
       /\ draws' = draws + 1
       /\ UNCHANGED <<tick, game, tries, found, told, winners, gifts, crossed, undone, actions>>

(* A gift that cannot be created leaves that customer out.                 *)
createGiftReward(w) ==
    /\ GAt(w, "gift")
    /\ \/ gh[w].data = {} /\ GRest(w) /\ UNCHANGED gifts
       \/ \E p \in gh[w].data :
            \/ /\ gifts' = [gifts EXCEPT ![p] = @ + 1]
               /\ gh' = [gh EXCEPT ![w] = [pc |-> "record", player |-> p, data |-> @.data \ {p}]]
            \/ gh' = [gh EXCEPT ![w].data = @ \ {p}] /\ UNCHANGED gifts
    /\ UNCHANGED <<tick, game, tries, found, told, draws, winners, crossed, undone, actions>>

RecordWinner(w) ==
    /\ GAt(w, "record")
    /\ winners' = IF game.status = "deleted" THEN winners ELSE winners \union {gh[w].player}
    /\ gh' = [gh EXCEPT ![w] = [pc |-> "gift", player |-> Somebody, data |-> @.data]]
    /\ UNCHANGED <<tick, game, tries, found, told, draws, gifts, crossed, undone, actions>>

-----------------------------------------------------------------------------
(* The back office.                                                        *)

Acts(w) == gh[w] = GIdle /\ actions < MaxActions /\ actions' = actions + 1

create(w, window) ==
    /\ Acts(w) /\ game.status = "none"
    /\ game' = [status |-> IF window[1] <= tick THEN "OPEN" ELSE "SCHEDULED", window |-> window]
    /\ told' = IF window[1] <= tick THEN told + 1 ELSE told
    /\ UNCHANGED <<tick, tries, found, draws, winners, gifts, gh, crossed, undone>>

StartUpdate(w, window) ==
    /\ Acts(w) /\ game.status \in {"SCHEDULED", "OPEN", "CLOSED"}
    /\ gh' = [gh EXCEPT ![w] = [pc |-> "edit", player |-> Somebody, data |-> window]]
    /\ UNCHANGED <<tick, game, tries, found, told, draws, winners, gifts, crossed, undone>>

update(w) ==
    /\ GAt(w, "edit") /\ GRest(w)
    /\ game' = IF game.status = "deleted" THEN game ELSE [game EXCEPT !.window = gh[w].data]
    /\ UNCHANGED <<tick, tries, found, told, draws, winners, gifts, crossed, undone, actions>>

StartRemove(w) ==
    /\ Acts(w) /\ game.status \in {"SCHEDULED", "OPEN", "CLOSED"}
    /\ gh' = [gh EXCEPT ![w] = [pc |-> IF \E p \in Player : tries[p] > 0 THEN "remove" ELSE "delete",
                                player |-> Somebody, data |-> 0]]
    /\ UNCHANGED <<tick, game, tries, found, told, draws, winners, gifts, crossed, undone>>

(* By id: a game somebody played is closed, the others are deleted with    *)
(* their attempts and winners.                                             *)
remove(w) ==
    /\ undone' = (undone \/ game.status = "SETTLED")
    /\ \/ /\ GAt(w, "remove")
          /\ game' = IF game.status = "deleted" THEN game ELSE [game EXCEPT !.status = "CLOSED"]
          /\ UNCHANGED <<tries, found, winners>>
       \/ /\ GAt(w, "delete")
          /\ game' = [game EXCEPT !.status = "deleted"]
          /\ tries' = [p \in Player |-> 0] /\ found' = [p \in Player |-> FALSE]
          /\ winners' = {}
    /\ GRest(w)
    /\ UNCHANGED <<tick, told, draws, gifts, crossed, actions>>

GTick ==
    /\ tick < LastTick /\ tick' = tick + 1
    /\ UNCHANGED <<game, tries, found, told, draws, winners, gifts, gh, crossed, undone, actions>>

-----------------------------------------------------------------------------
LifecycleStep(w) ==
    \/ ClaimOpening(w) \/ Close(w) \/ FindClosed(w) \/ ClaimSettlement(w)
    \/ settleGame(w) \/ createGiftReward(w) \/ RecordWinner(w)

GNext ==
    \/ \E w \in Front : submitAttempt(w) \/ \E p \in Player : StartAttempt(w, p)
    \/ \E w \in Backend : StartLifecycle(w) \/ LifecycleStep(w)
    \/ \E w \in Office : \/ update(w) \/ StartRemove(w) \/ remove(w)
                       \/ \E window \in Windows : create(w, window) \/ StartUpdate(w, window)
    \/ GTick

GSpec == GInit /\ [][GNext]_gvars

-----------------------------------------------------------------------------
(* Properties.                                                             *)

(* Types of the rows.                                                      *)
GTypeOK ==
    /\ game.status \in {"none", "SCHEDULED", "OPEN", "CLOSED", "SETTLED", "deleted"}
    /\ winners \subseteq Player /\ told \in Nat /\ draws \in Nat

(* All customers are told of the opening once, whether the game opened at  *)
(* its creation or by the cron of one backend or the other.                *)
OpeningToldOnce == told <= 1

(* The attempts a customer makes one after the other stay within the       *)
(* maximum (RG-10); two at once may both pass the count.                   *)
WithinAttempts == \A p \in Player : p \notin crossed => tries[p] <= MaxAttempts

(* The two crons, and a removal, draw the winners of a game once; only a   *)
(* removal that read the game before its settlement brings a second draw.  *)
DrawnOnce == ~undone => draws <= 1

(* A winner has found the combination and has one gift, nobody else has a  *)
(* gift once the draw is over, and no more are drawn than announced.       *)
WinnersHaveOneGift ==
    /\ \A p \in winners : found[p]
    /\ ~undone => /\ \A p \in Player : gifts[p] <= 1
                    /\ Cardinality(winners) <= Max({1, WinnersCount})
                    /\ (\A w \in Backend : ~GAt(w, "record")) => winners = {q \in Player : gifts[q] > 0}
=============================================================================
