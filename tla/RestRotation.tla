------------------------------ MODULE RestRotation ------------------------------
(***************************************************************************)
(* The rest days of a planning: which days of the period each livreur of   *)
(* the restaurant does not work.  Days are numbers, day d being the week   *)
(* day d % 7 with Sunday 0, as in JavaScript; forbidden days of rest are   *)
(* those of great activity.                                                *)
(***************************************************************************)
EXTENDS Integers, FiniteSets

CONSTANTS
    Teams,         \* numbers of livreurs to consider
    Starts,        \* first days of a period
    Lengths,       \* lengths of a period, in days
    Forbidden,     \* sets of week days without rest
    Counts,        \* rest days per livreur and week
    SoloRest       \* week day of rest of a livreur alone

VARIABLE period    \* the planning under consideration

Periods == [n : Teams, start : Starts, len : Lengths, no : Forbidden, k : Counts]

-----------------------------------------------------------------------------
weekday(d) == d % 7
enumerateDays(start, len) == start .. start + len - 1

Eligible(days, no) == {d \in days : weekday(d) \notin no}

(* groupByWeek: an eligible Monday with an eligible day before it opens a  *)
(* new week; the rank of the week a day falls in.                          *)
WeekIndex(days, no, d) ==
    LET in == Eligible(days, no) IN
    Cardinality({m \in in : weekday(m) = 1 /\ m <= d /\ \E e \in in : e < m})

Week(days, no, w) == {d \in Eligible(days, no) : WeekIndex(days, no, d) = w}
Weeks(days, no) == {WeekIndex(days, no, d) : d \in Eligible(days, no)}

Nth(S, i) == CHOOSE x \in S : Cardinality({y \in S : y < x}) = i

SoloDay(no) ==
    IF SoloRest \notin no THEN SoloRest
    ELSE IF \A d \in 0 .. 6 : d \in no THEN 1
    ELSE LET monday(d) == (d + 6) % 7 IN
         CHOOSE d \in (0 .. 6) \ no : \A e \in (0 .. 6) \ no : monday(d) <= monday(e)

(* Mutant: the forbidden days are eligible.                                *)
RestAnyDay(n, i, days, no, k) ==
    IF n = 1 THEN {d \in days : weekday(d) = SoloRest}
    ELSE UNION {LET week == Week(days, {}, w) IN
                {Nth(week, (i + w + r * n) % Cardinality(week)) : r \in 0 .. k - 1} : w \in Weeks(days, {})}

(* The days of rest of livreur i of n, k per week.                         *)
computeRestDayDistribution(n, i, days, no, k) ==
    IF n = 1 THEN {d \in days : weekday(d) = SoloDay(no)}
    ELSE UNION {LET week == Week(days, no, w) IN
                {Nth(week, (i + w + r * n) % Cardinality(week)) : r \in 0 .. k - 1} : w \in Weeks(days, no)}

RestOf(p, i) ==
    computeRestDayDistribution(p.n, i, enumerateDays(p.start, p.len), p.no, p.k)

RestInit == period \in Periods
AnotherPeriod == period' \in {p \in Periods : p.no = period.no /\ p.n = period.n /\ p.k = period.k}
RestSpec == RestInit /\ [][AnotherPeriod]_period

-----------------------------------------------------------------------------
(* Properties.                                                             *)

(* No livreur rests on a forbidden day, unless every day is forbidden.     *)
NoRestOnBusyDays ==
    period.no # 0 .. 6 => \A i \in 0 .. period.n - 1 : \A d \in RestOf(period, i) : weekday(d) \notin period.no

(* Each livreur of a team rests in every week that has an eligible day,    *)
(* and never more than the number of days set.                             *)
EveryoneRests ==
    LET days == enumerateDays(period.start, period.len) IN
    period.n > 1 =>
        \A i \in 0 .. period.n - 1, w \in Weeks(days, period.no) :
            Cardinality(RestOf(period, i) \intersect Week(days, period.no, w)) \in 1 .. period.k

(* A team no larger than a week's eligible days never rests together.      *)
RestIsStaggered ==
    LET days == enumerateDays(period.start, period.len) IN
    period.n > 1 /\ period.k = 1 =>
        \A w \in Weeks(days, period.no) :
            LET week == Week(days, period.no, w) IN
            Cardinality(week) >= period.n =>
                \A i, j \in 0 .. period.n - 1 :
                    i # j => RestOf(period, i) \intersect RestOf(period, j) \intersect week = {}

=============================================================================
