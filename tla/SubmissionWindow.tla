-------------------------- MODULE SubmissionWindow --------------------------
(***************************************************************************)
(* provider-service: submission windows and the rules they follow from.  A *)
(* cycle is a month, numbered year * 12 + month - 1; a date is a day       *)
(* counted from the first of a cycle, which has number 1.  In a time zone  *)
(* each local day begins after the one before, so windows compare by date. *)
(***************************************************************************)
EXTENDS Integers

MonthOf(c) == c % 12
YearOf(c)  == c \div 12

IsLeap(y) == y % 4 = 0 /\ (y % 100 # 0 \/ y % 400 = 0)

DaysInMonth(c) ==
    IF MonthOf(c) = 1 THEN IF IsLeap(YearOf(c)) THEN 29 ELSE 28
    ELSE IF MonthOf(c) \in {3, 5, 8, 10} THEN 30 ELSE 31

DaySpec == [kind : {"LAST_DAY"}, offsetDays : 0..27] \cup [kind : {"DAY_OF_MONTH"}, day : 1..31]

\* What validateSubmissionRule lets through before it looks for overlaps. (The
\* cycle is always MONTHLY; the time zone is abstracted.)
SubmissionRule == [opens : DaySpec, closes : DaySpec]

ResolveDay(spec, c) ==
    IF spec.kind = "LAST_DAY" THEN DaysInMonth(c) - spec.offsetDays
    ELSE IF spec.day < DaysInMonth(c) THEN spec.day ELSE DaysInMonth(c)

\* The window of a cycle, from the first of the cycle: closes is the day after
\* its last day, in the next cycle when the closing day precedes the opening.
WindowFor(rule, c) ==
    LET openDay  == ResolveDay(rule.opens, c)
        closeDay == ResolveDay(rule.closes, c)
    IN  [opens  |-> openDay,
         closes |-> 1 + IF closeDay < openDay
                        THEN DaysInMonth(c) + ResolveDay(rule.closes, c + 1)
                        ELSE closeDay]

\* The window of c leaves no gap before the window of the next cycle.
Overlaps(rule, c) == WindowFor(rule, c).closes >= DaysInMonth(c) + WindowFor(rule, c + 1).opens

\* Mutant of CheckedPairs: one year is enough.
PairsOfOneYear == (2024 * 12)..(2024 * 12 + 10)

\* The cycles compared with the next one: January 2024 to November 2025.
CheckedPairs == (2024 * 12)..(2024 * 12 + 22)

\* validateSubmissionRule finds no problem.
Accepted(rule) == \A c \in CheckedPairs : ~Overlaps(rule, c)

-----------------------------------------------------------------------------
(* currentAndNext and windowsOverlapping, for instants on the day p of the  *)
(* cycle c.                                                                 *)

\* The days before a cycle, from a fixed one, as Date.UTC has them: in years
\* that begin in March, so that a leap day is the last of its year.
DaysBefore(c) ==
    LET y == YearOf(c - 2)
        m == MonthOf(c - 2)
    IN  365 * y + y \div 4 - y \div 100 + y \div 400 + (153 * m + 2) \div 5

\* The first day of the cycle c + k, from the first of c.
FirstOf(c, k) == DaysBefore(c + k) - DaysBefore(c)

WindowAt(rule, c, k) ==
    LET w == WindowFor(rule, c + k)
    IN  [opens |-> FirstOf(c, k) + w.opens, closes |-> FirstOf(c, k) + w.closes]

\* Mutant of Nearby: the window that opened last month is forgotten.
Ahead == {0, 1}

Nearby == {-1, 0, 1}

First(S) == CHOOSE k \in S : \A j \in S : k <= j

IsCurrent(rule, c, p, k) == LET w == WindowAt(rule, c, k) IN w.opens <= p /\ p < w.closes
IsAhead(rule, c, p, k)   == WindowAt(rule, c, k).opens > p

\* The candidates for current and for next; each find takes the First.
CurrentOf(rule, c, p) == {k \in Nearby : IsCurrent(rule, c, p, k)}
NextOf(rule, c, p)   == {k \in Nearby : IsAhead(rule, c, p, k)}

\* The windows that end after the day p of c has begun and open before the
\* day t, which is in the cycle c + n or the first after it.
InRange(rule, c, p, t, k) ==
    LET w == WindowAt(rule, c, k) IN w.opens < t /\ w.closes > p

\* windowsOverlapping: one extra month is scanned on each side.
Overlapping(rule, c, n, p, t) == {k \in -1..(n + 1) : InRange(rule, c, p, t, k)}
=============================================================================
