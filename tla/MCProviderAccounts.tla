------------------------- MODULE MCProviderAccounts -------------------------
(* Model values for the run of ProviderAccounts. *)
EXTENDS ProviderAccounts, TLC
CONSTANTS r1, r2, p1, p2, none

Day(n)      == [kind |-> "DAY_OF_MONTH", day |-> n]
LastDay(n)  == [kind |-> "LAST_DAY", offsetDays |-> n]
RuleOf(o, c) == [opens |-> o, closes |-> c]

\* Two windows into the next month: that of the second overlaps the one after
\* it, but only in a February of 28 days.
Rules == {RuleOf(LastDay(0), Day(26)), RuleOf(LastDay(0), Day(27))}

\* December 2023 to March 2025.
SomeCycles == (2023 * 12 + 11)..(2025 * 12 + 2)

SomeReach == -2..3

Symmetry == Permutations(Caller) \cup Permutations(Provider)
=============================================================================
