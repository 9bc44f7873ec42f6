----------------------- MODULE ProviderAccountsProofs -----------------------
(***************************************************************************)
(* Proofs about ProviderAccounts, its verdict cache and its submission     *)
(* windows, for any callers, providers, rules and bounds.                  *)
(***************************************************************************)
EXTENDS ProviderAccounts, WellFoundedInduction, TLAPS

-----------------------------------------------------------------------------
(* The validator's finite check is enough. Whether windows overlap depends *)
(* on the lengths of two months, and the two years it looks at have every  *)
(* pair of lengths.                                                        *)

LEMMA Months ==
  ASSUME NEW c \in Int
  PROVE  /\ MonthOf(c) \in 0..11
         /\ MonthOf(c) < 11 => MonthOf(c + 1) = MonthOf(c) + 1 /\ YearOf(c + 1) = YearOf(c)
         /\ MonthOf(c) = 11 => MonthOf(c + 1) = 0
BY DEF MonthOf, YearOf

\* The length of the month m of a year.
Length(m, leap) ==
    IF m = 1 THEN IF leap THEN 29 ELSE 28 ELSE IF m \in {3, 5, 8, 10} THEN 30 ELSE 31

LEMMA LengthOf == ASSUME NEW c PROVE DaysInMonth(c) = Length(MonthOf(c), IsLeap(YearOf(c)))
BY DEF DaysInMonth, Length

LEMMA TwoYears ==
  ASSUME NEW m \in 0..22
  PROVE  /\ MonthOf(24288 + m) = IF m < 12 THEN m ELSE m - 12
         /\ IsLeap(YearOf(24288 + m)) = (m < 12)
BY DEF MonthOf, YearOf, IsLeap

\* One of the pairs that are checked has the lengths of c and of the next.
LEMMA LengthsChecked ==
  ASSUME NEW c \in Int
  PROVE  \E j \in CheckedPairs : /\ j \in Int
                                 /\ DaysInMonth(j) = DaysInMonth(c)
                                 /\ DaysInMonth(j + 1) = DaysInMonth(c + 1)
<1> DEFINE m    == MonthOf(c)
           leap == IsLeap(YearOf(c))
           k    == IF leap \/ m = 11 THEN m ELSE m + 12
           j    == 24288 + k
<1>1. m \in 0..11 /\ k \in 0..22 /\ leap \in BOOLEAN
  BY Months DEF IsLeap
<1>2. j \in CheckedPairs /\ j \in Int
  BY <1>1 DEF CheckedPairs
<1>3. MonthOf(j) = m /\ (m # 11 => IsLeap(YearOf(j)) = leap)
  BY <1>1, TwoYears
<1>4. /\ m < 11 => MonthOf(j + 1) = m + 1 /\ YearOf(j + 1) = YearOf(j)
      /\ m = 11 => MonthOf(j + 1) = 0
  BY <1>2, <1>3, Months
<1>5. DaysInMonth(j) = DaysInMonth(c)
  BY <1>1, <1>3, LengthOf DEF Length
<1>6. DaysInMonth(j + 1) = DaysInMonth(c + 1)
  BY <1>1, <1>3, <1>4, LengthOf, Months DEF Length
<1>7. QED
  BY <1>2, <1>5, <1>6

LEMMA OverlapByLength ==
  ASSUME NEW rule, NEW c, NEW j,
         DaysInMonth(j) = DaysInMonth(c), DaysInMonth(j + 1) = DaysInMonth(c + 1)
  PROVE  Overlaps(rule, j) <=> Overlaps(rule, c)
<1>1. \A spec : ResolveDay(spec, j) = ResolveDay(spec, c)
  BY DEF ResolveDay
<1>2. \A spec : ResolveDay(spec, j + 1) = ResolveDay(spec, c + 1)
  BY DEF ResolveDay
<1>3. WindowFor(rule, j).closes = WindowFor(rule, c).closes
  BY <1>1, <1>2 DEF WindowFor
<1>4. WindowFor(rule, j + 1).opens = WindowFor(rule, c + 1).opens
  BY <1>2 DEF WindowFor
<1>5. QED
  BY <1>3, <1>4 DEF Overlaps

\* A rule that passes validation leaves a gap in every month of every year:
\* the finite check of validateSubmissionRule is exact.
THEOREM FiniteCheckIsEnough ==
  ASSUME NEW rule, Accepted(rule), NEW c \in Int
  PROVE  ~Overlaps(rule, c)
<1>1. PICK j \in CheckedPairs : /\ DaysInMonth(j) = DaysInMonth(c)
                                /\ DaysInMonth(j + 1) = DaysInMonth(c + 1)
  BY LengthsChecked
<1>2. ~Overlaps(rule, j)
  BY DEF Accepted
<1>3. QED
  BY <1>1, <1>2, OverlapByLength

-----------------------------------------------------------------------------
(* The windows a search through the neighbouring months finds.  Windows    *)
(* that never overlap follow one another, and the window of a month opens  *)
(* in it: so nothing beyond the next month can be current, or the next.    *)

\* The leap days of the years up to y, and the days of a year before its month m,
\* both of years that begin in March.
Leaps(y)  == y \div 4 - y \div 100 + y \div 400
Before(m) == (153 * m + 2) \div 5

LEMMA DaysByMonth ==
  ASSUME NEW c \in Int
  PROVE  /\ DaysBefore(c) = 365 * YearOf(c - 2) + Leaps(YearOf(c - 2)) + Before(MonthOf(c - 2))
         /\ YearOf(c - 2) \in Int /\ MonthOf(c - 2) \in 0..11
         /\ c = 12 * YearOf(c - 2) + MonthOf(c - 2) + 2
<1>1. /\ YearOf(c - 2) \in Int /\ MonthOf(c - 2) \in 0..11
      /\ c = 12 * YearOf(c - 2) + MonthOf(c - 2) + 2
  BY DEF YearOf, MonthOf
<1>2. QED
  BY <1>1 DEF DaysBefore, Leaps, Before

LEMMA LeapsStep ==
  ASSUME NEW y \in Int
  PROVE  Leaps(y) \in Int /\ Leaps(y + 1) = Leaps(y) + IF IsLeap(y + 1) THEN 1 ELSE 0
<1>1. (y + 1) \div 4 = y \div 4 + IF (y + 1) % 4 = 0 THEN 1 ELSE 0
  OBVIOUS
<1>2. (y + 1) \div 100 = y \div 100 + IF (y + 1) % 100 = 0 THEN 1 ELSE 0
  OBVIOUS
<1>3. (y + 1) \div 400 = y \div 400 + IF (y + 1) % 400 = 0 THEN 1 ELSE 0
  OBVIOUS
<1>4. (y + 1) % 400 = 0 => (y + 1) % 100 = 0
  OBVIOUS
<1>5. (y + 1) % 100 = 0 => (y + 1) % 4 = 0
  OBVIOUS
<1>6. y \div 4 \in Int /\ y \div 100 \in Int /\ y \div 400 \in Int
  OBVIOUS
<1>7. QED
  BY <1>1, <1>2, <1>3, <1>4, <1>5, <1>6 DEF Leaps, IsLeap

\* The two ways to count days agree: a month is as long as its number of days.
LEMMA NextMonth ==
  ASSUME NEW c \in Int
  PROVE  DaysBefore(c) \in Int /\ DaysBefore(c + 1) = DaysBefore(c) + DaysInMonth(c)
<1> DEFINE y == YearOf(c - 2)
           m == MonthOf(c - 2)
<1>1. y \in Int /\ m \in 0..11 /\ c = 12 * y + m + 2 /\ Leaps(y) \in Int
  BY DaysByMonth, LeapsStep
<1>2. DaysBefore(c) = 365 * y + Leaps(y) + Before(m)
  BY DaysByMonth
<1>3. \A n \in 0..11 : Before(n) \in Int
  BY DEF Before
<1>4. CASE m < 11
  <2>1. YearOf((c + 1) - 2) = y /\ MonthOf((c + 1) - 2) = m + 1
    BY <1>1, <1>4 DEF YearOf, MonthOf
  <2>2. DaysBefore(c + 1) = 365 * y + Leaps(y) + Before(m + 1)
    <3>1. c + 1 \in Int
      OBVIOUS
    <3>2. QED
      BY <2>1, <3>1, DaysByMonth
  <2>3. MonthOf(c) = IF m < 10 THEN m + 2 ELSE 0
    BY <1>1, <1>4 DEF MonthOf
  <2>4. DaysInMonth(c) = Before(m + 1) - Before(m)
    BY <1>1, <1>4, <2>3 DEF DaysInMonth, Before
  <2>5. QED
    BY <1>1, <1>2, <1>3, <1>4, <2>2, <2>4
<1>5. CASE m = 11
  <2>1. YearOf((c + 1) - 2) = y + 1 /\ MonthOf((c + 1) - 2) = 0
    BY <1>1, <1>5 DEF YearOf, MonthOf
  <2>2. DaysBefore(c + 1) = 365 * (y + 1) + Leaps(y + 1) + Before(0)
    <3>1. c + 1 \in Int
      OBVIOUS
    <3>2. QED
      BY <2>1, <3>1, DaysByMonth
  <2>3. MonthOf(c) = 1 /\ YearOf(c) = y + 1
    BY <1>1, <1>5 DEF MonthOf, YearOf
  <2>4. DaysInMonth(c) = 28 + IF IsLeap(y + 1) THEN 1 ELSE 0
    BY <2>3 DEF DaysInMonth
  <2>5. Before(11) = 337 /\ Before(0) = 0
    BY DEF Before
  <2>6. Leaps(y + 1) = Leaps(y) + IF IsLeap(y + 1) THEN 1 ELSE 0
    BY <1>1, LeapsStep
  <2> DEFINE more == IF IsLeap(y + 1) THEN 1 ELSE 0
  <2>7. more \in Int /\ Leaps(y + 1) = Leaps(y) + more /\ DaysInMonth(c) = 28 + more
    BY <2>4, <2>6
  <2> HIDE DEF y, m, more
  <2>8. DaysBefore(c) = 365 * y + Leaps(y) + 337
    BY <1>2, <1>5, <2>5
  <2>9. DaysBefore(c + 1) = 365 * (y + 1) + (Leaps(y) + more)
    BY <1>1, <2>2, <2>5, <2>7
  <2>10. QED
    BY <1>1, <2>7, <2>8, <2>9
<1>6. QED
  BY <1>1, <1>4, <1>5

LEMMA MonthLength == ASSUME NEW c \in Int PROVE DaysInMonth(c) \in 28..31
BY DEF DaysInMonth

LEMMA LeastExists ==
  ASSUME NEW S, S \subseteq Nat, S # {}
  PROVE  \E n \in S : \A k \in S : n <= k
<1>1. IsWellFoundedOn({p \in Nat \X Nat : p[1] < p[2]}, Nat)
  BY NatLessThanWellFounded, SMT DEF OpToRel
<1>2. PICK n \in S : \A k \in S : ~(<<k, n>> \in {p \in Nat \X Nat : p[1] < p[2]})
  BY <1>1, WFMin
<1>3. \A k \in S : n <= k
  <2>1. SUFFICES ASSUME NEW k \in S PROVE n <= k
    OBVIOUS
  <2>2. n \in Nat /\ k \in Nat
    OBVIOUS
  <2>3. ~(k < n)
    BY <1>2, <2>2
  <2>4. QED
    BY <2>2, <2>3
<1>4. QED
  BY <1>3

\* Later months begin later: the first month that began before c would follow
\* one that did not.
LEMMA DaysGrow ==
  ASSUME NEW c \in Int, NEW k \in Nat
  PROVE  DaysBefore(c) <= DaysBefore(c + k)
<1> DEFINE Earlier == {n \in Nat : ~(DaysBefore(c) <= DaysBefore(c + n))}
<1>1. SUFFICES ASSUME Earlier # {} PROVE FALSE
  OBVIOUS
<1>2. PICK n \in Earlier : \A j \in Earlier : n <= j
  BY <1>1, LeastExists
<1>3. n # 0
  BY <1>2, NextMonth
<1>4. n - 1 \in Nat /\ n - 1 \notin Earlier
  BY <1>2, <1>3
<1>5. DaysBefore(c) <= DaysBefore(c + (n - 1))
  BY <1>4
<1>6. DaysBefore(c + n) = DaysBefore(c + (n - 1)) + DaysInMonth(c + (n - 1))
  BY <1>4, NextMonth
<1>7. QED
  BY <1>2, <1>4, <1>5, <1>6, NextMonth, MonthLength

\* A window opens in its month and closes after that.
LEMMA WindowShape ==
  ASSUME NEW rule \in SubmissionRule, NEW c \in Int
  PROVE  /\ WindowFor(rule, c).opens \in 1..DaysInMonth(c)
         /\ WindowFor(rule, c).closes \in Int
         /\ WindowFor(rule, c).opens < WindowFor(rule, c).closes
<1>1. \A spec \in DaySpec, j \in Int : ResolveDay(spec, j) \in 1..DaysInMonth(j)
  BY MonthLength DEF DaySpec, ResolveDay
<1>2. rule.opens \in DaySpec /\ rule.closes \in DaySpec
  BY DEF SubmissionRule
<1>3. /\ ResolveDay(rule.opens, c) \in 1..DaysInMonth(c)
      /\ ResolveDay(rule.closes, c) \in 1..DaysInMonth(c)
      /\ ResolveDay(rule.closes, c + 1) \in 1..DaysInMonth(c + 1)
  BY <1>1, <1>2
<1>4. DaysInMonth(c) \in Int /\ DaysInMonth(c + 1) \in Int
  BY MonthLength
<1>5. QED
  BY <1>3, <1>4 DEF WindowFor

\* The windows around a month, one after the other.
LEMMA WindowsFollow ==
  ASSUME NEW rule \in SubmissionRule, Accepted(rule), NEW c \in Int, NEW k \in Int
  PROVE  /\ WindowAt(rule, c, k).opens \in Int /\ WindowAt(rule, c, k).closes \in Int
         /\ FirstOf(c, k) \in Int
         /\ FirstOf(c, k) < WindowAt(rule, c, k).opens
         /\ WindowAt(rule, c, k).opens <= FirstOf(c, k + 1)
         /\ WindowAt(rule, c, k).opens < WindowAt(rule, c, k).closes
         /\ WindowAt(rule, c, k).closes < WindowAt(rule, c, k + 1).opens
<1> DEFINE j == c + k
<1>1. j \in Int /\ c + (k + 1) = j + 1
  OBVIOUS
<1>2. DaysInMonth(j) \in Int /\ DaysBefore(c) \in Int /\ DaysBefore(j) \in Int
      /\ DaysBefore(j + 1) = DaysBefore(j) + DaysInMonth(j)
  BY <1>1, NextMonth, MonthLength
<1>3. ~Overlaps(rule, j)
  BY <1>1, FiniteCheckIsEnough
<1>4. WindowFor(rule, j + 1).opens \in Int
  <2>1. WindowFor(rule, j + 1).opens \in 1..DaysInMonth(j + 1) /\ DaysInMonth(j + 1) \in Int
    BY <1>1, WindowShape, MonthLength
  <2>2. QED
    BY <2>1
<1>5. WindowFor(rule, j).closes < DaysInMonth(j) + WindowFor(rule, j + 1).opens
  BY <1>1, <1>2, <1>3, <1>4, WindowShape DEF Overlaps
<1>6. FirstOf(c, k) = DaysBefore(j) - DaysBefore(c)
      /\ FirstOf(c, k + 1) = FirstOf(c, k) + DaysInMonth(j)
  BY <1>1, <1>2 DEF FirstOf
<1>7. /\ WindowAt(rule, c, k).opens = FirstOf(c, k) + WindowFor(rule, j).opens
      /\ WindowAt(rule, c, k).closes = FirstOf(c, k) + WindowFor(rule, j).closes
      /\ WindowAt(rule, c, k + 1).opens = FirstOf(c, k + 1) + WindowFor(rule, j + 1).opens
  BY <1>1 DEF WindowAt
<1>8. WindowFor(rule, j).opens \in 1..DaysInMonth(j) /\ WindowFor(rule, j).closes \in Int
      /\ WindowFor(rule, j).opens < WindowFor(rule, j).closes
  BY <1>1, WindowShape
<1> HIDE DEF j
<1>9. QED
  BY <1>2, <1>4, <1>5, <1>6, <1>7, <1>8

LEMMA FirstsGrow ==
  ASSUME NEW c \in Int, NEW i \in Int, NEW k \in Int, i <= k
  PROVE  FirstOf(c, i) <= FirstOf(c, k)
<1>1. k - i \in Nat /\ c + k = (c + i) + (k - i)
  OBVIOUS
<1>2. DaysBefore(c + i) <= DaysBefore(c + k)
  <2>1. c + i \in Int
    OBVIOUS
  <2>2. DaysBefore(c + i) <= DaysBefore((c + i) + (k - i))
    BY <1>1, <2>1, DaysGrow
  <2>3. QED
    BY <1>1, <2>2
<1>3. DaysBefore(c + i) \in Int /\ DaysBefore(c + k) \in Int /\ DaysBefore(c) \in Int
  <2>1. c + i \in Int /\ c + k \in Int
    OBVIOUS
  <2>2. QED
    BY <2>1, NextMonth
<1>4. QED
  BY <1>2, <1>3 DEF FirstOf

\* The window of an earlier month is over before that of a later one opens.
LEMMA WindowsApart ==
  ASSUME NEW rule \in SubmissionRule, Accepted(rule), NEW c \in Int,
         NEW i \in Int, NEW k \in Int, i < k
  PROVE  WindowAt(rule, c, i).closes < WindowAt(rule, c, k).opens
<1>1. WindowAt(rule, c, i).closes < WindowAt(rule, c, i + 1).opens
      /\ WindowAt(rule, c, i).closes \in Int
      /\ WindowAt(rule, c, i + 1).opens \in Int
      /\ WindowAt(rule, c, i + 1).opens <= FirstOf(c, i + 2)
  BY WindowsFollow
<1>2. CASE k = i + 1
  BY <1>1, <1>2
<1>3. CASE i + 2 <= k
  <2>1. FirstOf(c, i + 2) <= FirstOf(c, k) /\ FirstOf(c, i + 2) \in Int
    BY <1>3, FirstsGrow, WindowsFollow
  <2>2. FirstOf(c, k) < WindowAt(rule, c, k).opens
        /\ FirstOf(c, k) \in Int /\ WindowAt(rule, c, k).opens \in Int
    BY WindowsFollow
  <2>3. QED
    BY <1>1, <2>1, <2>2
<1>4. QED
  BY <1>2, <1>3

\* Where the windows lie, seen from a day of the month c.
LEMMA WindowsAround ==
  ASSUME NEW rule \in SubmissionRule, Accepted(rule), NEW c \in Int,
         NEW p \in 1..DaysInMonth(c), NEW k \in Int
  PROVE  /\ k <= -2 => WindowAt(rule, c, k).closes < p
         /\ k <= -1 => WindowAt(rule, c, k).opens < p
         /\ k >= 1 => WindowAt(rule, c, k).opens > p
<1>1. FirstOf(c, 0) = 0 /\ FirstOf(c, 1) = DaysInMonth(c) /\ DaysInMonth(c) \in Int
  BY NextMonth, MonthLength DEF FirstOf
<1>2. WindowAt(rule, c, k).opens \in Int /\ WindowAt(rule, c, k).closes \in Int
      /\ WindowAt(rule, c, k).opens <= FirstOf(c, k + 1)
      /\ FirstOf(c, k) < WindowAt(rule, c, k).opens
      /\ FirstOf(c, k) \in Int /\ FirstOf(c, k + 1) \in Int
  BY WindowsFollow
<1>3. ASSUME k <= -1 PROVE WindowAt(rule, c, k).opens < p
  BY <1>1, <1>2, <1>3, FirstsGrow
<1>4. ASSUME k <= -2 PROVE WindowAt(rule, c, k).closes < p
  <2>1. WindowAt(rule, c, k).closes < WindowAt(rule, c, -1).opens
    BY <1>4, WindowsApart
  <2>2. WindowAt(rule, c, -1).opens <= FirstOf(c, 0) /\ WindowAt(rule, c, -1).opens \in Int
    BY WindowsFollow
  <2>3. QED
    BY <1>1, <1>2, <2>1, <2>2
<1>5. ASSUME k >= 1 PROVE WindowAt(rule, c, k).opens > p
  BY <1>1, <1>2, <1>5, FirstsGrow
<1>6. QED
  BY <1>3, <1>4, <1>5

\* currentAndNext looks at three months, and finds for every day what a search
\* through all months would.
LEMMA CurrentAndNextFound ==
  ASSUME NEW rule \in SubmissionRule, Accepted(rule), NEW c \in Int,
         NEW p \in 1..DaysInMonth(c)
  PROVE  FindsCurrentAndNext(rule, c, p)
<1>1. p \in Int
  BY MonthLength
<1>2. \A k \in Int : WindowAt(rule, c, k).opens \in Int /\ WindowAt(rule, c, k).closes \in Int
                     /\ WindowAt(rule, c, k).opens < WindowAt(rule, c, k).closes
  BY WindowsFollow
<1>3. ASSUME NEW k \in Reach, IsCurrent(rule, c, p, k) PROVE CurrentOf(rule, c, p) = {k}
  <2>1. k \in Int /\ WindowAt(rule, c, k).opens <= p /\ p < WindowAt(rule, c, k).closes
    BY <1>3, ReachAssumption DEF IsCurrent
  <2>2. k \in Nearby
    BY <1>1, <1>2, <2>1, WindowsAround DEF Nearby
  <2>3. ASSUME NEW i \in Nearby, IsCurrent(rule, c, p, i) PROVE i = k
    <3>1. i \in Int /\ WindowAt(rule, c, i).opens <= p /\ p < WindowAt(rule, c, i).closes
      BY <2>3 DEF IsCurrent, Nearby
    <3>2. ~(i < k)
      BY <1>1, <1>2, <2>1, <3>1, WindowsApart
    <3>3. ~(k < i)
      BY <1>1, <1>2, <2>1, <3>1, WindowsApart
    <3>4. QED
      BY <2>1, <3>1, <3>2, <3>3
  <2>4. QED
    BY <1>3, <2>2, <2>3 DEF CurrentOf
<1>4. 1 \in NextOf(rule, c, p)
  BY WindowsAround DEF NextOf, Nearby, IsAhead
<1> DEFINE f == First(NextOf(rule, c, p))
<1>5. f \in NextOf(rule, c, p) /\ \A j \in NextOf(rule, c, p) : f <= j
  <2>1. NextOf(rule, c, p) \subseteq {0, 1}
    BY <1>1, <1>2, WindowsAround DEF NextOf, Nearby, IsAhead
  <2>2. \E k \in NextOf(rule, c, p) : \A j \in NextOf(rule, c, p) : k <= j
    <3>1. CASE 0 \in NextOf(rule, c, p)
      BY <2>1, <3>1
    <3>2. CASE 0 \notin NextOf(rule, c, p)
      BY <1>4, <2>1, <3>2
    <3>3. QED
      BY <3>1, <3>2
  <2>3. QED
    BY <2>2 DEF First
<1>6. ASSUME NEW k \in Reach, IsAhead(rule, c, p, k)
      PROVE  WindowAt(rule, c, f).opens <= WindowAt(rule, c, k).opens
  <2>1. k \in Int /\ WindowAt(rule, c, k).opens > p
    BY <1>6, ReachAssumption DEF IsAhead
  <2>2. k >= 0
    BY <1>1, <1>2, <2>1, WindowsAround
  <2>3. f \in Int /\ f <= 1
    BY <1>4, <1>5 DEF NextOf, Nearby
  <2>4. k = 0 => k \in NextOf(rule, c, p)
    BY <1>6 DEF NextOf, Nearby
  <2>5. f <= k
    BY <1>5, <2>1, <2>2, <2>3, <2>4
  <2>6. CASE f = k
    BY <1>2, <2>1, <2>6
  <2>7. CASE f < k
    BY <1>2, <2>1, <2>3, <2>7, WindowsApart
  <2>8. QED
    BY <2>1, <2>3, <2>5, <2>6, <2>7
<1>7. QED
  BY <1>3, <1>4, <1>6 DEF FindsCurrentAndNext

\* windowsOverlapping scans one month more on each side, which is enough for
\* every range that begins and ends on any day.
LEMMA RangeFound ==
  ASSUME NEW rule \in SubmissionRule, Accepted(rule), NEW c \in Int,
         NEW p \in 1..DaysInMonth(c)
  PROVE  FindsRange(rule, c, p)
<1>1. SUFFICES ASSUME NEW n \in Reach \cap Nat, NEW d \in 1..(DaysInMonth(c + n) + 1),
                      NEW k \in Reach, InRange(rule, c, p, FirstOf(c, n) + d, k)
               PROVE  k \in -1..(n + 1)
  BY DEF FindsRange, Overlapping
<1> DEFINE t == FirstOf(c, n) + d
<1>2. k \in Int /\ n \in Int /\ p \in Int
  BY ReachAssumption, MonthLength
<1>3. WindowAt(rule, c, k).opens < t /\ WindowAt(rule, c, k).closes > p
  BY <1>1 DEF InRange
<1>4. /\ WindowAt(rule, c, k).opens \in Int /\ WindowAt(rule, c, k).closes \in Int
      /\ FirstOf(c, k) < WindowAt(rule, c, k).opens /\ FirstOf(c, k) \in Int
  BY <1>2, WindowsFollow
<1>5. k >= -1
  BY <1>2, <1>3, <1>4, WindowsAround
<1>6. k <= n + 1
  <2>1. SUFFICES ASSUME n + 2 <= k PROVE FALSE
    BY <1>2
  <2>2. FirstOf(c, n + 1) = FirstOf(c, n) + DaysInMonth(c + n) /\ FirstOf(c, n) \in Int
        /\ DaysInMonth(c + n) \in Int
    <3>1. c + n \in Int /\ c + (n + 1) = (c + n) + 1
      BY <1>2
    <3>2. QED
      BY <3>1, NextMonth, MonthLength DEF FirstOf
  <2>3. t <= FirstOf(c, n + 1) + 1
    BY <2>2
  <2>4. FirstOf(c, n + 1) <= FirstOf(c, k) /\ FirstOf(c, n + 1) \in Int
    BY <1>2, <2>1, <2>2, FirstsGrow
  <2>5. QED
    BY <1>3, <1>4, <2>2, <2>3, <2>4
<1>7. QED
  BY <1>2, <1>5, <1>6

-----------------------------------------------------------------------------
(* The verdict cache.                                                      *)

\* An entry lives no longer than its lifetime, counted from the moment it was
\* superseded if it has been.
CacheInv ==
    /\ now \in Nat
    /\ CacheTypeOK
    /\ settled <= now
    /\ cached.expires <= now + VerdictTtl
    /\ cached.verdict # Current => cached.expires <= settled + VerdictTtl

\* What a request does to the cache.
CallStep(c) ==
    \/ Get(c) \/ Answer(c) \/ Put(c)
    \/ Drop(c) /\ UNCHANGED <<now, role, changes, cached, settled>>

LEMMA CacheSteps ==
  ASSUME CacheInv,
         \/ \E c \in Caller : CallStep(c)
         \/ ChangeRole
         \/ CacheRestart /\ UNCHANGED now
         \/ Tick /\ UNCHANGED cacheVars
         \/ UNCHANGED <<now, cacheVars>>
  PROVE  CacheInv'
<1> USE VerdictTtlAssumption, MaxChangesAssumption
<1>1. CASE ChangeRole
  BY <1>1 DEF ChangeRole, CacheInv, CacheTypeOK, Verdict, Current
<1>2. ASSUME NEW c \in Caller, Get(c) PROVE CacheInv'
  BY <1>2 DEF Get, Hit, Know, SetCall, CacheInv, CacheTypeOK, Current
<1>3. ASSUME NEW c \in Caller, Answer(c) PROVE CacheInv'
  BY <1>3 DEF Answer, SetCall, CacheInv, CacheTypeOK, Verdict, Current
<1>4. ASSUME NEW c \in Caller, Put(c) PROVE CacheInv'
  <2>1. call[c].verdict \in Verdict
    BY <1>4 DEF Put, CacheInv, CacheTypeOK
  <2>2. CacheTypeOK'
    BY <1>4, <2>1 DEF Put, Know, SetCall, CacheInv, CacheTypeOK
  <2>3. QED
    BY <1>4, <2>1, <2>2 DEF Put, CacheInv, CacheTypeOK, Current
<1>5. ASSUME NEW c \in Caller, Drop(c) /\ UNCHANGED <<now, role, changes, cached, settled>> PROVE CacheInv'
  BY <1>5 DEF Drop, SetCall, CacheInv, CacheTypeOK, Current
<1>6. CASE CacheRestart /\ UNCHANGED now
  <2>1. NoEntry \in [verdict : Verdict, expires : Nat] /\ NoEntry.expires = 0
    BY RoleAssumption DEF NoEntry, Verdict
  <2>2. QED
    BY <1>6, <2>1 DEF CacheRestart, CacheInv, CacheTypeOK, Current
<1>7. CASE Tick /\ UNCHANGED cacheVars
  BY <1>7 DEF Tick, cacheVars, CacheInv, CacheTypeOK, Current
<1>8. CASE UNCHANGED <<now, cacheVars>>
  BY <1>8 DEF cacheVars, CacheInv, CacheTypeOK, Current
<1>9. QED
  BY <1>1, <1>2, <1>3, <1>4, <1>5, <1>6, <1>7, <1>8 DEF CallStep

\* Which step of the cache a step of the requests is.
LEMMA RequestIsCacheStep ==
  ASSUME NEW r \in Caller, Request(r)
  PROVE  CallStep(r) \/ UNCHANGED <<now, cacheVars>>
BY DEF CallStep, Request, BeginCreate, BeginUpdate, Begin, CacheStep, Pass, Choose, Store, Refuse

LEMMA CacheNext == CacheInv /\ [Next]_vars => CacheInv'
<1> SUFFICES ASSUME CacheInv, [Next]_vars PROVE CacheInv'
  OBVIOUS
<1>1. ASSUME NEW r \in Caller, Request(r) PROVE CacheInv'
  BY <1>1, RequestIsCacheStep, CacheSteps
<1>2. /\ ChangeRole => CacheInv'
      /\ CacheRestart /\ UNCHANGED now => CacheInv'
      /\ Tick /\ UNCHANGED cacheVars => CacheInv'
      /\ UNCHANGED <<now, cacheVars>> => CacheInv'
  BY CacheSteps
<1>3. ASSUME NEW p \in Provider, CreateProvider(p) \/ UpdateProvider(p) \/ PromoteProvider(p)
      PROVE  CacheInv'
  <2>1. UNCHANGED <<now, cacheVars>>
    BY <1>3 DEF CreateProvider, UpdateProvider, PromoteProvider, Edit
  <2>2. QED
    BY <2>1, CacheSteps
<1>4. QED
  BY <1>1, <1>2, <1>3 DEF Next, vars

LEMMA CacheInvariance == Spec => []CacheInv
<1>1. Init => CacheInv
  BY RoleAssumption, VerdictTtlAssumption, MaxChangesAssumption
  DEF Init, ClockInit, CacheInit, CacheInv, CacheTypeOK, NoEntry, Verdict, Current
<1>2. QED
  BY <1>1, CacheNext, PTL DEF Spec

\* A wrong verdict is taken from the cache only within VERDICT_TTL of the change
\* that made it wrong, or of the arrival of the last answer it overtook.
THEOREM StaleAllowBounded == Spec => StaleAllowWindow
<1> DEFINE Bound ==
      \A c \in Caller :
          call[c].step = "idle" /\ call'[c].step = "known" /\ call'[c].verdict # Current
              => now < settled + VerdictTtl
<1>1. ASSUME CacheInv, [Next]_vars PROVE Bound
  <2> SUFFICES ASSUME NEW c \in Caller, call[c].step = "idle", call'[c].step = "known",
                      call'[c].verdict # Current
               PROVE  now < settled + VerdictTtl
    OBVIOUS
  <2>1. call # call'
    OBVIOUS
  <2>2. PICK r \in Caller : CallStep(r)
    BY <1>1, <2>1, RequestIsCacheStep
    DEF Next, vars, cacheVars, ChangeRole, CacheRestart, CreateProvider, UpdateProvider,
        PromoteProvider, Edit
  <2>3. c = r /\ Get(r)
    BY <1>1, <2>2 DEF CallStep, Get, Answer, Put, Drop, Know, SetCall, CacheInv, CacheTypeOK
  <2>4. Hit /\ call'[c].verdict = cached.verdict
    BY <1>1, <2>3 DEF Get, Know, SetCall, CacheInv, CacheTypeOK
  <2>5. QED
    BY <1>1, <2>4, VerdictTtlAssumption DEF Hit, CacheInv, CacheTypeOK
<1>2. CacheInv /\ [Next]_vars => [Bound]_call
  BY <1>1
<1>3. QED
  BY <1>2, CacheInvariance, PTL DEF Spec, StaleAllowWindow

-----------------------------------------------------------------------------
(* Accounts.                                                               *)

\* A provider the household can see.
Seen(p) == catalog[p] # None /\ Visible(p)

\* A request that is under way, or was, carries what it needs.
Carries(r) ==
    /\ ask[r].provider # None => catalog[ask[r].provider] # None
    /\ pc[r] # "new" =>
           IF ask[r].of = None THEN ask[r].provider # None ELSE account[ask[r].of] # None

\* What a request is about to store.
Ready(r) ==
    /\ choice[r].rule \in AcceptedRules \cup {None}
    /\ choice[r].provider # None => Seen(choice[r].provider)
    /\ ask[r].of = None => choice[r].provider # None /\ choice[r].rule # None

Sound(r) == account[r].rule \in AcceptedRules /\ Seen(account[r].provider)

\* A request bound to fail: its provider is archived, and was when it came.
Doomed(r) ==
    /\ pc[r] \in {"member", "access", "choose"}
    /\ ask[r].provider # None /\ catalog[ask[r].provider].archived

IInv ==
    /\ TypeOK
    /\ \A p \in Provider : catalog[p] # None => catalog[p].rule \in AcceptedRules \cup {None}
    /\ \A r \in Caller : Carries(r)
    /\ \A r \in Caller : pc[r] = "store" => Ready(r)
    /\ \A r \in Caller : account[r] # None => Sound(r)
    /\ \A r \in doomed : Doomed(r)

LEMMA AcceptedIsRule == AcceptedRules \subseteq Rule
BY DEF AcceptedRules

LEMMA InitIInv == Init => IInv
<1> SUFFICES ASSUME Init PROVE IInv
  OBVIOUS
<1>1. CacheTypeOK /\ now \in 0..MaxTime
  BY RoleAssumption, MaxChangesAssumption, MaxTimeAssumption
  DEF Init, ClockInit, CacheInit, CacheTypeOK, NoEntry, Verdict
<1>2. TypeOK
  BY <1>1, MaxEditsAssumption DEF Init, TypeOK, Ask, NoAsk, NoChoice
<1>3. QED
  BY <1>2 DEF Init, IInv, Carries, NoAsk

-----------------------------------------------------------------------------

\* A change of the catalogue keeps what accounts and requests rely on.
LEMMA EditKeeps ==
  ASSUME IInv, NEW p \in Provider, NEW new \in ProviderRow, Edit(p, new),
         new.rule \in AcceptedRules \cup {None},
         catalog[p] # None /\ Visible(p) => new.owner \in {"home", "global"}
  PROVE  IInv'
<1>1. new # None /\ edits' \in 0..MaxEdits
  BY NoneAssumption, MaxEditsAssumption DEF Edit, IInv, TypeOK
<1>2. /\ UNCHANGED <<now, role, changes, cached, call, settled, pc, ask, choice, account>>
      /\ catalog' = [catalog EXCEPT ![p] = new] /\ doomed' \subseteq doomed
  BY DEF Edit, cacheVars, accountVars
<1>3. catalog' \in [Provider -> ProviderRow \cup {None}] /\ catalog'[p] = new
  BY <1>2 DEF IInv, TypeOK
<1>4. TypeOK'
  BY <1>1, <1>2, <1>3 DEF IInv, TypeOK, CacheTypeOK
<1>5. \A q \in Provider : /\ catalog[q] # None => catalog'[q] # None
                          /\ Seen(q) => Seen(q)'
  BY <1>1, <1>2, <1>3 DEF Seen, Visible, IInv, TypeOK
<1>6. \A q \in Provider : catalog'[q] # None => catalog'[q].rule \in AcceptedRules \cup {None}
  BY <1>2, <1>3 DEF IInv, TypeOK
<1>7. \A r \in Caller : Carries(r)'
  BY <1>2, <1>5 DEF IInv, TypeOK, Ask, Carries
<1>8. \A r \in Caller : pc'[r] = "store" => Ready(r)'
  BY <1>2, <1>5 DEF IInv, TypeOK, Ready, AcceptedRules
<1>9. \A r \in Caller : account'[r] # None => Sound(r)'
  BY <1>2, <1>5 DEF IInv, TypeOK, Account, Sound, AcceptedRules
<1>10. ASSUME NEW r \in doomed' PROVE Doomed(r)'
  <2>1. r \in Caller /\ Doomed(r) /\ ask[r].provider \in Provider
    BY <1>2, <1>10 DEF IInv, TypeOK, Ask, Doomed
  <2>2. ask[r].provider = p => new.archived
    BY <1>10, <2>1 DEF Edit
  <2>3. QED
    BY <1>2, <1>3, <2>1, <2>2 DEF Doomed, IInv, TypeOK
<1>11. QED
  BY <1>4, <1>6, <1>7, <1>8, <1>9, <1>10 DEF IInv, AcceptedRules

LEMMA CatalogueKeeps ==
  ASSUME IInv, NEW p \in Provider, CreateProvider(p) \/ UpdateProvider(p) \/ PromoteProvider(p)
  PROVE  IInv'
<1>1. CASE CreateProvider(p)
  <2>1. PICK o \in {"home", "other", "global"}, rule \in AcceptedRules \cup {None} :
          Edit(p, [owner |-> o, archived |-> FALSE, rule |-> rule])
    BY <1>1 DEF CreateProvider
  <2>2. [owner |-> o, archived |-> FALSE, rule |-> rule] \in ProviderRow
    BY AcceptedIsRule DEF ProviderRow
  <2>3. QED
    BY <1>1, <2>1, <2>2, EditKeeps DEF CreateProvider
<1>2. CASE UpdateProvider(p)
  <2>1. PICK a \in BOOLEAN, rule \in AcceptedRules \cup {catalog[p].rule} :
          Edit(p, [catalog[p] EXCEPT !.archived = a, !.rule = rule])
    BY <1>2 DEF UpdateProvider
  <2>2. catalog[p] \in ProviderRow /\ rule \in AcceptedRules \cup {None}
    BY <1>2 DEF UpdateProvider, IInv, TypeOK
  <2> DEFINE new == [catalog[p] EXCEPT !.archived = a, !.rule = rule]
  <2>3. new \in ProviderRow /\ new.owner = catalog[p].owner /\ new.rule = rule
    BY <2>2, AcceptedIsRule DEF ProviderRow
  <2>4. QED
    BY <2>1, <2>2, <2>3, EditKeeps DEF Visible
<1>3. CASE PromoteProvider(p)
  <2> DEFINE new == [catalog[p] EXCEPT !.owner = "global"]
  <2>1. catalog[p] \in ProviderRow /\ catalog[p].rule \in AcceptedRules \cup {None}
    BY <1>3 DEF PromoteProvider, IInv, TypeOK
  <2>2. new \in ProviderRow /\ new.owner = "global" /\ new.rule = catalog[p].rule
    BY <2>1 DEF ProviderRow
  <2>3. QED
    BY <1>3, <2>1, <2>2, EditKeeps DEF PromoteProvider
<1>4. QED
  BY <1>1, <1>2, <1>3

-----------------------------------------------------------------------------

LEMMA BeginKeeps ==
  ASSUME IInv, CacheTypeOK', NEW r \in Caller, BeginCreate(r) \/ BeginUpdate(r)
  PROVE  IInv'
<1>1. PICK a \in Ask :
        /\ Begin(r, a)
        /\ a.provider # None => catalog[a.provider] # None
        /\ IF a.of = None THEN a.provider # None ELSE account[a.of] # None
        /\ pc' = [pc EXCEPT ![r] = IF a.of = None THEN "access" ELSE "member"]
  <2>1. CASE BeginCreate(r)
    <3>1. PICK p \in Known, rule \in Rule \cup {None} :
            Begin(r, [of |-> None, provider |-> p, rule |-> rule])
      BY <2>1 DEF BeginCreate
    <3>2. p \in Provider /\ catalog[p] # None /\ p # None
      BY NoneAssumption DEF Known
    <3>3. [of |-> None, provider |-> p, rule |-> rule] \in Ask
      BY <3>2 DEF Ask
    <3>4. QED
      BY <2>1, <3>1, <3>2, <3>3 DEF BeginCreate, Goto
  <2>2. CASE BeginUpdate(r)
    <3>1. PICK q \in Caller, p \in Known \cup {None}, rule \in Rule \cup {None} :
            account[q] # None /\ Begin(r, [of |-> q, provider |-> p, rule |-> rule])
      BY <2>2 DEF BeginUpdate
    <3>2. q # None /\ (p # None => p \in Provider /\ catalog[p] # None)
      BY NoneAssumption DEF Known
    <3>3. [of |-> q, provider |-> p, rule |-> rule] \in Ask
      BY <3>2 DEF Ask
    <3>4. QED
      BY <2>2, <3>1, <3>2, <3>3 DEF BeginUpdate, Goto
  <2>3. QED
    BY <2>1, <2>2
<1>2. /\ pc[r] = "new" /\ ask' = [ask EXCEPT ![r] = a]
      /\ doomed' = IF a.provider # None /\ catalog[a.provider].archived
                   THEN doomed \cup {r} ELSE doomed
      /\ UNCHANGED <<now, catalog, edits, choice, account>>
  BY <1>1 DEF Begin
<1>3. TypeOK'
  BY <1>1, <1>2 DEF IInv, TypeOK
<1>4. \A q \in Caller : Carries(q)'
  BY <1>1, <1>2 DEF IInv, TypeOK, Carries
<1>5. \A q \in Caller : pc'[q] = "store" => Ready(q)'
  BY <1>1, <1>2 DEF IInv, TypeOK, Ready, Seen, Visible, AcceptedRules
<1>6. \A q \in Caller : account'[q] # None => Sound(q)'
  BY <1>2 DEF IInv, Sound, Seen, Visible, AcceptedRules
<1>7. \A q \in doomed' : Doomed(q)'
  BY <1>1, <1>2 DEF IInv, TypeOK, Doomed
<1>8. QED
  BY <1>2, <1>3, <1>4, <1>5, <1>6, <1>7 DEF IInv, AcceptedRules

\* Waiting for a verdict, and getting it.
LEMMA AccessKeeps ==
  ASSUME IInv, CacheTypeOK', now' \in 0..MaxTime,
         UNCHANGED <<catalog, edits, ask, choice, account, doomed>>,
         \/ UNCHANGED pc
         \/ \E r \in Caller : \/ pc[r] = "member" /\ Goto(r, "access")
                              \/ pc[r] = "access" /\ Goto(r, "choose")
  PROVE  IInv'
<1>1. TypeOK'
  BY DEF IInv, TypeOK, Goto
<1>2. /\ \A q \in Caller : /\ pc[q] = "new" <=> pc'[q] = "new"
                           /\ pc[q] = "store" <=> pc'[q] = "store"
                           /\ pc[q] \in {"member", "access", "choose"} =>
                                  pc'[q] \in {"member", "access", "choose"}
  BY DEF IInv, TypeOK, Goto
<1>3. \A q \in Caller : Carries(q)' /\ (pc'[q] = "store" => Ready(q)')
  BY <1>2 DEF IInv, Carries, Ready, Seen, Visible, AcceptedRules
<1>4. \A q \in doomed' : Doomed(q)'
  BY <1>2 DEF IInv, TypeOK, Doomed
<1>5. QED
  BY <1>1, <1>3, <1>4 DEF IInv, Sound, Seen, Visible, AcceptedRules

LEMMA ChooseKeeps ==
  ASSUME IInv, CacheTypeOK', NEW r \in Caller, Choose(r)
  PROVE  IInv'
<1> DEFINE p == ask[r].provider
<1>1. /\ ask[r] \in Ask /\ Carries(r) /\ pc[r] = "choose" /\ pc' = [pc EXCEPT ![r] = "store"]
      /\ choice' = [choice EXCEPT ![r] = [provider |-> p, rule |-> Vetted(r)]]
      /\ UNCHANGED <<now, catalog, edits, ask, account, doomed>>
  BY DEF Choose, Goto, IInv, TypeOK
<1>2. Vetted(r) \in AcceptedRules \cup {None}
  BY DEF Vetted
<1>3. p # None => Seen(p) /\ ~catalog[p].archived
  BY <1>1 DEF Choose, Offered, Visible, Seen, Carries
<1>4. ask[r].of = None => p # None /\ Vetted(r) # None
  BY <1>1 DEF Choose, RuleFits, Carries
<1>5. TypeOK'
  BY <1>1, <1>2, AcceptedIsRule DEF IInv, TypeOK, Ask
<1>6. Ready(r)'
  BY <1>1, <1>2, <1>3, <1>4 DEF Ready, Seen, Visible, AcceptedRules, IInv, TypeOK
<1>7. \A q \in Caller : pc'[q] = "store" => Ready(q)'
  <2>1. ASSUME NEW q \in Caller, q # r, pc'[q] = "store" PROVE Ready(q)'
    BY <1>1, <2>1 DEF Ready, Seen, Visible, AcceptedRules, IInv, TypeOK
  <2>2. QED
    BY <1>6, <2>1
<1>8. \A q \in Caller : Carries(q)' /\ (account'[q] # None => Sound(q)')
  BY <1>1 DEF IInv, TypeOK, Carries, Sound, Seen, Visible, AcceptedRules
<1>9. \A q \in doomed' : Doomed(q)'
  <2>1. r \notin doomed
    BY <1>3 DEF IInv, Doomed
  <2>2. QED
    BY <1>1, <2>1 DEF IInv, TypeOK, Doomed
<1>10. QED
  BY <1>1, <1>5, <1>7, <1>8, <1>9 DEF IInv, AcceptedRules

LEMMA StoreKeeps ==
  ASSUME IInv, CacheTypeOK', NEW r \in Caller, Store(r)
  PROVE  IInv'
<1> DEFINE t == IF ask[r].of = None THEN r ELSE ask[r].of
<1>1. /\ ask[r] \in Ask /\ Carries(r) /\ Ready(r) /\ pc[r] = "store"
      /\ pc' = [pc EXCEPT ![r] = "done"]
      /\ choice' = [choice EXCEPT ![r] = NoChoice] /\ ask' = [ask EXCEPT ![r].rule = None]
      /\ UNCHANGED <<now, catalog, edits, doomed>>
  BY DEF Store, Goto, IInv, TypeOK
<1>2. PICK new :
        /\ account' = [account EXCEPT ![t] = new] /\ t \in Caller
        /\ new \in Account /\ new.rule \in AcceptedRules /\ Seen(new.provider)
  <2>1. CASE ask[r].of = None
    <3>1. choice[r] \in Account
      BY <1>1, <2>1 DEF Ready, IInv, TypeOK, Account
    <3>2. QED
      BY <1>1, <2>1, <3>1 DEF Store, Ready
  <2>2. CASE ask[r].of # None
    <3>1. t \in Caller /\ account[t] \in Account /\ Sound(t)
      BY <1>1, <2>2 DEF Ask, Carries, IInv, TypeOK
    <3> DEFINE new == [provider |-> Changed(account[t].provider, choice[r].provider),
                       rule     |-> Changed(account[t].rule, choice[r].rule)]
    <3>2. new.provider \in Provider /\ new.rule \in Rule
      BY <3>1 DEF Changed, Account, IInv, TypeOK
    <3>3. new.rule \in AcceptedRules /\ Seen(new.provider)
      BY <1>1, <3>1 DEF Changed, Ready, Sound
    <3>4. account' = [account EXCEPT ![t] = new]
      BY <2>2, <3>1 DEF Store, IInv, TypeOK
    <3>5. new \in Account
      BY <3>2 DEF Account
    <3>6. QED
      BY <3>1, <3>3, <3>4, <3>5
  <2>3. QED
    BY <2>1, <2>2
<1>3. /\ new # None /\ account' \in [Caller -> Account \cup {None}] /\ account'[t] = new
      /\ \A q \in Caller : q # t => account'[q] = account[q]
  BY <1>2, NoneAssumption DEF IInv, TypeOK
<1>4. ask' \in [Caller -> Ask] /\ \A q \in Caller : /\ ask'[q].of = ask[q].of
                                                 /\ ask'[q].provider = ask[q].provider
  BY <1>1 DEF IInv, TypeOK, Ask
<1>5. choice' \in [Caller -> [provider : Provider \cup {None}, rule : Rule \cup {None}]]
  BY <1>1 DEF IInv, TypeOK, NoChoice
<1>6. ask[t].of = None /\ pc'[t] = "done"
  BY <1>1, <1>2 DEF IInv, TypeOK, Carries
<1>7. TypeOK'
  BY <1>1, <1>3, <1>4, <1>5, <1>6 DEF IInv, TypeOK
<1>8. \A q \in Caller : Carries(q)'
  <2>1. \A q \in Caller : account[q] # None => account'[q] # None
    BY <1>3
  <2>2. QED
    BY <1>1, <1>4, <2>1 DEF IInv, TypeOK, Ask, Carries
<1>9. \A q \in Caller : pc'[q] = "store" => Ready(q)'
  BY <1>1, <1>4 DEF IInv, TypeOK, Ready, Seen, Visible, AcceptedRules
<1>10. \A q \in Caller : account'[q] # None => Sound(q)'
  BY <1>1, <1>2, <1>3 DEF IInv, Sound, Seen, Visible, AcceptedRules
<1>11. \A q \in doomed' : Doomed(q)'
  <2>1. r \notin doomed
    BY <1>1 DEF IInv, Doomed
  <2>2. QED
    BY <1>1, <1>4, <2>1 DEF IInv, TypeOK, Doomed
<1>12. QED
  BY <1>1, <1>7, <1>8, <1>9, <1>10, <1>11 DEF IInv, AcceptedRules

LEMMA RefuseKeeps ==
  ASSUME IInv, CacheTypeOK', NEW r \in Caller, Refuse(r)
  PROVE  IInv'
<1>1. /\ pc[r] # "done" /\ pc' = [pc EXCEPT ![r] = "new"] /\ ask' = [ask EXCEPT ![r] = NoAsk]
      /\ choice' = [choice EXCEPT ![r] = NoChoice] /\ doomed' = doomed \ {r}
      /\ UNCHANGED <<now, catalog, edits, account>>
  BY DEF Refuse, Goto
<1>2. NoAsk \in Ask /\ NoChoice \in [provider : Provider \cup {None}, rule : Rule \cup {None}]
  BY DEF Ask, NoAsk, NoChoice
<1>3. TypeOK'
  BY <1>1, <1>2 DEF IInv, TypeOK
<1>4. \A q \in Caller : Carries(q)'
  BY <1>1 DEF IInv, TypeOK, Carries, NoAsk
<1>5. \A q \in Caller : pc'[q] = "store" => Ready(q)'
  BY <1>1 DEF IInv, TypeOK, Ready, Seen, Visible, AcceptedRules
<1>6. \A q \in doomed' : Doomed(q)'
  BY <1>1 DEF IInv, TypeOK, Doomed
<1>7. QED
  BY <1>1, <1>3, <1>4, <1>5, <1>6 DEF IInv, Sound, Seen, Visible, AcceptedRules

LEMMA NextIInv == IInv /\ CacheInv /\ CacheInv' /\ [Next]_vars => IInv'
<1> SUFFICES ASSUME IInv, CacheInv, CacheInv', [Next]_vars PROVE IInv'
  OBVIOUS
<1>1. CacheTypeOK'
  BY DEF CacheInv
<1>2. ASSUME NEW r \in Caller, Request(r) PROVE IInv'
  <2>1. CASE CacheStep(r)
    BY <1>1, <2>1, AccessKeeps DEF CacheStep, Get, Answer, Put, accountVars, IInv, TypeOK
  <2>2. CASE Pass(r)
    BY <1>1, <2>2, AccessKeeps DEF Pass, PassMember, PassAccess, IInv, TypeOK
  <2>3. QED
    BY <1>1, <1>2, <2>1, <2>2, BeginKeeps, ChooseKeeps, StoreKeeps, RefuseKeeps DEF Request
<1>3. CASE ChangeRole /\ UNCHANGED <<catalog, edits, accountVars, doomed>>
  BY <1>1, <1>3, AccessKeeps DEF ChangeRole, accountVars, IInv, TypeOK
<1>4. CASE CacheRestart /\ UNCHANGED <<now, catalog, edits, accountVars, doomed>>
  BY <1>1, <1>4, AccessKeeps DEF accountVars, IInv, TypeOK
<1>5. CASE Tick /\ UNCHANGED <<cacheVars, catalog, edits, accountVars, doomed>>
  <2>1. now' \in 0..MaxTime
    BY <1>5, MaxTimeAssumption DEF Tick, IInv, TypeOK
  <2>2. QED
    BY <1>1, <1>5, <2>1, AccessKeeps DEF accountVars
<1>6. CASE UNCHANGED vars
  BY <1>1, <1>6, AccessKeeps DEF vars, accountVars, IInv, TypeOK
<1>7. QED
  BY <1>2, <1>3, <1>4, <1>5, <1>6, CatalogueKeeps DEF Next

LEMMA Invariance == Spec => []IInv
BY InitIInv, NextIInv, CacheInvariance, PTL DEF Spec

-----------------------------------------------------------------------------

\* An account always has a provider and a rule; a request never changes an
\* account that is not there.
THEOREM TypeCorrect == Spec => []TypeOK
<1>1. IInv => TypeOK
  BY DEF IInv
<1>2. QED
  BY <1>1, Invariance, PTL

\* Accounts have providers their household can see, and only an archiving that
\* overtakes a request is missed.
THEOREM OnOffer == Spec => []ProvidersWereOnOffer
<1>1. ASSUME IInv PROVE ProvidersWereOnOffer
  BY <1>1 DEF IInv, TypeOK, Sound, Seen, Doomed, ProvidersWereOnOffer
<1>2. QED
  BY <1>1, Invariance, PTL

\* The windows of a stored rule leave a gap in every month of every year.
THEOREM NoStoredOverlap == Spec => []StoredRulesNeverOverlap
<1>1. AcceptedRules \subseteq NeverOverlapping
  BY FiniteCheckIsEnough, CyclesAssumption DEF AcceptedRules, NeverOverlapping
<1>2. IInv => StoredRulesNeverOverlap
  BY <1>1 DEF IInv, Sound, StoredRulesNeverOverlap
<1>3. QED
  BY <1>2, Invariance, PTL

\* The windows shown for an account are those that a search through all months
\* would find, whatever the day.
THEOREM AllWindowsFound == Spec => []WindowsFound
<1>1. AcceptedRules \subseteq Searchable
  <2>1. ASSUME NEW rule \in AcceptedRules, NEW c \in Cycles, NEW p \in 1..DaysInMonth(c)
        PROVE  FindsCurrentAndNext(rule, c, p) /\ FindsRange(rule, c, p)
    <3>1. rule \in SubmissionRule /\ Accepted(rule) /\ c \in Int
      BY RulesAssumption, CyclesAssumption DEF AcceptedRules
    <3>2. QED
      BY <3>1, CurrentAndNextFound, RangeFound
  <2>2. QED
    BY <2>1, AcceptedIsRule DEF Searchable
<1>2. IInv => WindowsFound
  BY <1>1 DEF IInv, Sound, WindowsFound
<1>3. QED
  BY <1>2, Invariance, PTL
=============================================================================
