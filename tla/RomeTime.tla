------------------------------- MODULE RomeTime -------------------------------
(***************************************************************************)
(* normalize/timezone.py: from the wall clock of Europe/Rome to UTC, over  *)
(* the two changes of a year.  Operators only, with theorems about them.   *)
(*                                                                         *)
(* A wall time is a record of the day of the year, hour and minute; UTC    *)
(* instants are minutes from the same origin.  What a theorem assumes of a *)
(* year is that the change in March comes before the one in October.  They *)
(* speak of the years from 1996 on: before, Rome left summer time in       *)
(* September, and the code looks for no other change than October's.       *)
(***************************************************************************)
EXTENDS Integers, TLAPS

WallTime == [day: Nat, hour: 0..23, minute: 0..59]
Minutes(t) == (t.day * 24 + t.hour) * 60 + t.minute

\* _find_last_sunday, from the last day of a month and its weekday (Monday 0).
LastSunday(last, weekday) == last - ((weekday + 1) % 7)

\* A year: the last Sundays of March and of October.
Year == {y \in [march: Nat, october: Nat] : y.march < y.october}

InGap(t, y)     == t.day = y.march /\ t.hour = 2
InOverlap(t, y) == t.day = y.october /\ t.hour = 2

------------------------------------------------------------------------------
\* The law: summer time begins and ends at 01:00 UTC.
SpringUtc(y) == (y.march * 24 + 1) * 60
FallUtc(y)   == (y.october * 24 + 1) * 60

Summer == 120
Winter == 60

\* The wall clock in minutes, for anybody who watches it.
Clock(u, y) == u + IF SpringUtc(y) <= u /\ u < FallUtc(y) THEN Summer ELSE Winter

\* zoneinfo, PEP 495: the offset before a change for fold 0, the one after it
\* for fold 1, where a wall time is missing or occurs twice.
Offset(t, fold, y) ==
    LET m == Minutes(t)
        spring == SpringUtc(y) + (IF fold = 0 THEN Summer ELSE Winter)
        fall   == FallUtc(y)   + (IF fold = 0 THEN Summer ELSE Winter)
    IN IF spring <= m /\ m < fall THEN Summer ELSE Winter

\* replace(tzinfo) and astimezone(UTC).
AsUtc(t, fold, y) == Minutes(t) - Offset(t, fold, y)

\* to_utc: raises in the gap and in the overlap.
Raises(t, y) == InGap(t, y) \/ InOverlap(t, y)
ToUtc(t, y)  == AsUtc(t, 0, y)

\* to_utc_strict.
Advanced(t) == [t EXCEPT !.hour = @ + 1]

ToUtcStrict(t, fold, y) ==
    IF InGap(t, y) THEN [at |-> AsUtc(Advanced(t), 0, y), flag |-> "OUT_OF_RANGE"]
    ELSE IF InOverlap(t, y) THEN [at |-> AsUtc(t, fold, y), flag |-> "GOOD"]
    ELSE [at |-> AsUtc(t, 0, y), flag |-> "GOOD"]

------------------------------------------------------------------------------
\* _find_last_sunday finds a Sunday, and no later one lies in the month.
THEOREM LastSundayIsLast ==
    ASSUME NEW last \in Nat, NEW weekday \in 0..6
    PROVE  /\ LastSunday(last, weekday) \in last - 6..last
           /\ (weekday - (last - LastSunday(last, weekday)) + 7) % 7 = 6
<1>1. weekday = 0 \/ weekday = 1 \/ weekday = 2 \/ weekday = 3 \/ weekday = 4
      \/ weekday = 5 \/ weekday = 6
  OBVIOUS
<1> QED BY <1>1, SMT DEF LastSunday

\* The hour from two to three of a day, in minutes.
LEMMA TwoToThree ==
    ASSUME NEW d \in Nat, NEW h \in 0..23, NEW m \in 0..59, NEW sunday \in Nat
    PROVE  d = sunday /\ h = 2 <=> /\ (sunday * 24 + 2) * 60 <= (d * 24 + h) * 60 + m
                                  /\ (d * 24 + h) * 60 + m < (sunday * 24 + 3) * 60
<1>1. d = sunday /\ h = 2 => /\ (sunday * 24 + 2) * 60 <= (d * 24 + h) * 60 + m
                            /\ (d * 24 + h) * 60 + m < (sunday * 24 + 3) * 60
  BY SMT
<1>2. d < sunday => (d * 24 + h) * 60 + m < (sunday * 24 + 2) * 60
  BY SMT
<1>3. d > sunday => (d * 24 + h) * 60 + m >= (sunday * 24 + 3) * 60
  BY SMT
<1>4. d = sunday /\ h < 2 => (d * 24 + h) * 60 + m < (sunday * 24 + 2) * 60
  BY SMT
<1>5. d = sunday /\ h > 2 => (d * 24 + h) * 60 + m >= (sunday * 24 + 3) * 60
  BY SMT
<1> QED BY <1>1, <1>2, <1>3, <1>4, <1>5, SMT

\* The gap and the overlap as intervals of the wall clock's minutes.
LEMMA Intervals ==
    ASSUME NEW y \in Year, NEW t \in WallTime
    PROVE  /\ Minutes(t) \in Int
           /\ SpringUtc(y) \in Int /\ FallUtc(y) \in Int
           /\ SpringUtc(y) + 1440 <= FallUtc(y)
           /\ InGap(t, y) <=> /\ SpringUtc(y) + Winter <= Minutes(t)
                              /\ Minutes(t) < SpringUtc(y) + Summer
           /\ InOverlap(t, y) <=> /\ FallUtc(y) + Winter <= Minutes(t)
                                  /\ Minutes(t) < FallUtc(y) + Summer
<1>1. PICK d \in Nat, h \in 0..23, m \in 0..59 : t.day = d /\ t.hour = h /\ t.minute = m
  BY DEF WallTime
<1>2. PICK march \in Nat, october \in Nat :
         y.march = march /\ y.october = october /\ march < october
  BY DEF Year
<1>3. Minutes(t) = (d * 24 + h) * 60 + m
  BY <1>1 DEF Minutes
<1>4. InGap(t, y) <=> /\ (march * 24 + 2) * 60 <= Minutes(t)
                      /\ Minutes(t) < (march * 24 + 3) * 60
  BY <1>1, <1>2, <1>3, TwoToThree DEF InGap
<1>5. InOverlap(t, y) <=> /\ (october * 24 + 2) * 60 <= Minutes(t)
                          /\ Minutes(t) < (october * 24 + 3) * 60
  BY <1>1, <1>2, <1>3, TwoToThree DEF InOverlap
<1>6. Minutes(t) \in Int
  BY <1>3, SMT
<1>7. /\ SpringUtc(y) = (march * 24 + 1) * 60
      /\ FallUtc(y) = (october * 24 + 1) * 60
  BY <1>2 DEF SpringUtc, FallUtc
<1>8. /\ SpringUtc(y) \in Int /\ FallUtc(y) \in Int
      /\ SpringUtc(y) + 1440 <= FallUtc(y)
      /\ SpringUtc(y) + Winter = (march * 24 + 2) * 60
      /\ SpringUtc(y) + Summer = (march * 24 + 3) * 60
      /\ FallUtc(y) + Winter = (october * 24 + 2) * 60
      /\ FallUtc(y) + Summer = (october * 24 + 3) * 60
  BY <1>2, <1>7, SMT DEF Summer, Winter
<1> QED BY <1>4, <1>5, <1>6, <1>8

\* An advanced time is an hour later.
LEMMA AdvancedIsLater ==
    ASSUME NEW y \in Year, NEW t \in WallTime, InGap(t, y)
    PROVE  Advanced(t) \in WallTime /\ Minutes(Advanced(t)) = Minutes(t) + 60
<1>1. /\ t.day \in Nat /\ t.hour = 2 /\ t.minute \in 0..59
      /\ Advanced(t).day = t.day /\ Advanced(t).hour = 3 /\ Advanced(t).minute = t.minute
  BY DEF WallTime, InGap, Advanced
<1>2. Advanced(t) \in WallTime
  BY <1>1 DEF WallTime, Advanced
<1> QED BY <1>1, <1>2, SMT DEF Minutes

\* Outside of the gap the result is an instant at which the clock showed the wall
\* time, and it is flagged as good.
THEOREM ResultsAreGenuine ==
    ASSUME NEW y \in Year, NEW t \in WallTime, NEW fold \in {0, 1}, ~InGap(t, y)
    PROVE  /\ Clock(ToUtcStrict(t, fold, y).at, y) = Minutes(t)
           /\ ToUtcStrict(t, fold, y).flag = "GOOD"
  BY Intervals, SMT DEF Clock, ToUtcStrict, AsUtc, Offset, Summer, Winter

\* Where to_utc does not raise, there is no other such instant, both functions
\* agree and the fold does not matter.
THEOREM ResultsAreUnique ==
    ASSUME NEW y \in Year, NEW t \in WallTime, NEW fold \in {0, 1}, ~Raises(t, y),
           NEW u \in Int, Clock(u, y) = Minutes(t)
    PROVE  u = ToUtc(t, y) /\ u = ToUtcStrict(t, fold, y).at
  BY Intervals, SMT DEF Clock, Raises, ToUtc, ToUtcStrict, AsUtc, Offset, Summer, Winter

\* In the overlap the two folds are the two instants, an hour apart.
THEOREM FoldsAreTheTwoInstants ==
    ASSUME NEW y \in Year, NEW t \in WallTime, InOverlap(t, y)
    PROVE  /\ ToUtcStrict(t, 1, y).at = ToUtcStrict(t, 0, y).at + 60
           /\ \A u \in Int : Clock(u, y) = Minutes(t) =>
                 \E fold \in {0, 1} : u = ToUtcStrict(t, fold, y).at
<1>1. /\ ToUtcStrict(t, 0, y).at = Minutes(t) - Summer
      /\ ToUtcStrict(t, 1, y).at = Minutes(t) - Winter
  BY Intervals, SMT DEF ToUtcStrict, AsUtc, Offset, Summer, Winter
<1>2. ASSUME NEW u \in Int, Clock(u, y) = Minutes(t)
      PROVE  \E fold \in {0, 1} : u = ToUtcStrict(t, fold, y).at
  <2>1. u = Minutes(t) - Summer \/ u = Minutes(t) - Winter
    BY <1>2, Intervals, SMT DEF Clock, Summer, Winter
  <2> QED BY <1>1, <2>1
<1> QED BY <1>1, <1>2, Intervals, SMT DEF Summer, Winter

\* A wall time in the gap never was; it is flagged, and shares its instant with
\* the genuine wall time an hour later.
THEOREM GapIsAdvanced ==
    ASSUME NEW y \in Year, NEW t \in WallTime, NEW fold \in {0, 1}, InGap(t, y)
    PROVE  /\ \A u \in Int : Clock(u, y) # Minutes(t)
           /\ ToUtcStrict(t, fold, y).flag = "OUT_OF_RANGE"
           /\ ToUtcStrict(t, fold, y).at = ToUtcStrict(Advanced(t), fold, y).at
           /\ SpringUtc(y) <= ToUtcStrict(t, fold, y).at
<1>1. \A u \in Int : Clock(u, y) # Minutes(t)
  BY Intervals, SMT DEF Clock, Summer, Winter
<1>2. ~InGap(Advanced(t), y) /\ ~InOverlap(Advanced(t), y)
  BY AdvancedIsLater, Intervals, SMT DEF Summer, Winter
<1>3. AsUtc(Advanced(t), 0, y) >= SpringUtc(y)
  BY AdvancedIsLater, Intervals, SMT DEF AsUtc, Offset, Summer, Winter
<1> QED BY <1>1, <1>2, <1>3 DEF ToUtcStrict

\* Results that are flagged as good keep the order of their wall times.
THEOREM OrderIsKept ==
    ASSUME NEW y \in Year, NEW s \in WallTime, NEW t \in WallTime, NEW fold \in {0, 1},
           ~InGap(s, y), ~InGap(t, y), Minutes(s) < Minutes(t)
    PROVE  ToUtcStrict(s, fold, y).at < ToUtcStrict(t, fold, y).at
  BY Intervals, SMT DEF ToUtcStrict, AsUtc, Offset, Summer, Winter
=============================================================================
