--------------------------- MODULE AggregatesProofs ---------------------------
(***************************************************************************)
(* Theorems about Aggregates, for any set of rows, any reach and lag of    *)
(* the policies, any retention and chunk, within the two assumptions on    *)
(* the order of the policies.                                              *)
(***************************************************************************)
EXTENDS Aggregates, TLAPS

USE RowAssumption

------------------------------------------------------------------------------
(***************************************************************************)
(* The inductive invariant.                                                *)
(***************************************************************************)

Known(r) == committed[r] >= 0

DayStart(r) == DayOf(HourOf[r]) * Day

TimesAreKept ==
    /\ hourlyRan <= clock /\ clock <= hourlyRan + JobDelay
    /\ dailyRan <= clock /\ clock <= dailyRan + JobDelay
    /\ \A r \in Row : committed[r] <= clock

\* Retention is behind the range of the hourly policy.
RawIsInReach ==
    \A r \in Row : Known(r) /\ HourOf[r] >= clock - HourlyReach => r \in raw

TiersAreNested ==
    /\ \A r \in raw \cup hourly : Known(r)
    /\ daily \subseteq hourly

\* What a tier lacks of the tier below is invalidated.
LackingHoursAreStale == \A r \in Row : Known(r) /\ r \notin hourly => HourOf[r] \in staleHours

LackingDaysAreStale == \A r \in hourly : r \notin daily => DayOf(HourOf[r]) \in staleDays

\* The hourly policy has not come to the hour of a row yet, or has it.
OnTime(r) == Known(r) /\ HourlyDue(r, committed[r]) <= HourOf[r] + HourlyReach

HoursArePending ==
    \A r \in Row : OnTime(r) /\ r \notin hourly =>
        hourlyRan <= Latest(committed[r], HourOf[r] + 1 + HourlyLag)

\* Nor the daily policy to its day.
OnTimeDaysArePending ==
    \A r \in Row : OnTime(r) /\ r \notin daily =>
        dailyRan <= Latest(HourlyDue(r, committed[r]), DayStart(r) + Day + DailyLag)

\* A row that the hours have and the days lack leaves the daily policy a run.
DaysArePending ==
    \A r \in hourly : r \notin daily => dailyRan + JobDelay <= DayStart(r) + DailyReach

TierInv ==
    /\ AggregatesTypeOK
    /\ TimesAreKept
    /\ RawIsInReach
    /\ TiersAreNested
    /\ LackingHoursAreStale
    /\ LackingDaysAreStale
    /\ HoursArePending
    /\ OnTimeDaysArePending
    /\ DaysArePending

------------------------------------------------------------------------------
(***************************************************************************)
(* Hours, days and chunks.                                                 *)
(***************************************************************************)

LEMMA DivBounds ==
    ASSUME NEW h \in Nat, NEW d \in Nat \ {0}
    PROVE  /\ h \div d \in Nat /\ (h \div d) * d \in Nat
           /\ (h \div d) * d <= h /\ h <= (h \div d) * d + d - 1
           /\ (h \div d + 1) * d = (h \div d) * d + d
OBVIOUS

LEMMA RowDay ==
    ASSUME NEW r \in Row
    PROVE  /\ HourOf[r] \in Nat /\ HourOf[r] \in Hours
           /\ DayOf(HourOf[r]) \in Days /\ DayOf(HourOf[r]) \in Nat
           /\ DayStart(r) \in Nat
           /\ DayStart(r) <= HourOf[r] /\ HourOf[r] <= DayStart(r) + Day - 1
           /\ (DayOf(HourOf[r]) + 1) * Day = DayStart(r) + Day
<1>1. HourOf[r] \in Nat /\ HourOf[r] \in Hours BY DEF Hours
<1>2. DayOf(HourOf[r]) \in Days BY <1>1 DEF Days
<1>3. Day \in Nat \ {0} OBVIOUS
<1>4. PICK h \in Nat : h = HourOf[r] BY <1>1
<1>5. /\ h \div Day \in Nat /\ (h \div Day) * Day \in Nat
      /\ (h \div Day) * Day <= h /\ h <= (h \div Day) * Day + Day - 1
      /\ (h \div Day + 1) * Day = (h \div Day) * Day + Day
  BY <1>3, DivBounds
<1> QED BY <1>1, <1>2, <1>4, <1>5 DEF DayStart, DayOf

LEMMA ChunkIsLater ==
    ASSUME NEW r \in Row
    PROVE  ChunkEnd(r) \in Nat /\ HourOf[r] < ChunkEnd(r)
<1>1. PICK h \in Nat : h = HourOf[r] BY RowDay
<1>2. Chunk \in Nat \ {0} OBVIOUS
<1>3. /\ h \div Chunk \in Nat /\ (h \div Chunk) * Chunk \in Nat
      /\ h <= (h \div Chunk) * Chunk + Chunk - 1
      /\ (h \div Chunk + 1) * Chunk = (h \div Chunk) * Chunk + Chunk
  BY <1>2, DivBounds
<1> QED BY <1>1, <1>2, <1>3 DEF ChunkEnd, ChunkOf

LEMMA LatestIs ==
    ASSUME NEW a \in Int, NEW b \in Int
    PROVE  Latest(a, b) \in {a, b} /\ a <= Latest(a, b) /\ b <= Latest(a, b)
           /\ Latest(a, b) \in Int
BY DEF Latest

LEMMA TypesOf ==
    ASSUME AggregatesTypeOK
    PROVE  /\ clock \in Nat /\ hourlyRan \in Nat /\ dailyRan \in Nat
           /\ clock \in Instant
           /\ \A r \in Row : committed[r] \in Int
BY DEF AggregatesTypeOK, Instant

\* When a row is due in the hours and in the days.
LEMMA Dues ==
    ASSUME AggregatesTypeOK, NEW r \in Row
    PROVE  /\ Latest(committed[r], HourOf[r] + 1 + HourlyLag) \in Int
           /\ HourlyDue(r, committed[r]) \in Int
           /\ HourlyDue(r, committed[r])
                 = Latest(committed[r], HourOf[r] + 1 + HourlyLag) + JobDelay
           /\ committed[r] <= Latest(committed[r], HourOf[r] + 1 + HourlyLag)
           /\ HourOf[r] + 1 + HourlyLag <= Latest(committed[r], HourOf[r] + 1 + HourlyLag)
           /\ Latest(HourlyDue(r, committed[r]), DayStart(r) + Day + DailyLag)
                 \in {HourlyDue(r, committed[r]), DayStart(r) + Day + DailyLag}
           /\ Latest(HourlyDue(r, committed[r]), DayStart(r) + Day + DailyLag) \in Int
           /\ HourlyDue(r, committed[r])
                 <= Latest(HourlyDue(r, committed[r]), DayStart(r) + Day + DailyLag)
           /\ DayStart(r) + Day + DailyLag
                 <= Latest(HourlyDue(r, committed[r]), DayStart(r) + Day + DailyLag)
           /\ DailyDue(r, committed[r])
                 = Latest(HourlyDue(r, committed[r]), DayStart(r) + Day + DailyLag) + JobDelay
<1>1. committed[r] \in Int /\ HourOf[r] + 1 + HourlyLag \in Int
  BY RowDay, TypesOf
<1>2. /\ Latest(committed[r], HourOf[r] + 1 + HourlyLag) \in Int
      /\ committed[r] <= Latest(committed[r], HourOf[r] + 1 + HourlyLag)
      /\ HourOf[r] + 1 + HourlyLag <= Latest(committed[r], HourOf[r] + 1 + HourlyLag)
  BY <1>1, LatestIs
<1>3. /\ HourlyDue(r, committed[r])
            = Latest(committed[r], HourOf[r] + 1 + HourlyLag) + JobDelay
      /\ HourlyDue(r, committed[r]) \in Int
  BY <1>2 DEF HourlyDue
<1>4. DayStart(r) + Day + DailyLag \in Int BY RowDay
<1>5. DailyDue(r, committed[r])
         = Latest(HourlyDue(r, committed[r]), DayStart(r) + Day + DailyLag) + JobDelay
  BY RowDay DEF DailyDue
<1> QED BY <1>2, <1>3, <1>4, <1>5, LatestIs

------------------------------------------------------------------------------
(***************************************************************************)
(* The steps.                                                              *)
(***************************************************************************)

LEMMA TierInit == Init => TierInv
<1> SUFFICES ASSUME Init PROVE TierInv
  OBVIOUS
<1> USE DEF Init
<1>1. AggregatesTypeOK BY DEF AggregatesTypeOK, Instant
<1>2. \A r \in Row : committed[r] = -1 OBVIOUS
<1> QED BY <1>1, <1>2 DEF TierInv, TimesAreKept, RawIsInReach, TiersAreNested,
        LackingHoursAreStale, LackingDaysAreStale, HoursArePending, OnTimeDaysArePending,
        DaysArePending, OnTime, Known

LEMMA TickPreserves == ASSUME TierInv, Tick PROVE TierInv'
<1> USE DEF TierInv
<1>1. /\ clock' = clock + 1 /\ clock < MaxClock
      /\ clock < hourlyRan + JobDelay /\ clock < dailyRan + JobDelay
      /\ UNCHANGED <<raw, hourly, daily, staleHours, staleDays, hourlyRan, dailyRan, committed>>
  BY DEF Tick
<1>2. /\ clock \in Nat /\ hourlyRan \in Nat /\ dailyRan \in Nat
      /\ \A r \in Row : committed[r] \in Int /\ HourOf[r] \in Nat
  BY TypesOf, RowDay
<1>3. AggregatesTypeOK' BY <1>1, <1>2 DEF AggregatesTypeOK, Instant
<1>4. TimesAreKept' BY <1>1, <1>2 DEF TimesAreKept
<1>5. RawIsInReach'
  <2> SUFFICES ASSUME NEW r \in Row, Known(r), HourOf[r] >= clock' - HourlyReach
               PROVE  r \in raw
    BY <1>1 DEF RawIsInReach, Known
  <2>1. HourOf[r] >= clock - HourlyReach BY <1>1, <1>2
  <2> QED BY <2>1 DEF RawIsInReach
<1>6. /\ TiersAreNested' /\ LackingHoursAreStale' /\ LackingDaysAreStale'
      /\ HoursArePending' /\ OnTimeDaysArePending' /\ DaysArePending'
  BY <1>1 DEF TiersAreNested, LackingHoursAreStale, LackingDaysAreStale, HoursArePending,
              OnTimeDaysArePending, DaysArePending, OnTime, Known, HourlyDue, Latest
<1> QED BY <1>3, <1>4, <1>5, <1>6

LEMMA CommitPreserves ==
    ASSUME TierInv, NEW r0 \in Row, Commit(r0)
    PROVE  TierInv'
<1> USE DEF TierInv
<1>1. /\ raw' = raw \cup {r0} /\ staleHours' = staleHours \cup {HourOf[r0]}
      /\ UNCHANGED <<clock, hourly, daily, staleDays, hourlyRan, dailyRan>>
      /\ committed' = [committed EXCEPT ![r0] = IF @ = -1 THEN clock ELSE @]
  BY DEF Commit
<1>2. /\ clock \in Nat /\ hourlyRan \in Nat /\ dailyRan \in Nat /\ clock \in Instant
      /\ \A r \in Row : committed[r] \in Int /\ HourOf[r] \in Nat /\ HourOf[r] \in Hours
      /\ committed \in [Row -> Instant \cup {-1}]
  BY TypesOf, RowDay DEF AggregatesTypeOK
<1>3. AggregatesTypeOK' BY <1>1, <1>2 DEF AggregatesTypeOK
<1>4. \A r \in Row : \/ committed'[r] = committed[r] /\ (r # r0 \/ Known(r))
                     \/ r = r0 /\ committed'[r] = clock /\ ~Known(r)
  BY <1>1, <1>2 DEF Known, Instant
<1>5. Known(r0)' /\ \A r \in Row : (Known(r)' <=> Known(r) \/ r = r0)
  BY <1>2, <1>4 DEF Known
<1>6. TimesAreKept' BY <1>1, <1>2, <1>4 DEF TimesAreKept
<1>7. RawIsInReach' BY <1>1, <1>5 DEF RawIsInReach
<1>8. raw \subseteq Row /\ hourly \subseteq Row BY DEF AggregatesTypeOK
<1>9. TiersAreNested' BY <1>1, <1>5, <1>8 DEF TiersAreNested
<1>10. LackingHoursAreStale' BY <1>1, <1>5 DEF LackingHoursAreStale
<1>11. LackingDaysAreStale' BY <1>1 DEF LackingDaysAreStale
<1>12. DaysArePending' BY <1>1 DEF DaysArePending
<1>13. HoursArePending'
  <2> SUFFICES ASSUME NEW r \in Row, OnTime(r)', r \notin hourly
               PROVE  hourlyRan <= Latest(committed'[r], HourOf[r] + 1 + HourlyLag)
    BY <1>1 DEF HoursArePending, Latest
  <2>1. CASE committed'[r] = committed[r]
    <3>1. OnTime(r) BY <2>1 DEF OnTime, Known, HourlyDue, Latest
    <3>2. hourlyRan <= Latest(committed[r], HourOf[r] + 1 + HourlyLag)
      BY <3>1 DEF HoursArePending
    <3> QED BY <2>1, <3>2
  <2>2. CASE committed'[r] = clock
    <3>1. hourlyRan <= clock BY DEF TimesAreKept
    <3>2. clock <= Latest(clock, HourOf[r] + 1 + HourlyLag) 
          /\ Latest(clock, HourOf[r] + 1 + HourlyLag) \in Int
      <4>1. clock \in Int /\ HourOf[r] + 1 + HourlyLag \in Int BY <1>2
      <4> QED BY <4>1, LatestIs
    <3> QED BY <1>2, <2>2, <3>1, <3>2
  <2> QED BY <1>4, <2>1, <2>2
<1>14. OnTimeDaysArePending'
  <2> SUFFICES ASSUME NEW r \in Row, OnTime(r)', r \notin daily
               PROVE  dailyRan <= Latest(HourlyDue(r, committed'[r]), DayStart(r) + Day + DailyLag)
    BY <1>1 DEF OnTimeDaysArePending, Latest, HourlyDue
  <2>1. CASE committed'[r] = committed[r]
    <3>1. OnTime(r) BY <2>1 DEF OnTime, Known, HourlyDue, Latest
    <3>2. dailyRan <= Latest(HourlyDue(r, committed[r]), DayStart(r) + Day + DailyLag)
      BY <3>1 DEF OnTimeDaysArePending
    <3> QED BY <2>1, <3>2
  <2>2. CASE committed'[r] = clock
    <3>1. dailyRan <= clock BY DEF TimesAreKept
    <3>2. clock <= Latest(clock, HourOf[r] + 1 + HourlyLag)
          /\ Latest(clock, HourOf[r] + 1 + HourlyLag) \in Int
      <4>1. clock \in Int /\ HourOf[r] + 1 + HourlyLag \in Int BY <1>2
      <4> QED BY <4>1, LatestIs
    <3>3. HourlyDue(r, clock) \in Int /\ clock <= HourlyDue(r, clock)
      BY <1>2, <3>2 DEF HourlyDue
    <3>4. DayStart(r) + Day + DailyLag \in Int BY RowDay
    <3>5. /\ HourlyDue(r, clock) <= Latest(HourlyDue(r, clock), DayStart(r) + Day + DailyLag)
          /\ Latest(HourlyDue(r, clock), DayStart(r) + Day + DailyLag) \in Int
      BY <3>3, <3>4, LatestIs
    <3> QED BY <1>2, <2>2, <3>1, <3>3, <3>5
  <2> QED BY <1>4, <2>1, <2>2
<1> QED BY <1>3, <1>6, <1>7, <1>9, <1>10, <1>11, <1>12, <1>13, <1>14

LEMMA DropPreserves == ASSUME TierInv, DropChunks PROVE TierInv'
<1> USE DEF TierInv
<1>1. /\ \A r \in raw : ChunkEnd(r) <= clock - Retention \/ r \in raw'
      /\ raw' \subseteq raw
      /\ staleHours \subseteq staleHours'
      /\ staleHours \subseteq Hours => staleHours' \subseteq Hours
      /\ UNCHANGED <<clock, hourly, daily, staleDays, hourlyRan, dailyRan, committed>>
  BY DEF DropChunks
<1>2. AggregatesTypeOK' BY <1>1 DEF AggregatesTypeOK
<1>3. RawIsInReach'
  <2> SUFFICES ASSUME NEW r \in Row, Known(r), HourOf[r] >= clock - HourlyReach
               PROVE  r \in raw'
    BY <1>1 DEF RawIsInReach, Known
  <2>1. r \in raw BY DEF RawIsInReach
  <2>2. ChunkEnd(r) \in Nat /\ HourOf[r] < ChunkEnd(r) /\ HourOf[r] \in Nat
        /\ clock \in Nat
    BY ChunkIsLater, RowDay, TypesOf
  <2>3. HourlyReach <= Retention BY PolicyAssumption
  <2>4. ~(ChunkEnd(r) <= clock - Retention)
    BY <2>2, <2>3, HourlyReach \in Nat, Retention \in Nat
  <2> QED BY <1>1, <2>1, <2>4
<1>4. /\ TimesAreKept' /\ TiersAreNested' /\ LackingHoursAreStale' /\ LackingDaysAreStale'
      /\ HoursArePending' /\ OnTimeDaysArePending' /\ DaysArePending'
  BY <1>1 DEF TimesAreKept, TiersAreNested, LackingHoursAreStale, LackingDaysAreStale,
              HoursArePending, OnTimeDaysArePending, DaysArePending, OnTime, Known,
              HourlyDue, Latest
<1> QED BY <1>2, <1>3, <1>4

LEMMA HourlyPreserves == ASSUME TierInv, RefreshHourly PROVE TierInv' /\ hourly \subseteq hourly'
<1> USE DEF TierInv
<1> DEFINE hours == staleHours \cap HourlyRange
<1>1. /\ hourly' = {r \in hourly : HourOf[r] \notin hours} \cup {r \in raw : HourOf[r] \in hours}
      /\ staleHours' = staleHours \ hours
      /\ staleDays' = staleDays \cup Invalidated(hours)
      /\ hourlyRan' = clock
      /\ UNCHANGED <<clock, raw, daily, dailyRan, committed>>
  BY DEF RefreshHourly
<1>2. /\ clock \in Nat /\ clock \in Instant /\ hourlyRan \in Nat /\ dailyRan \in Nat
      /\ \A r \in Row : committed[r] \in Int /\ HourOf[r] \in Nat /\ HourOf[r] \in Hours
      /\ raw \subseteq Row /\ hourly \subseteq Row /\ daily \subseteq hourly
      /\ hours \subseteq staleHours /\ staleHours \subseteq Hours
  BY TypesOf, RowDay DEF AggregatesTypeOK, TiersAreNested
<1>3. \A r \in Row : HourOf[r] \in hours =>
         /\ HourOf[r] >= clock - HourlyReach /\ HourOf[r] + 1 <= clock - HourlyLag
  BY DEF HourlyRange
<1>4. \A r \in Row : HourOf[r] \in staleHours /\ HourOf[r] >= clock - HourlyReach
                     /\ HourOf[r] + 1 <= clock - HourlyLag => HourOf[r] \in hours
  BY <1>2 DEF HourlyRange
<1>5. \A r \in Row : HourOf[r] \in hours => DayOf(HourOf[r]) \in staleDays'
  BY <1>1 DEF Invalidated
<1>6. hours \subseteq Hours BY <1>2
<1>7. Invalidated(hours) \subseteq Days BY <1>6 DEF Invalidated, Days
<1> HIDE DEF hours
<1>8. \A r \in Row : Known(r) /\ HourOf[r] \in hours => r \in raw
  BY <1>3 DEF RawIsInReach
<1>9. \A r \in Row : Known(r)' <=> Known(r) BY <1>1 DEF Known
<1>10. hourly \subseteq hourly'
  BY <1>1, <1>2, <1>8 DEF TiersAreNested
<1>11. AggregatesTypeOK'
  <2>1. staleDays \subseteq Days /\ dailyRan \in Instant
        /\ committed \in [Row -> Instant \cup {-1}]
    BY DEF AggregatesTypeOK
  <2>2. staleDays' \subseteq Days BY <1>1, <1>7, <2>1
  <2>3. staleHours' \subseteq Hours /\ hourly' \subseteq Row /\ daily' \subseteq Row
    BY <1>1, <1>2
  <2> QED BY <1>1, <1>2, <2>1, <2>2, <2>3 DEF AggregatesTypeOK
<1>12. TimesAreKept' BY <1>1, <1>2 DEF TimesAreKept
<1>13. RawIsInReach' BY <1>1, <1>9 DEF RawIsInReach
<1>14. TiersAreNested'
  BY <1>1, <1>2, <1>9, <1>10 DEF TiersAreNested
<1>15. LackingHoursAreStale'
  <2> SUFFICES ASSUME NEW r \in Row, Known(r), r \notin hourly'
               PROVE  HourOf[r] \in staleHours'
    BY <1>9 DEF LackingHoursAreStale
  <2>1. r \notin hourly BY <1>10
  <2>2. HourOf[r] \in staleHours BY <2>1 DEF LackingHoursAreStale
  <2>3. HourOf[r] \notin hours BY <1>1, <1>8
  <2> QED BY <1>1, <2>2, <2>3
<1>16. LackingDaysAreStale'
  <2> SUFFICES ASSUME NEW r \in hourly', r \notin daily
               PROVE  DayOf(HourOf[r]) \in staleDays'
    BY <1>1 DEF LackingDaysAreStale, DayOf
  <2>1. CASE r \in hourly BY <1>1, <2>1 DEF LackingDaysAreStale
  <2>2. CASE r \in raw /\ HourOf[r] \in hours BY <1>2, <1>5, <2>2
  <2> QED BY <1>1, <2>1, <2>2
<1>17. HoursArePending'
  <2> SUFFICES ASSUME NEW r \in Row, OnTime(r), r \notin hourly'
               PROVE  clock <= Latest(committed[r], HourOf[r] + 1 + HourlyLag)
    BY <1>1, <1>9 DEF HoursArePending, OnTime, Latest, HourlyDue
  <2> DEFINE e == Latest(committed[r], HourOf[r] + 1 + HourlyLag)
  <2>1. r \notin hourly /\ hourlyRan <= e
    BY <1>10 DEF HoursArePending
  <2>2. /\ e \in Int /\ HourOf[r] + 1 + HourlyLag <= e
        /\ e + JobDelay <= HourOf[r] + HourlyReach
    BY Dues DEF OnTime
  <2> HIDE DEF e
  <2>3. HourOf[r] \in staleHours /\ HourOf[r] \notin hours
    BY <1>1, <1>8, <2>1 DEF LackingHoursAreStale, OnTime
  <2>4. ~(HourOf[r] >= clock - HourlyReach /\ HourOf[r] + 1 <= clock - HourlyLag)
    BY <1>4, <2>3
  <2>5. clock <= hourlyRan + JobDelay BY DEF TimesAreKept
  <2>6. clock <= e BY <1>2, <2>1, <2>2, <2>4, <2>5
  <2> QED BY <2>6 DEF e
<1>18. OnTimeDaysArePending'
  BY <1>1 DEF OnTimeDaysArePending, OnTime, Known, HourlyDue, Latest
<1>19. DaysArePending'
  <2> SUFFICES ASSUME NEW r \in hourly', r \notin daily
               PROVE  dailyRan + JobDelay <= DayStart(r) + DailyReach
    BY <1>1 DEF DaysArePending, DayStart, DayOf
  <2>1. CASE r \in hourly BY <2>1 DEF DaysArePending
  <2>2. CASE r \in raw /\ HourOf[r] \in hours
    <3>1. HourOf[r] >= clock - HourlyReach /\ dailyRan <= clock
      BY <1>2, <1>3, <2>2 DEF TimesAreKept
    <3>2. DayStart(r) \in Nat /\ HourOf[r] <= DayStart(r) + Day - 1 /\ HourOf[r] \in Nat
      BY <1>2, <2>2, RowDay
    <3>3. Day - 1 + HourlyReach + JobDelay <= DailyReach BY PolicyAssumption
    <3> QED BY <1>2, <3>1, <3>2, <3>3
  <2> QED BY <1>1, <2>1, <2>2
<1> QED BY <1>10, <1>11, <1>12, <1>13, <1>14, <1>15, <1>16, <1>17, <1>18, <1>19

\* An on-time row whose hour is due is in the hours.
LEMMA DueRowsAreInHours ==
    ASSUME TierInv, NEW r \in Row, OnTime(r), clock > HourlyDue(r, committed[r])
    PROVE  r \in hourly
<1> SUFFICES ASSUME r \notin hourly PROVE FALSE
  OBVIOUS
<1>1. hourlyRan <= Latest(committed[r], HourOf[r] + 1 + HourlyLag)
      /\ clock <= hourlyRan + JobDelay
  BY DEF TierInv, HoursArePending, TimesAreKept
<1>2. clock \in Nat /\ hourlyRan \in Nat BY TypesOf DEF TierInv
<1> QED BY <1>1, <1>2, Dues DEF TierInv

\* A run of the daily policy meets every day that is due in its range.
LEMMA DailyPreserves == ASSUME TierInv, RefreshDaily PROVE TierInv' /\ daily \subseteq daily'
<1> USE DEF TierInv
<1> DEFINE days == staleDays \cap DailyRange
<1>1. /\ daily' = {r \in daily : DayOf(HourOf[r]) \notin days}
                  \cup {r \in hourly : DayOf(HourOf[r]) \in days}
      /\ staleDays' = staleDays \ days
      /\ dailyRan' = clock
      /\ UNCHANGED <<clock, raw, hourly, staleHours, hourlyRan, committed>>
  BY DEF RefreshDaily
<1>2. /\ clock \in Nat /\ clock \in Instant /\ hourlyRan \in Nat /\ dailyRan \in Nat
      /\ hourly \subseteq Row /\ daily \subseteq hourly
      /\ staleDays \subseteq Days
  BY TypesOf DEF AggregatesTypeOK, TiersAreNested
<1>3. \A r \in Row : /\ DayOf(HourOf[r]) \in staleDays
                     /\ DayStart(r) >= clock - DailyReach
                     /\ DayStart(r) + Day <= clock - DailyLag
                     => DayOf(HourOf[r]) \in days
  <2> SUFFICES ASSUME NEW r \in Row, DayOf(HourOf[r]) \in staleDays,
                      DayStart(r) >= clock - DailyReach, DayStart(r) + Day <= clock - DailyLag
               PROVE  DayOf(HourOf[r]) \in DailyRange
    OBVIOUS
  <2>1. /\ DayOf(HourOf[r]) \in Days /\ (DayOf(HourOf[r]) + 1) * Day = DayStart(r) + Day
        /\ DayOf(HourOf[r]) * Day = DayStart(r)
    BY RowDay DEF DayStart
  <2> QED BY <2>1 DEF DailyRange
<1> HIDE DEF days
<1>4. \A r \in hourly : r \notin daily' => r \notin daily /\ DayOf(HourOf[r]) \notin days
  BY <1>1
<1>5. daily \subseteq daily' /\ daily' \subseteq hourly BY <1>1, <1>2
<1>6. AggregatesTypeOK' BY <1>1, <1>2, <1>5 DEF AggregatesTypeOK
<1>7. TimesAreKept' BY <1>1, <1>2 DEF TimesAreKept
<1>8. RawIsInReach' /\ LackingHoursAreStale' /\ HoursArePending'
  BY <1>1 DEF RawIsInReach, LackingHoursAreStale, HoursArePending, OnTime, Known, HourlyDue,
              Latest
<1>9. TiersAreNested' BY <1>1, <1>5 DEF TiersAreNested, Known
<1>10. LackingDaysAreStale'
  <2> SUFFICES ASSUME NEW r \in hourly, r \notin daily'
               PROVE  DayOf(HourOf[r]) \in staleDays \ days
    BY <1>1 DEF LackingDaysAreStale, DayOf
  <2> QED BY <1>4 DEF LackingDaysAreStale
<1>11. OnTimeDaysArePending'
  <2> SUFFICES ASSUME NEW r \in Row, OnTime(r), r \notin daily'
               PROVE  clock <= Latest(HourlyDue(r, committed[r]), DayStart(r) + Day + DailyLag)
    BY <1>1 DEF OnTimeDaysArePending, OnTime, Known, HourlyDue, Latest
  <2> DEFINE due == HourlyDue(r, committed[r])
             e == Latest(due, DayStart(r) + Day + DailyLag)
  <2>1. r \notin daily /\ dailyRan <= e
    BY <1>5 DEF OnTimeDaysArePending
  <2>2. /\ e \in Int /\ due \in Int /\ due <= e /\ DayStart(r) + Day + DailyLag <= e
        /\ e \in {due, DayStart(r) + Day + DailyLag}
    BY Dues
  <2>3. due <= HourOf[r] + HourlyReach BY DEF OnTime
  <2>4. /\ DayStart(r) \in Nat /\ HourOf[r] \in Nat /\ HourOf[r] <= DayStart(r) + Day - 1
    BY RowDay
  <2>5. clock > due => r \in hourly BY DueRowsAreInHours
  <2> HIDE DEF e, due
  <2>6. e + JobDelay <= DayStart(r) + DailyReach
    <3>1. CASE e = due
      <4>1. Day - 1 + HourlyReach + JobDelay <= DailyReach BY PolicyAssumption
      <4> QED BY <2>2, <2>3, <2>4, <3>1, <4>1
    <3>2. CASE e = DayStart(r) + Day + DailyLag
      <4>1. Day + DailyLag + JobDelay <= DailyReach BY PolicyAssumption
      <4> QED BY <2>4, <3>2, <4>1
    <3> QED BY <2>2, <3>1, <3>2
  <2>7. clock <= dailyRan + JobDelay BY DEF TimesAreKept
  <2>8. ASSUME clock > e PROVE FALSE
    <3>1. r \in hourly BY <1>2, <2>2, <2>5, <2>8
    <3>2. DayOf(HourOf[r]) \in staleDays BY <2>1, <3>1 DEF LackingDaysAreStale
    <3>3. DayStart(r) >= clock - DailyReach BY <1>2, <2>1, <2>2, <2>4, <2>6, <2>7
    <3>4. DayStart(r) + Day <= clock - DailyLag BY <1>2, <2>2, <2>4, <2>8
    <3> QED BY <1>3, <1>4, <3>1, <3>2, <3>3, <3>4
  <2>9. clock <= e BY <1>2, <2>2, <2>8
  <2> QED BY <2>9 DEF e, due
<1>12. DaysArePending'
  <2> SUFFICES ASSUME NEW r \in hourly, r \notin daily'
               PROVE  clock + JobDelay <= DayStart(r) + DailyReach
    BY <1>1 DEF DaysArePending, DayStart, DayOf
  <2>1. r \notin daily /\ r \in Row /\ DayOf(HourOf[r]) \notin days
        /\ DayOf(HourOf[r]) \in staleDays
    BY <1>2, <1>4 DEF LackingDaysAreStale
  <2>2. dailyRan + JobDelay <= DayStart(r) + DailyReach /\ clock <= dailyRan + JobDelay
    BY <2>1 DEF DaysArePending, TimesAreKept
  <2>3. DayStart(r) \in Nat BY <2>1, RowDay
  <2>4. DayStart(r) >= clock - DailyReach BY <1>2, <2>2, <2>3
  <2>5. ~(DayStart(r) + Day <= clock - DailyLag) BY <1>3, <2>1, <2>4
  <2>6. Day + DailyLag + JobDelay <= DailyReach BY PolicyAssumption
  <2> QED BY <1>2, <2>3, <2>5, <2>6
<1> QED BY <1>5, <1>6, <1>7, <1>8, <1>9, <1>10, <1>11, <1>12

\* No step takes a row from the hours or the days.
LEMMA TierNext ==
    ASSUME TierInv, [Next]_vars
    PROVE  TierInv' /\ hourly \subseteq hourly' /\ daily \subseteq daily'
<1>1. CASE Tick BY <1>1, TickPreserves DEF Tick
<1>2. ASSUME NEW r \in Row, Commit(r)
      PROVE  TierInv' /\ hourly \subseteq hourly' /\ daily \subseteq daily'
  BY <1>2, CommitPreserves DEF Commit
<1>3. CASE RefreshHourly BY <1>3, HourlyPreserves DEF RefreshHourly
<1>4. CASE RefreshDaily BY <1>4, DailyPreserves DEF RefreshDaily
<1>5. CASE DropChunks BY <1>5, DropPreserves DEF DropChunks
<1>6. CASE UNCHANGED vars
  BY <1>6 DEF vars, TierInv, AggregatesTypeOK, TimesAreKept, RawIsInReach, TiersAreNested,
        LackingHoursAreStale, LackingDaysAreStale, HoursArePending, OnTimeDaysArePending,
        DaysArePending, OnTime, Known, HourlyDue, Latest
<1> QED BY <1>1, <1>2, <1>3, <1>4, <1>5, <1>6 DEF Next

------------------------------------------------------------------------------
(***************************************************************************)
(* The theorems.                                                           *)
(***************************************************************************)

\* TierInv holds always.
THEOREM TierInvariant == Spec => []TierInv
<1>1. TierInv /\ [Next]_vars => TierInv' BY TierNext
<1> QED BY TierInit, <1>1, PTL DEF Spec

\* The tiers and the policies stay within their types.
THEOREM AggregatesTypeCorrect == Spec => []AggregatesTypeOK
<1>1. TierInv => AggregatesTypeOK BY DEF TierInv
<1> QED BY TierInvariant, <1>1, PTL

\* The policies of the migration: a row that is committed in time for the hourly
\* range is in its day when the daily policy has come to it, and for ever.
THEOREM OnTimeRowsStay == Spec => []OnTimeRowsStayInDays
<1>1. TierInv => OnTimeRowsStayInDays
  <2> SUFFICES ASSUME TierInv, NEW r \in Row, committed[r] >= 0,
                      HourlyDue(r, committed[r]) <= HourOf[r] + HourlyReach,
                      clock > DailyDue(r, committed[r]), r \notin daily
               PROVE  FALSE
    BY DEF OnTimeRowsStayInDays
  <2>1. OnTime(r) BY DEF OnTime, Known
  <2>2. /\ dailyRan <= Latest(HourlyDue(r, committed[r]), DayStart(r) + Day + DailyLag)
        /\ clock <= dailyRan + JobDelay
    BY <2>1 DEF TierInv, OnTimeDaysArePending, TimesAreKept
  <2>3. clock \in Nat /\ dailyRan \in Nat BY TypesOf DEF TierInv
  <2> QED BY <2>2, <2>3, Dues DEF TierInv
<1> QED BY TierInvariant, <1>1, PTL

\* A refresh recomputes whole days from the hours, and the hours lose nothing:
\* retention drops raw rows only where the hourly policy does not reach.
THEOREM DaysGrow == Spec => DaysOnlyGrow
<1>1. TierInv /\ [Next]_vars => [daily \subseteq daily']_vars BY TierNext
<1> QED BY TierInvariant, <1>1, PTL DEF Spec, DaysOnlyGrow

\* A row the hours have reaches the days before the daily policy leaves its day
\* behind, and a row the hours lack, the days lack.
THEOREM TiersAgreed == Spec => []TiersAgree
<1>1. TierInv => TiersAgree
  <2> SUFFICES ASSUME TierInv, NEW r \in Row, clock > DayStart(r) + DailyReach
               PROVE  r \in hourly <=> r \in daily
    BY DEF TiersAgree, DayStart
  <2>1. r \in daily => r \in hourly BY DEF TierInv, TiersAreNested
  <2>2. ASSUME r \in hourly, r \notin daily PROVE FALSE
    <3>1. dailyRan + JobDelay <= DayStart(r) + DailyReach /\ clock <= dailyRan + JobDelay
      BY <2>2 DEF TierInv, DaysArePending, TimesAreKept
    <3>2. clock \in Nat /\ dailyRan \in Nat /\ DayStart(r) \in Nat
      BY TypesOf, RowDay DEF TierInv
    <3> QED BY <3>1, <3>2
  <2> QED BY <2>1, <2>2
<1> QED BY TierInvariant, <1>1, PTL

=============================================================================
