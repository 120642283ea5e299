------------------------------ MODULE Aggregates ------------------------------
(***************************************************************************)
(* The tiers of aggregates that the migration puts over a hypertable:      *)
(* hours over the raw rows, days over the hours, each with a policy that   *)
(* refreshes a recent range only, and a retention policy on the raw rows.  *)
(* obs_* and gridded_* differ in the numbers alone.                        *)
(*                                                                         *)
(* TimescaleDB remembers which buckets of a tier were invalidated, by      *)
(* writes, by a refresh of the tier below or by a drop of chunks; a        *)
(* refresh recomputes those of them that lie in its range as a whole.      *)
(* A bucket is abstracted to the rows it was computed from.                *)
(***************************************************************************)
EXTENDS Integers, FiniteSets

CONSTANTS
    Row,            \* rows of one group: station, variable, source
    HourOf,         \* the hour of a row
    Day,            \* hours of a day
    HourlyReach, HourlyLag,     \* start_offset and end_offset of the hours
    DailyReach, DailyLag,       \* and of the days
    Retention,      \* drop_after of the raw rows
    Chunk,          \* chunk_time_interval of the raw rows
    Ahead,          \* a forecast is valid so many hours ahead, an observation 0
    JobDelay,       \* bound: time between two runs of a policy
    MaxClock        \* bound: the last hour

ASSUME RowAssumption ==
    /\ HourOf \in [Row -> Nat]
    /\ Day \in Nat \ {0} /\ Chunk \in Nat \ {0} /\ JobDelay \in Nat \ {0}
    /\ HourlyReach \in Nat /\ HourlyLag \in Nat
    /\ DailyReach \in Nat /\ DailyLag \in Nat /\ Ahead \in Nat
    /\ Retention \in Nat /\ MaxClock \in Nat

\* "Policy ordering verified": each range leaves room for the one before it.
ASSUME PolicyAssumption ==
    /\ 1 + HourlyLag + JobDelay <= HourlyReach
    /\ Day - 1 + HourlyReach + JobDelay <= DailyReach
    /\ Day + DailyLag + JobDelay <= DailyReach
    /\ HourlyReach <= Retention

VARIABLES
    clock,          \* the current hour
    raw,            \* rows of the hypertable
    hourly,         \* rows that went into the hours
    daily,          \* rows that went into the days
    staleHours,     \* invalidated hours
    staleDays,      \* invalidated days
    hourlyRan, dailyRan     \* when the policies last ran

\* History: when a row was first committed, -1 for never.
VARIABLE committed

vars == <<clock, raw, hourly, daily, staleHours, staleDays, hourlyRan, dailyRan,
          committed>>

Instant == 0..MaxClock
Hours   == {HourOf[r] : r \in Row}
DayOf(h) == h \div Day
Days    == {DayOf(h) : h \in Hours}

AggregatesTypeOK ==
    /\ clock \in Instant
    /\ raw \subseteq Row /\ hourly \subseteq Row /\ daily \subseteq Row
    /\ staleHours \subseteq Hours /\ staleDays \subseteq Days
    /\ hourlyRan \in Instant /\ dailyRan \in Instant
    /\ committed \in [Row -> Instant \cup {-1}]

\* WITH NO DATA.
Init ==
    /\ clock = 0
    /\ raw = {} /\ hourly = {} /\ daily = {}
    /\ staleHours = Hours /\ staleDays = Days
    /\ hourlyRan = 0 /\ dailyRan = 0
    /\ committed = [r \in Row |-> -1]

\* Time passes, and no policy stays away for longer than JobDelay.
Tick ==
    /\ clock < MaxClock
    /\ clock < hourlyRan + JobDelay
    /\ clock < dailyRan + JobDelay
    /\ clock' = clock + 1
    /\ UNCHANGED <<raw, hourly, daily, staleHours, staleDays, hourlyRan, dailyRan,
                   committed>>

\* A transaction of a writer commits a row, new or corrected: of the present, of
\* the hours ahead, or, in a backfill, of long ago.
Commit(r) ==
    /\ HourOf[r] <= clock + Ahead
    /\ raw' = raw \cup {r}
    /\ staleHours' = staleHours \cup {HourOf[r]}
    /\ committed' = [committed EXCEPT ![r] = IF @ = -1 THEN clock ELSE @]
    /\ UNCHANGED <<clock, hourly, daily, staleDays, hourlyRan, dailyRan>>

------------------------------------------------------------------------------
\* Variant: start_offset => NULL.
EveryHour == {h \in Hours : h + 1 <= clock - HourlyLag}

\* The whole hours of [now - start_offset, now - end_offset].
HourlyRange == {h \in Hours : h >= clock - HourlyReach /\ h + 1 <= clock - HourlyLag}

\* Variant: the daily policy with the offsets of the hourly one.
ShortDailyRange == {d \in Days : /\ d * Day >= clock - HourlyReach - 1
                                 /\ (d + 1) * Day <= clock - DailyLag}

DailyRange == {d \in Days : /\ d * Day >= clock - DailyReach
                            /\ (d + 1) * Day <= clock - DailyLag}

\* Variant: a day is computed once.
NotInvalidated(hours) == {}

\* Variant: the log of the tier above holds hours.
InvalidatedHours(hours) == hours

\* A tier that is refreshed invalidates the one above.
Invalidated(hours) == {DayOf(h) : h \in hours}

\* The policy of obs_hourly or gridded_hourly runs.
RefreshHourly ==
    LET hours == staleHours \cap HourlyRange
    IN /\ hourly' = {r \in hourly : HourOf[r] \notin hours}
                    \cup {r \in raw : HourOf[r] \in hours}
       /\ staleHours' = staleHours \ hours
       /\ staleDays' = staleDays \cup Invalidated(hours)
       /\ hourlyRan' = clock
       /\ UNCHANGED <<clock, raw, daily, dailyRan, committed>>

\* The policy of obs_daily or gridded_daily runs, on the hours.
RefreshDaily ==
    LET days == staleDays \cap DailyRange
    IN /\ daily' = {r \in daily : DayOf(HourOf[r]) \notin days}
                   \cup {r \in hourly : DayOf(HourOf[r]) \in days}
       /\ staleDays' = staleDays \ days
       /\ dailyRan' = clock
       /\ UNCHANGED <<clock, raw, hourly, staleHours, hourlyRan, committed>>

ChunkOf(h) == h \div Chunk

ChunkEnd(r) == (ChunkOf(HourOf[r]) + 1) * Chunk

\* The retention policy drops the chunks that lie before now - drop_after, and
\* invalidates their hours.
DropChunks ==
    LET dropped == {r \in raw : ChunkEnd(r) <= clock - Retention}
    IN /\ raw' = raw \ dropped
       /\ staleHours' = staleHours
             \cup {h \in Hours : \E r \in dropped : ChunkOf(h) = ChunkOf(HourOf[r])}
       /\ UNCHANGED <<clock, hourly, daily, staleDays, hourlyRan, dailyRan, committed>>

Next ==
    \/ Tick
    \/ \E r \in Row : Commit(r)
    \/ RefreshHourly
    \/ RefreshDaily
    \/ DropChunks

Spec == Init /\ [][Next]_vars

------------------------------------------------------------------------------
Latest(a, b) == IF a >= b THEN a ELSE b

\* When the hour of a row committed at instant c is refreshed at the latest.
HourlyDue(r, c) == Latest(c, HourOf[r] + 1 + HourlyLag) + JobDelay

\* And its day.
DailyDue(r, c) ==
    Latest(HourlyDue(r, c), (DayOf(HourOf[r]) + 1) * Day + DailyLag) + JobDelay

\* A row that is committed early enough for the hourly policy to meet it in its
\* range is in the days, a policy run after the range of the days has come to it,
\* and stays there: after later rows of its day, after the raw rows were dropped,
\* and after a backfill has written rows of a bucket whose raw rows are gone.
OnTimeRowsStayInDays ==
    \A r \in Row :
        /\ committed[r] >= 0
        /\ HourlyDue(r, committed[r]) <= HourOf[r] + HourlyReach
        /\ clock > DailyDue(r, committed[r])
        => r \in daily

\* What a day once contained it never loses, for as long as days are kept.
DaysOnlyGrow == [][daily \subseteq daily']_vars

\* The tiers agree about every day that the daily policy has left behind: rows
\* that came too late for the hours are missing in both.
TiersAgree ==
    \A r \in Row :
        clock > DayOf(HourOf[r]) * Day + DailyReach => (r \in hourly <=> r \in daily)
=============================================================================
