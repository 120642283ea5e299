-------------------------- MODULE GridForecastProofs --------------------------
(***************************************************************************)
(* Theorems about GridForecast, for any number of processes, any cadence   *)
(* and steps, and any delay of the dissemination.                          *)
(***************************************************************************)
EXTENDS GridForecast, TLAPS

USE GridAssumption

------------------------------------------------------------------------------
(***************************************************************************)
(* Cycles are the multiples of the cadence.                                *)
(***************************************************************************)

LEMMA ModOfSum ==
    ASSUME NEW q \in Int, NEW d \in Nat \ {0}, NEW h \in 0..d - 1
    PROVE  (q * d + h) % d = h
OBVIOUS

LEMMA Quotient ==
    ASSUME NEW a \in Nat, NEW d \in Nat \ {0}
    PROVE  \E q \in Nat, h \in 0..d - 1 : a = q * d + h /\ h = a % d
<1>1. a \div d \in Nat /\ (a \div d) * d <= a /\ a <= (a \div d) * d + d - 1
  OBVIOUS
<1>2. PICK q \in Nat : q = a \div d BY <1>1
<1>3. PICK p \in Nat : p = q * d OBVIOUS
<1>4. p <= a /\ a <= p + d - 1 BY <1>1, <1>2, <1>3
<1>5. a - p \in 0..d - 1 BY <1>4
<1>6. PICK h \in 0..d - 1 : h = a - p BY <1>5
<1>7. a = p + h BY <1>6
<1>8. (q * d + h) % d = h BY ModOfSum
<1>9. a = q * d + h BY <1>3, <1>7
<1>10. a % d = h BY <1>8, <1>9
<1> QED BY <1>9, <1>10

LEMMA Multiples ==
    ASSUME NEW a \in Nat, NEW d \in Nat \ {0}
    PROVE  a % d = 0 <=> \E q \in Int : a = q * d
<1>1. ASSUME a % d = 0 PROVE \E q \in Int : a = q * d
  <2>1. PICK q \in Nat, h \in 0..d - 1 : a = q * d + h /\ h = a % d BY Quotient
  <2>2. q \in Int /\ a = q * d BY <1>1, <2>1
  <2> QED BY <2>2
<1>2. ASSUME NEW q \in Int, a = q * d PROVE a % d = 0
  <2>1. 0 \in 0..d - 1 /\ q * d \in Int /\ a = q * d + 0 /\ q * d + 0 \in Nat BY <1>2
  <2> QED BY <2>1, ModOfSum
<1> QED BY <1>1, <1>2

\* Numbers that are congruent are the modulus apart.
LEMMA Apart ==
    ASSUME NEW a \in Nat, NEW b \in Nat, NEW d \in Nat \ {0}, a % d = b % d, a < b
    PROVE  a + d <= b
<1>1. PICK q \in Nat, h \in 0..d - 1 : a = q * d + h /\ h = a % d BY Quotient
<1>2. PICK p \in Nat, k \in 0..d - 1 : b = p * d + k /\ k = b % d BY Quotient
<1>3. h = k BY <1>1, <1>2
<1>4. q * d < p * d BY <1>1, <1>2, <1>3
<1>5. q < p BY <1>4
<1>6. q + 1 <= p BY <1>5
<1>7. (q + 1) * d <= p * d BY <1>6
<1>8. (q + 1) * d = q * d + d OBVIOUS
<1> QED BY <1>1, <1>2, <1>3, <1>7, <1>8

LEMMA SumOfMultiples ==
    ASSUME NEW a \in Nat, NEW b \in Nat, NEW d \in Nat \ {0}, a % d = 0, b % d = 0
    PROVE  (a + b) % d = 0
<1>1. PICK q \in Int : a = q * d BY Multiples
<1>2. PICK p \in Int : b = p * d BY Multiples
<1>3. a + b = (q + p) * d BY <1>1, <1>2
<1>4. q + p \in Int /\ a + b \in Nat OBVIOUS
<1> QED BY <1>3, <1>4, Multiples

------------------------------------------------------------------------------
(***************************************************************************)
(* What Min and Max choose.                                                *)
(***************************************************************************)

LEMMA MinIs ==
    ASSUME NEW S \in SUBSET Int, NEW m \in S, \A n \in S : m <= n
    PROVE  Min(S) = m
<1>1. Min(S) \in S /\ \A n \in S : Min(S) <= n BY DEF Min
<1>2. Min(S) \in Int /\ m \in Int BY <1>1
<1>3. Min(S) <= m /\ m <= Min(S) BY <1>1
<1> QED BY <1>2, <1>3

LEMMA MaxIs ==
    ASSUME NEW S \in SUBSET Int, NEW m \in S, \A n \in S : m >= n
    PROVE  Max(S) = m
<1>1. Max(S) \in S /\ \A n \in S : Max(S) >= n BY DEF Max
<1>2. Max(S) \in Int /\ m \in Int BY <1>1
<1>3. Max(S) >= m /\ m >= Max(S) BY <1>1
<1> QED BY <1>2, <1>3

LEMMA Proportions ==
    /\ Horizon \in Nat /\ Instant \subseteq Nat
    /\ Horizon = MaxClock + 2 * Day
    /\ 2 * Cadence <= Day
    /\ 0 % Cadence = 0 /\ 0 % Day = 0
<1>1. Horizon \in Nat /\ Instant \subseteq Nat BY DEF Horizon, Instant
<1>2. 0 % Cadence = 0 /\ 0 % Day = 0
  <2>1. 0 = 0 * Cadence /\ 0 = 0 * Day OBVIOUS
  <2> QED BY <2>1, Multiples
<1> QED BY <1>1, <1>2 DEF Horizon

LEMMA CyclesAre ==
    ASSUME NEW since \in Nat, NEW until \in Nat
    PROVE  /\ Cycles(since, until) \subseteq Instant
           /\ Cycles(since, until) \subseteq Int
           /\ \A c \in Cycles(since, until) :
                 c \in Instant /\ c \in Nat /\ c % Cadence = 0 /\ since <= c /\ c <= until
<1>1. \A c \in Cycles(since, until) :
         c \in Instant /\ c % Cadence = 0 /\ since <= c /\ c <= until
  BY DEF Cycles
<1>2. Instant \subseteq Nat /\ Instant \subseteq Int BY Proportions
<1> QED BY <1>1, <1>2

\* The greatest multiple up to an instant.
LEMMA Floor ==
    ASSUME NEW t \in Nat
    PROVE  \E c \in 0..t : c % Cadence = 0 /\ t < c + Cadence
<1>0. Cadence \in Nat \ {0} OBVIOUS
<1>1. PICK q \in Nat, h \in 0..Cadence - 1 : t = q * Cadence + h /\ h = t % Cadence
  BY <1>0, Quotient
<1>2. PICK c \in Nat : c = q * Cadence BY <1>1
<1>3. c % Cadence = 0 BY <1>0, <1>2, Multiples
<1> QED BY <1>1, <1>2, <1>3

\* The least one from an instant on.
LEMMA Ceiling ==
    ASSUME NEW t \in Nat
    PROVE  \E c \in t..t + Cadence - 1 : c % Cadence = 0
<1>1. CASE t = 0
  <2>1. 0 \in t..t + Cadence - 1 BY <1>1
  <2> QED BY <2>1, Proportions
<1>2. CASE t # 0
  <2>1. t - 1 \in Nat BY <1>2
  <2>2. PICK c \in 0..t - 1 : c % Cadence = 0 /\ t - 1 < c + Cadence BY <2>1, Floor
  <2>3. Cadence % Cadence = 0
    <3>1. Cadence = 1 * Cadence OBVIOUS
    <3> QED BY <3>1, Multiples
  <2>4. (c + Cadence) % Cadence = 0
    <3>1. c \in Nat /\ Cadence \in Nat /\ Cadence \in Nat \ {0} OBVIOUS
    <3> QED BY <2>2, <2>3, <3>1, SumOfMultiples
  <2>5. c + Cadence \in t..t + Cadence - 1 BY <2>2
  <2> QED BY <2>4, <2>5
<1> QED BY <1>1, <1>2

\* The cycles of a window have a first one.
LEMMA FirstCycle ==
    ASSUME NEW since \in Nat, NEW until \in Nat, Cycles(since, until) # {}
    PROVE  /\ Min(Cycles(since, until)) \in Cycles(since, until)
           /\ \A c \in Cycles(since, until) : Min(Cycles(since, until)) <= c
<1>1. PICK m \in since..since + Cadence - 1 : m % Cadence = 0 BY Ceiling
<1>2. \A c \in Cycles(since, until) : m <= c
  <2> SUFFICES ASSUME NEW c \in Cycles(since, until), c < m PROVE FALSE
    BY CyclesAre
  <2>1. c \in Nat /\ c % Cadence = 0 /\ since <= c BY CyclesAre
  <2>2. c % Cadence = m % Cadence /\ m \in Nat BY <1>1, <2>1
  <2>3. c + Cadence <= m BY <2>1, <2>2, Apart
  <2> QED BY <2>1, <2>3
<1>3. PICK c \in Cycles(since, until) : TRUE OBVIOUS
<1>4. m <= c /\ c \in Instant /\ c <= until /\ c \in Nat BY <1>2, CyclesAre
<1>5. m \in Instant BY <1>4, Proportions DEF Instant
<1>7. m <= until BY <1>4
<1>8. m \in Cycles(since, until) BY <1>1, <1>5, <1>7 DEF Cycles
<1> QED BY <1>2, <1>8, CyclesAre, MinIs

\* After the dissemination of its first day there is a newest forecast of every
\* hour.  It is that of the cycle itself when this one is disseminated, for the
\* cycle of the next day is not yet.
LEMMA NewestForecast ==
    ASSUME clock \in Nat, clock >= Day + Delay, NEW c \in Nat, c % Cadence = 0
    PROVE  /\ Retrieved(c) \in Disseminated(c % Day)
           /\ Retrieved(c) \in 0..clock /\ Retrieved(c) + Delay <= clock
           /\ c + Delay <= clock /\ clock < c + Day + Delay => Retrieved(c) = c
<1>0. Day \in Nat \ {0} /\ Day % Cadence = 0 /\ Cadence \in Nat \ {0} /\ Delay \in Nat
  OBVIOUS
<1>1. PICK q \in Nat, hour \in 0..Day - 1 : c = q * Day + hour /\ hour = c % Day
  BY <1>0, Quotient
<1>2. PICK t \in Nat : t = clock - Delay - hour BY <1>0
<1>3. PICK k \in Nat, rest \in 0..Day - 1 : t = k * Day + rest /\ rest = t % Day
  BY <1>0, Quotient
<1>4. PICK m \in Nat : m = k * Day + hour BY <1>0
<1>5. m % Day = hour
  <2>1. (k * Day + hour) % Day = hour BY <1>0, ModOfSum
  <2> QED BY <1>4, <2>1
<1>6. m + Delay <= clock /\ clock < m + Day + Delay BY <1>0, <1>2, <1>3, <1>4
<1>7. m % Cadence = 0
  <2>1. PICK x \in Int : c = x * Cadence BY <1>0, Multiples
  <2>2. PICK y \in Int : Day = y * Cadence BY <1>0, Multiples
  <2>3. PICK e \in Int : e = k - q OBVIOUS
  <2>4. e * Day = k * Day - q * Day BY <1>0, <2>3
  <2>5. m = c + e * Day BY <1>1, <1>4, <2>4
  <2>6. e * Day = (e * y) * Cadence BY <2>2
  <2>7. PICK z \in Int : z = e * y OBVIOUS
  <2>8. m = x * Cadence + z * Cadence BY <2>1, <2>5, <2>6, <2>7
  <2>9. m = (x + z) * Cadence /\ x + z \in Int BY <2>8
  <2> QED BY <1>0, <2>9, Multiples
<1>8. m \in Disseminated(hour) BY <1>0, <1>5, <1>6, <1>7 DEF Disseminated
<1>9. \A n \in Disseminated(hour) : m >= n
  <2>0. \A n \in Disseminated(hour) : n \in Int BY DEF Disseminated
  <2> SUFFICES ASSUME NEW n \in Disseminated(hour), m < n PROVE FALSE
    BY <2>0
  <2>1. n \in Nat /\ n % Day = m % Day /\ n + Delay <= clock BY <1>5 DEF Disseminated
  <2>2. m + Day <= n BY <1>0, <2>1, Apart
  <2> QED BY <1>0, <1>6, <2>1, <2>2
<1>10. Disseminated(hour) \in SUBSET Int BY DEF Disseminated
<1>11. Max(Disseminated(hour)) = m BY <1>8, <1>9, <1>10, MaxIs
<1>12. Retrieved(c) = m BY <1>1, <1>11 DEF Retrieved
<1>13. ASSUME c + Delay <= clock, clock < c + Day + Delay PROVE m = c
  <2>1. c % Day = m % Day BY <1>1, <1>5
  <2>2. ~(c < m)
    <3>1. c < m => c + Day <= m BY <1>0, <2>1, Apart
    <3> QED BY <1>0, <1>6, <1>13, <3>1
  <2>3. ~(m < c)
    <3>1. m < c => m + Day <= c BY <1>0, <2>1, Apart
    <3> QED BY <1>0, <1>6, <1>13, <3>1
  <2> QED BY <2>2, <2>3
<1> QED BY <1>0, <1>1, <1>6, <1>8, <1>12, <1>13

------------------------------------------------------------------------------
(***************************************************************************)
(* The inductive invariant: what is true of an execution e, of a batch     *)
(* between two cycles, of a table of rows, at an instant t.                *)
(***************************************************************************)

WindowSound(e, t) ==
    /\ e.now <= t
    /\ e.until + Day <= Horizon
    /\ e.kind = "run" => e.until = e.now /\ e.since = e.now - 2 * Cadence

\* The cycles of the window that the loop of fetch has passed.
Downloaded(e) == {c \in Cycles(e.since, e.until) : e.pc = "download" => c < e.next}

\* Every step of a downloaded cycle is there, in its version or a newer one.
BatchComplete(e) ==
    \A c \in Downloaded(e), s \in Steps :
        e.batch[c + s] # None /\ e.batch[c + s].init >= c

\* A row belongs to a downloaded cycle; it is of that cycle only if that was
\* disseminated, and is so if it was disseminated when the execution began and
\* that of the next day is not out yet.
BatchLabelled(e, t) ==
    \A v \in Instant : e.batch[v] # None =>
        LET row == e.batch[v]
        IN  /\ row \in Row /\ row.by = e.kind
            /\ row.init \in Downloaded(e) /\ v - row.init \in Steps
            /\ row.of = row.init => row.init + Delay <= t
            /\ e.kind = "run" /\ row.init + Delay <= e.now
                  => row.of = row.init \/ row.init + Day + Delay <= t

\* The rows of executions of run_source are of cycles of the past.
RowsSound(rows, t) ==
    \A v \in Instant : rows[v].by = "run" =>
        /\ rows[v].init % Cadence = 0
        /\ rows[v].init <= t /\ v - rows[v].init \in Steps
        /\ rows[v].of = rows[v].init => rows[v].init + Delay <= t

ExecSound(e, t) ==
    e.pc # "idle" =>
        /\ WindowSound(e, t)
        /\ RowsSound(e.base, e.now)
        /\ e.pc = "download" => e.next \in Cycles(e.since, e.until)
        /\ e.pc \in {"download", "write"} => BatchComplete(e) /\ BatchLabelled(e, t)

ExecutionsAreSound == \A w \in Worker : ExecSound(exec[w], clock)

WrittenIsRecorded ==
    \A w \in Worker : At(w, "record") => [since |-> exec[w].since, until |-> exec[w].until] \in runs

WindowsEnd == \A r \in runs : r.until + Day <= Horizon

GridInv ==
    /\ GridTypeOK
    /\ ExecutionsAreSound
    /\ WrittenIsRecorded
    /\ WindowsEnd
    /\ RowsSound(table, clock)
    /\ CoveredCyclesAreStored

------------------------------------------------------------------------------
(***************************************************************************)
(* Types.                                                                  *)
(***************************************************************************)

LEMMA ExecTypes ==
    ASSUME NEW e \in Execution
    PROVE  /\ e.pc \in {"idle", "download", "write", "record"} /\ e.kind \in Kind
           /\ e.now \in 0..MaxClock /\ e.now \in Nat
           /\ e.since \in Nat /\ e.until \in Instant /\ e.until \in Nat
           /\ e.next \in Instant /\ e.next \in Nat
           /\ e.batch \in Rows /\ e.base \in Rows
<1>1. /\ e.pc \in {"idle", "download", "write", "record"} /\ e.kind \in Kind
      /\ e.now \in 0..MaxClock /\ e.since \in Nat /\ e.until \in Instant
      /\ e.next \in Instant /\ e.batch \in Rows /\ e.base \in Rows
  BY DEF Execution
<1>2. Instant \subseteq Nat BY Proportions
<1>3. e.now \in Nat BY <1>1
<1>4. e.until \in Nat /\ e.next \in Nat BY <1>1, <1>2
<1> QED BY <1>1, <1>3, <1>4

LEMMA GridTypes ==
    ASSUME GridTypeOK
    PROVE  /\ clock \in Nat /\ clock \in 0..MaxClock /\ clock \in Instant
           /\ clock >= Day + Delay /\ clock <= MaxClock
           /\ \A w \in Worker : exec[w] \in Execution
           /\ table \in Rows /\ lastSuccess \in Nat
<1>1. clock \in Begin..MaxClock BY DEF GridTypeOK
<1>2. clock \in Nat /\ clock <= MaxClock /\ clock >= Begin BY <1>1
<1>3. clock \in Instant BY <1>2, Proportions DEF Instant
<1> QED BY <1>2, <1>3 DEF GridTypeOK

LEMMA NoneIsNoRow == None \notin Row /\ None.by # "run"
BY Proportions DEF None, Row

LEMMA EmptyType == Empty \in Rows /\ \A v \in Instant : Empty[v] = None
BY DEF Empty, Rows

LEMMA IdleType == Idle \in Execution
<1>1. 0 \in Instant /\ 0 \in 0..MaxClock /\ 0 \in Nat BY Proportions DEF Instant
<1> QED BY <1>1, EmptyType DEF Idle, Execution, Kind

LEMMA RowTypes ==
    ASSUME NEW rows \in Rows, NEW v \in Instant, rows[v] # None
    PROVE  rows[v] \in Row /\ rows[v].init \in Nat /\ rows[v].of \in Nat /\ rows[v].by \in Kind
<1>1. rows[v] \in Row BY DEF Rows
<1> QED BY <1>1, Proportions DEF Row

------------------------------------------------------------------------------
(***************************************************************************)
(* What is sound remains so while time passes and executions go on.        *)
(***************************************************************************)

LEMMA RowsLater ==
    ASSUME NEW rows \in Rows, NEW t \in Nat, NEW u \in Nat, t <= u, RowsSound(rows, t)
    PROVE  RowsSound(rows, u)
<1> SUFFICES ASSUME NEW v \in Instant, rows[v].by = "run"
             PROVE  /\ rows[v].init % Cadence = 0
                    /\ rows[v].init <= u /\ v - rows[v].init \in Steps
                    /\ rows[v].of = rows[v].init => rows[v].init + Delay <= u
  BY DEF RowsSound
<1>1. rows[v] # None BY NoneIsNoRow
<1>2. rows[v].init \in Nat BY <1>1, RowTypes
<1>3. /\ rows[v].init % Cadence = 0
      /\ rows[v].init <= t /\ v - rows[v].init \in Steps
      /\ rows[v].of = rows[v].init => rows[v].init + Delay <= t
  BY DEF RowsSound
<1> QED BY <1>2, <1>3

LEMMA ExecLater ==
    ASSUME NEW e \in Execution, NEW t \in Nat, NEW u \in Nat, t <= u, ExecSound(e, t)
    PROVE  ExecSound(e, u)
<1> SUFFICES ASSUME e.pc # "idle"
             PROVE  /\ WindowSound(e, u)
                    /\ RowsSound(e.base, e.now)
                    /\ e.pc = "download" => e.next \in Cycles(e.since, e.until)
                    /\ e.pc \in {"download", "write"} => BatchComplete(e) /\ BatchLabelled(e, u)
  BY DEF ExecSound
<1>1. /\ WindowSound(e, t)
      /\ RowsSound(e.base, e.now)
      /\ e.pc = "download" => e.next \in Cycles(e.since, e.until)
      /\ e.pc \in {"download", "write"} => BatchComplete(e) /\ BatchLabelled(e, t)
  BY DEF ExecSound
<1>2. WindowSound(e, u) BY <1>1, ExecTypes DEF WindowSound
<1>3. BatchLabelled(e, t) => BatchLabelled(e, u)
  <2> SUFFICES ASSUME BatchLabelled(e, t), NEW v \in Instant, e.batch[v] # None
               PROVE  LET row == e.batch[v]
                      IN  /\ row \in Row /\ row.by = e.kind
                          /\ row.init \in Downloaded(e) /\ v - row.init \in Steps
                          /\ row.of = row.init => row.init + Delay <= u
                          /\ e.kind = "run" /\ row.init + Delay <= e.now
                                => row.of = row.init \/ row.init + Day + Delay <= u
    BY DEF BatchLabelled
  <2>1. PICK row : row = e.batch[v] OBVIOUS
  <2>2. /\ row \in Row /\ row.by = e.kind
        /\ row.init \in Downloaded(e) /\ v - row.init \in Steps
        /\ row.of = row.init => row.init + Delay <= t
        /\ e.kind = "run" /\ row.init + Delay <= e.now
              => row.of = row.init \/ row.init + Day + Delay <= t
    BY <2>1 DEF BatchLabelled
  <2>3. row.init \in Nat BY <2>2, Proportions DEF Row
  <2>4. row.of = row.init => row.init + Delay <= u BY <2>2, <2>3
  <2>5. row.init + Day + Delay <= t => row.init + Day + Delay <= u BY <2>3
  <2> QED BY <2>1, <2>2, <2>4, <2>5
<1> QED BY <1>1, <1>2, <1>3

LEMMA ExecCase ==
    ASSUME GridTypeOK, ExecutionsAreSound, NEW w \in Worker, NEW b \in Execution,
           exec' = [exec EXCEPT ![w] = b], clock' = clock, ExecSound(b, clock)
    PROVE  /\ exec' \in [Worker -> Execution] /\ ExecutionsAreSound'
           /\ exec'[w] = b /\ \A x \in Worker \ {w} : exec'[x] = exec[x]
<1>1. exec \in [Worker -> Execution] BY DEF GridTypeOK
<1>2. /\ exec' \in [Worker -> Execution]
      /\ exec'[w] = b /\ \A x \in Worker \ {w} : exec'[x] = exec[x]
  BY <1>1
<1>3. ExecutionsAreSound'
  <2> SUFFICES ASSUME NEW x \in Worker PROVE ExecSound(exec'[x], clock')
    BY DEF ExecutionsAreSound
  <2>1. CASE x = w BY <1>2, <2>1
  <2>2. CASE x # w
    <3>1. exec'[x] = exec[x] BY <1>2, <2>2
    <3>2. ExecSound(exec[x], clock) BY DEF ExecutionsAreSound
    <3> QED BY <3>1, <3>2
  <2> QED BY <2>1, <2>2
<1> QED BY <1>2, <1>3

\* An execution that is over has nothing to be sound about.
LEMMA IdleIsSound == ExecSound(Idle, clock)
BY DEF ExecSound, Idle

------------------------------------------------------------------------------
(***************************************************************************)
(* The steps.                                                              *)
(***************************************************************************)

LEMMA GridInit == Init => GridInv
<1> SUFFICES ASSUME Init PROVE GridInv
  OBVIOUS
<1> USE DEF Init
<1>1. GridTypeOK
  <2>1. Begin \in Begin..MaxClock /\ 0 \in 0..MaxClock /\ 0 \in 0..MaxRuns OBVIOUS
  <2> QED BY <2>1, IdleType, EmptyType DEF GridTypeOK, Kind
<1>2. ExecutionsAreSound BY IdleIsSound DEF ExecutionsAreSound
<1>3. RowsSound(table, clock) BY EmptyType, NoneIsNoRow DEF RowsSound
<1>4. WrittenIsRecorded BY DEF WrittenIsRecorded, At, Idle
<1>5. WindowsEnd /\ CoveredCyclesAreStored
  BY DEF WindowsEnd, CoveredCyclesAreStored
<1> QED BY <1>1, <1>2, <1>3, <1>4, <1>5 DEF GridInv

LEMMA TickPreserves == ASSUME GridInv, Tick PROVE GridInv'
<1> USE DEF GridInv
<1>1. /\ clock < MaxClock /\ clock' = clock + 1
      /\ UNCHANGED <<exec, table, lastSuccess, begun, runs>>
  BY DEF Tick
<1>2. clock \in Nat /\ clock' \in Nat /\ clock <= clock' /\ clock' \in Begin..MaxClock
  <2>1. clock \in Begin..MaxClock BY DEF GridTypeOK
  <2> QED BY <1>1, <2>1
<1>3. GridTypeOK' BY <1>1, <1>2 DEF GridTypeOK
<1>4. ExecutionsAreSound'
  <2> SUFFICES ASSUME NEW w \in Worker PROVE ExecSound(exec[w], clock')
    BY <1>1 DEF ExecutionsAreSound
  <2>1. PICK e \in Execution : e = exec[w] BY GridTypes
  <2>2. PICK u \in Nat : u = clock' BY <1>2
  <2>3. PICK t \in Nat : t = clock BY <1>2
  <2>4. ExecSound(e, t) BY <2>1, <2>3 DEF ExecutionsAreSound
  <2>5. ExecSound(e, u) BY <1>2, <2>2, <2>3, <2>4, ExecLater
  <2> QED BY <2>1, <2>2, <2>5
<1>5. RowsSound(table', clock')
  <2>1. PICK u \in Nat : u = clock' BY <1>2
  <2>2. PICK t \in Nat : t = clock BY <1>2
  <2>3. PICK rows \in Rows : rows = table BY GridTypes
  <2>4. RowsSound(rows, u) BY <1>2, <2>1, <2>2, <2>3, RowsLater
  <2> QED BY <1>1, <2>1, <2>3, <2>4
<1>6. WrittenIsRecorded' BY <1>1 DEF WrittenIsRecorded, At
<1>7. WindowsEnd' BY <1>1 DEF WindowsEnd
<1>8. CoveredCyclesAreStored' BY <1>1 DEF CoveredCyclesAreStored
<1> QED BY <1>3, <1>4, <1>5, <1>6, <1>7, <1>8

\* The steps that change nothing but an execution, and perhaps their number.
LEMMA ExecOnly ==
    ASSUME GridInv, NEW w \in Worker, NEW b \in Execution,
           exec' = [exec EXCEPT ![w] = b], ExecSound(b, clock), b.pc # "record",
           UNCHANGED <<clock, table, lastSuccess, runs>>, begun' \in 0..MaxRuns
    PROVE  GridInv'
<1> USE DEF GridInv
<1>1. /\ clock' = clock /\ table' = table /\ lastSuccess' = lastSuccess /\ runs' = runs
  OBVIOUS
<1>2. /\ exec' \in [Worker -> Execution] /\ ExecutionsAreSound'
      /\ exec'[w] = b /\ \A x \in Worker \ {w} : exec'[x] = exec[x]
  BY <1>1, ExecCase
<1>3. GridTypeOK' BY <1>1, <1>2 DEF GridTypeOK
<1>4. RowsSound(table', clock') BY <1>1
<1>5. WrittenIsRecorded'
  <2> SUFFICES ASSUME NEW x \in Worker, exec'[x].pc = "record"
               PROVE  [since |-> exec'[x].since, until |-> exec'[x].until] \in runs
    BY <1>1 DEF WrittenIsRecorded, At
  <2>1. x # w /\ exec'[x] = exec[x] BY <1>2
  <2> QED BY <2>1 DEF WrittenIsRecorded, At
<1>6. WindowsEnd' BY <1>1 DEF WindowsEnd
<1>7. CoveredCyclesAreStored' BY <1>1 DEF CoveredCyclesAreStored
<1> QED BY <1>2, <1>3, <1>4, <1>5, <1>6, <1>7

LEMMA AbandonPreserves == ASSUME GridInv, NEW w \in Worker, Abandon(w) PROVE GridInv'
<1>1. /\ exec' = [exec EXCEPT ![w] = Idle] /\ begun' = begun
      /\ UNCHANGED <<clock, table, lastSuccess, runs>>
  BY DEF Abandon
<1>2. PICK b \in Execution : b = Idle BY IdleType
<1>3. ExecSound(b, clock) /\ b.pc # "record" BY <1>2, IdleIsSound DEF Idle
<1>4. begun' \in 0..MaxRuns BY <1>1 DEF GridInv, GridTypeOK
<1> QED BY <1>1, <1>2, <1>3, <1>4, ExecOnly

\* An execution begins with the first cycle of its window.
LEMMA BeginPreserves ==
    ASSUME GridInv, NEW w \in Worker, NEW kind \in Kind, NEW since \in Nat, NEW until \in Instant,
           BeginWith(w, kind, since, until), until + Day <= Horizon,
           kind = "run" => until = clock /\ since = clock - 2 * Cadence
    PROVE  GridInv'
<1> DEFINE first == Min(Cycles(since, until))
           b == [Idle EXCEPT !.pc = "download", !.kind = kind, !.now = clock,
                             !.since = since, !.until = until, !.base = table, !.next = first]
<1>1. /\ exec' = [exec EXCEPT ![w] = b] /\ begun < MaxRuns /\ begun' = begun + 1
      /\ UNCHANGED <<clock, table, lastSuccess, runs>>
      /\ Cycles(since, until) # {}
  BY DEF BeginWith
<1>2. until \in Nat BY Proportions
<1>3. first \in Cycles(since, until) /\ \A c \in Cycles(since, until) : first <= c
  BY <1>1, <1>2, FirstCycle
<1>4. first \in Instant BY <1>2, <1>3, CyclesAre
<1>5. clock \in Nat /\ clock \in 0..MaxClock /\ table \in Rows BY GridTypes DEF GridInv
<1> HIDE DEF first
<1>6. /\ b \in Execution /\ b.pc = "download" /\ b.kind = kind /\ b.now = clock
      /\ b.since = since /\ b.until = until /\ b.base = table /\ b.next = first
      /\ b.batch = Empty
  <2>1. /\ b.pc = "download" /\ b.kind = kind /\ b.now = clock
        /\ b.since = since /\ b.until = until /\ b.base = table /\ b.next = first
        /\ b.batch = Empty
    BY DEF Idle
  <2>2. b \in Execution BY <1>4, <1>5, EmptyType DEF Idle, Execution
  <2> QED BY <2>1, <2>2
<1> HIDE DEF b
<1>7. PICK e \in Execution : e = b BY <1>6
<1>8. WindowSound(e, clock) BY <1>5, <1>6, <1>7, Proportions DEF WindowSound
<1>9. RowsSound(e.base, e.now) BY <1>6, <1>7 DEF GridInv
<1>10. Downloaded(e) = {}
  <2> SUFFICES ASSUME NEW c \in Downloaded(e) PROVE FALSE
    OBVIOUS
  <2>1. c \in Cycles(since, until) /\ c < first BY <1>6, <1>7 DEF Downloaded
  <2> QED BY <1>2, <1>3, <2>1, CyclesAre
<1>11. BatchComplete(e) BY <1>10 DEF BatchComplete
<1>12. BatchLabelled(e, clock) BY <1>6, <1>7, EmptyType DEF BatchLabelled
<1>13. ExecSound(e, clock) BY <1>3, <1>6, <1>7, <1>8, <1>9, <1>11, <1>12 DEF ExecSound
<1>14. begun' \in 0..MaxRuns BY <1>1 DEF GridInv, GridTypeOK
<1> QED BY <1>1, <1>6, <1>7, <1>13, <1>14, ExecOnly

LEMMA BeginRunPreserves == ASSUME GridInv, NEW w \in Worker, BeginRun(w) PROVE GridInv'
<1>1. /\ clock \in Nat /\ clock \in Instant /\ clock >= Day + Delay /\ clock <= MaxClock
  BY GridTypes DEF GridInv
<1>2. PICK since \in Nat : since = clock - 2 * Cadence BY <1>1, Proportions
<1>3. PICK until \in Instant : until = clock BY <1>1
<1>4. until + Day <= Horizon BY <1>1, <1>3, Proportions
<1>5. PICK kind \in Kind : kind = "run" BY DEF Kind
<1>6. BeginWith(w, kind, since, until) BY <1>2, <1>3, <1>5 DEF BeginRun
<1> QED BY <1>2, <1>3, <1>4, <1>6, BeginPreserves

LEMMA BeginBackfillPreserves ==
    ASSUME GridInv, NEW w \in Worker, NEW d \in BackfillDays, BeginBackfill(w, d)
    PROVE  GridInv'
<1>1. d \in Nat /\ d * Day <= MaxClock /\ Day \in Nat OBVIOUS
<1>2. (d + 1) * Day = d * Day + Day BY <1>1
<1>3. PICK since \in Nat : since = d * Day BY <1>1
<1>4. (d + 1) * Day \in Instant /\ (d + 1) * Day + Day <= Horizon
  BY <1>1, <1>2, <1>3, Proportions DEF Instant
<1>5. PICK until \in Instant : until = (d + 1) * Day BY <1>4
<1>6. PICK kind \in Kind : kind = "backfill" BY DEF Kind
<1>7. BeginWith(w, kind, since, until) BY <1>3, <1>5, <1>6 DEF BeginBackfill
<1> QED BY <1>4, <1>5, <1>6, <1>7, BeginPreserves

\* A round of fetch's loop: the cycle joins those that were downloaded.
LEMMA DownloadPreserves == ASSUME GridInv, NEW w \in Worker, Download(w) PROVE GridInv'
<1> DEFINE c == exec[w].next
           rest == Pending(exec[w].since, exec[w].until, c + 1)
           batch == Added(w, c, Retrieved(c))
           b == [exec[w] EXCEPT !.batch = batch,
                                !.pc = IF rest = {} THEN "write" ELSE "download",
                                !.next = IF rest = {} THEN c ELSE Min(rest)]
<1>1. /\ exec' = [exec EXCEPT ![w] = b] /\ exec[w].pc = "download"
      /\ UNCHANGED <<clock, table, lastSuccess, begun, runs>>
  BY DEF Download, At
<1>2. PICK e \in Execution : e = exec[w] BY GridTypes DEF GridInv
<1>3. /\ e.pc = "download" /\ ExecSound(e, clock)
  BY <1>1, <1>2 DEF GridInv, ExecutionsAreSound
<1>4. /\ WindowSound(e, clock) /\ RowsSound(e.base, e.now)
      /\ c \in Cycles(e.since, e.until) /\ BatchComplete(e) /\ BatchLabelled(e, clock)
  BY <1>2, <1>3 DEF ExecSound
<1>5. /\ e.since \in Nat /\ e.until \in Nat /\ e.now \in Nat /\ e.kind \in Kind /\ e.batch \in Rows
  BY ExecTypes
<1>6. /\ c \in Instant /\ c \in Nat /\ c % Cadence = 0 /\ e.since <= c /\ c <= e.until
  BY <1>4, <1>5, CyclesAre
<1>7. clock \in Nat /\ clock >= Day + Delay /\ clock \in 0..MaxClock
  BY GridTypes DEF GridInv
<1>8. /\ Retrieved(c) \in 0..clock /\ Retrieved(c) + Delay <= clock
      /\ c + Delay <= clock /\ clock < c + Day + Delay => Retrieved(c) = c
  BY <1>6, <1>7, NewestForecast
<1>9. Retrieved(c) \in Instant BY <1>7, <1>8, Proportions DEF Instant
<1> DEFINE new == [init |-> c, of |-> Retrieved(c), by |-> e.kind]
<1>10. new \in Row /\ new # None
  <2>1. new \in Row BY <1>5, <1>6, <1>9 DEF Row
  <2> QED BY <2>1, NoneIsNoRow
<1>11. /\ batch \in Rows
       /\ \A v \in Instant : batch[v] = IF v - c \in Steps THEN new ELSE e.batch[v]
  BY <1>2, <1>5, <1>10 DEF Added, Rows
<1>12. rest = {d \in Cycles(e.since, e.until) : d >= c + 1} BY <1>2 DEF Pending
<1>13. rest = Cycles(c + 1, e.until)
  <2>1. Cycles(c + 1, e.until) \subseteq rest
    <3> SUFFICES ASSUME NEW d \in Cycles(c + 1, e.until)
                 PROVE  d \in Cycles(e.since, e.until) /\ d >= c + 1
      BY <1>12
    <3>1. d \in Instant /\ d % Cadence = 0 /\ c + 1 <= d /\ d <= e.until BY DEF Cycles
    <3>2. d \in Nat BY <3>1, Proportions
    <3>3. e.since <= d BY <1>5, <1>6, <3>1, <3>2
    <3> QED BY <3>1, <3>3 DEF Cycles
  <2>2. rest \subseteq Cycles(c + 1, e.until) BY <1>12 DEF Cycles
  <2> QED BY <2>1, <2>2
<1>14. rest # {} => Min(rest) \in rest /\ \A d \in rest : Min(rest) <= d
  <2>1. c + 1 \in Nat BY <1>6
  <2> QED BY <1>5, <1>13, <2>1, FirstCycle
<1> HIDE DEF rest, batch, new
<1>15. /\ b.pc = (IF rest = {} THEN "write" ELSE "download")
       /\ b.next = (IF rest = {} THEN c ELSE Min(rest))
       /\ b.batch = batch /\ b.base = e.base /\ b.kind = e.kind /\ b.now = e.now
       /\ b.since = e.since /\ b.until = e.until
       /\ b \in Execution
  <2>1. /\ b.pc = (IF rest = {} THEN "write" ELSE "download")
        /\ b.next = (IF rest = {} THEN c ELSE Min(rest))
        /\ b.batch = batch /\ b.base = e.base /\ b.kind = e.kind /\ b.now = e.now
        /\ b.since = e.since /\ b.until = e.until
    BY <1>2 DEF Execution
  <2>2. b.next \in Instant BY <1>6, <1>12, <1>14, <2>1 DEF Cycles
  <2>3. b \in Execution BY <1>2, <1>11, <2>1, <2>2 DEF Execution
  <2> QED BY <2>1, <2>3
<1> HIDE DEF b
<1>16. PICK n \in Execution : n = b BY <1>15
<1>17. Downloaded(n) = Downloaded(e) \cup {c}
  <2>1. \A d \in Cycles(e.since, e.until) : d \in rest <=> d >= c + 1
    BY <1>12
  <2>2. \A d \in Cycles(e.since, e.until) : d \in Nat BY <1>5, CyclesAre
  <2>3. Downloaded(e) = {d \in Cycles(e.since, e.until) : d < c}
    BY <1>2, <1>3 DEF Downloaded
  <2>4. CASE rest = {}
    <3>1. Downloaded(n) = Cycles(e.since, e.until) BY <1>15, <1>16, <2>4 DEF Downloaded
    <3> QED BY <1>4, <1>6, <2>1, <2>2, <2>3, <2>4, <3>1
  <2>5. CASE rest # {}
    <3>1. Downloaded(n) = {d \in Cycles(e.since, e.until) : d < Min(rest)}
      BY <1>15, <1>16, <2>5 DEF Downloaded
    <3>2. Min(rest) \in Nat /\ Min(rest) >= c + 1 BY <1>12, <1>14, <2>2, <2>5
    <3>3. \A d \in Cycles(e.since, e.until) : d < Min(rest) <=> ~(d >= c + 1)
      BY <1>6, <1>14, <2>1, <2>2, <2>5, <3>2
    <3> QED BY <1>4, <1>6, <2>2, <2>3, <3>1, <3>3
  <2> QED BY <2>4, <2>5
<1>18. Downloaded(n) \subseteq Cycles(e.since, e.until) BY <1>15, <1>16 DEF Downloaded
<1>19. BatchComplete(n)
  <2> SUFFICES ASSUME NEW d \in Downloaded(n), NEW s \in Steps
               PROVE  batch[d + s] # None /\ batch[d + s].init >= d
    BY <1>15, <1>16 DEF BatchComplete
  <2>1. d \in Nat /\ d <= e.until /\ s \in Nat /\ s <= Day BY <1>5, <1>18, CyclesAre
  <2>2. d + s \in Instant
    <3>1. e.until + Day <= Horizon BY <1>4 DEF WindowSound
    <3> QED BY <1>5, <2>1, <3>1, Proportions DEF Instant
  <2>3. d <= c BY <1>6, <1>17, <2>1, <1>2, <1>3 DEF Downloaded
  <2>4. CASE (d + s) - c \in Steps
    BY <1>10, <1>11, <2>2, <2>3, <2>4 DEF new
  <2>5. CASE (d + s) - c \notin Steps
    <3>1. batch[d + s] = e.batch[d + s] BY <1>11, <2>2, <2>5
    <3>2. (d + s) - d = s BY <2>1
    <3>3. d # c BY <2>5, <3>2
    <3>4. d \in Downloaded(e) BY <1>17, <3>3
    <3> QED BY <1>4, <3>1, <3>4 DEF BatchComplete
  <2> QED BY <2>4, <2>5
<1>20. BatchLabelled(n, clock)
  <2> SUFFICES ASSUME NEW v \in Instant, batch[v] # None
               PROVE  /\ batch[v] \in Row /\ batch[v].by = e.kind
                      /\ batch[v].init \in Downloaded(n) /\ v - batch[v].init \in Steps
                      /\ batch[v].of = batch[v].init => batch[v].init + Delay <= clock
                      /\ e.kind = "run" /\ batch[v].init + Delay <= e.now
                            => \/ batch[v].of = batch[v].init
                               \/ batch[v].init + Day + Delay <= clock
    BY <1>15, <1>16 DEF BatchLabelled
  <2>1. CASE v - c \in Steps
    <3>1. batch[v] = new BY <1>11, <2>1
    <3>2. new.init = c /\ new.of = Retrieved(c) /\ new.by = e.kind BY DEF new
    <3>3. ASSUME c + Delay <= e.now
          PROVE  Retrieved(c) = c \/ c + Day + Delay <= clock
      <4>1. e.now <= clock BY <1>4 DEF WindowSound
      <4>2. c + Delay <= clock BY <1>5, <1>6, <1>7, <3>3, <4>1
      <4> QED BY <1>6, <1>7, <1>8, <4>2
    <3> QED BY <1>8, <1>10, <1>17, <2>1, <3>1, <3>2, <3>3
  <2>2. CASE v - c \notin Steps
    <3>1. batch[v] = e.batch[v] BY <1>11, <2>2
    <3>2. Downloaded(e) \subseteq Downloaded(n) BY <1>17
    <3> QED BY <1>4, <3>1, <3>2 DEF BatchLabelled
  <2> QED BY <2>1, <2>2
<1>21. WindowSound(n, clock) /\ RowsSound(n.base, n.now)
  BY <1>4, <1>15, <1>16 DEF WindowSound
<1>22. n.pc = "download" => n.next \in Cycles(n.since, n.until)
  BY <1>12, <1>14, <1>15, <1>16
<1>23. ExecSound(n, clock) /\ n.pc # "record"
  BY <1>15, <1>16, <1>19, <1>20, <1>21, <1>22 DEF ExecSound
<1>24. begun' \in 0..MaxRuns BY <1>1 DEF GridInv, GridTypeOK
<1> QED BY <1>1, <1>16, <1>23, <1>24, ExecOnly

\* The transaction of a batch, and what follows from a sound batch for the rows.
LEMMA WriteFacts ==
    ASSUME GridInv, NEW w \in Worker, WriteGrid(w)
    PROVE  /\ exec[w] \in Execution /\ exec[w].pc = "write" /\ ExecSound(exec[w], clock)
           /\ WindowSound(exec[w], clock) /\ RowsSound(exec[w].base, exec[w].now)
           /\ BatchComplete(exec[w]) /\ BatchLabelled(exec[w], clock)
           /\ Downloaded(exec[w]) = Cycles(exec[w].since, exec[w].until)
           /\ \A v \in Instant : table'[v] = IF exec[w].batch[v] = None
                                             THEN table[v] ELSE exec[w].batch[v]
           /\ table' \in Rows
<1>1. /\ exec[w] \in Execution /\ exec[w].pc = "write" /\ ExecSound(exec[w], clock)
      /\ table \in Rows
  BY GridTypes DEF GridInv, WriteGrid, At, ExecutionsAreSound
<1>2. /\ WindowSound(exec[w], clock) /\ RowsSound(exec[w].base, exec[w].now)
      /\ BatchComplete(exec[w]) /\ BatchLabelled(exec[w], clock)
  BY <1>1 DEF ExecSound
<1>3. Downloaded(exec[w]) = Cycles(exec[w].since, exec[w].until)
  BY <1>1 DEF Downloaded
<1>4. table' = [v \in Instant |-> IF exec[w].batch[v] = None THEN table[v] ELSE exec[w].batch[v]]
  BY DEF WriteGrid, UpsertedRow
<1>5. exec[w].batch \in Rows BY <1>1, ExecTypes
<1>6. table' \in Rows BY <1>1, <1>4, <1>5 DEF Rows
<1> QED BY <1>1, <1>2, <1>3, <1>4, <1>6

LEMMA WritePreserves == ASSUME GridInv, NEW w \in Worker, WriteGrid(w) PROVE GridInv'
<1> USE DEF GridInv
<1> DEFINE b == [exec[w] EXCEPT !.pc = "record"]
           window == [since |-> exec[w].since, until |-> exec[w].until]
<1>1. /\ exec' = [exec EXCEPT ![w] = b] /\ runs' = runs \cup {window}
      /\ clock' = clock /\ lastSuccess' = lastSuccess /\ begun' = begun
  BY DEF WriteGrid
<1>2. PICK e \in Execution : e = exec[w] BY WriteFacts
<1>3. /\ e.pc = "write" /\ WindowSound(e, clock) /\ RowsSound(e.base, e.now)
      /\ BatchComplete(e) /\ BatchLabelled(e, clock)
      /\ Downloaded(e) = Cycles(e.since, e.until)
      /\ \A v \in Instant : table'[v] = IF e.batch[v] = None THEN table[v] ELSE e.batch[v]
      /\ table' \in Rows
  BY <1>2, WriteFacts
<1>4. /\ e.since \in Nat /\ e.until \in Instant /\ e.until \in Nat /\ e.now \in Nat
      /\ e.kind \in Kind /\ e.batch \in Rows
  BY ExecTypes
<1>5. /\ b \in Execution /\ b.pc = "record" /\ b.since = e.since /\ b.until = e.until
      /\ b.now = e.now /\ b.kind = e.kind /\ b.base = e.base
  BY <1>2 DEF Execution
<1> HIDE DEF b
<1>6. PICK n \in Execution : n = b BY <1>5
<1>7. WindowSound(n, clock) /\ RowsSound(n.base, n.now)
  BY <1>3, <1>5, <1>6 DEF WindowSound
<1>8. ExecSound(n, clock) BY <1>5, <1>6, <1>7 DEF ExecSound
<1>9. /\ exec' \in [Worker -> Execution] /\ ExecutionsAreSound'
      /\ exec'[w] = n /\ \A x \in Worker \ {w} : exec'[x] = exec[x]
  BY <1>1, <1>6, <1>8, ExecCase
<1>10. window = [since |-> e.since, until |-> e.until] BY <1>2
<1>11. GridTypeOK'
  BY <1>1, <1>3, <1>4, <1>9, <1>10 DEF GridTypeOK
<1> HIDE DEF window
<1>12. WrittenIsRecorded'
  <2> SUFFICES ASSUME NEW x \in Worker, exec'[x].pc = "record"
               PROVE  [since |-> exec'[x].since, until |-> exec'[x].until] \in runs'
    BY DEF WrittenIsRecorded, At
  <2>1. CASE x = w BY <1>1, <1>5, <1>6, <1>9, <1>10, <2>1
  <2>2. CASE x # w
    <3>1. exec'[x] = exec[x] BY <1>9, <2>2
    <3> QED BY <1>1, <3>1 DEF WrittenIsRecorded, At
  <2> QED BY <2>1, <2>2
<1>13. e.until + Day <= Horizon BY <1>3 DEF WindowSound
<1>14. WindowsEnd' BY <1>1, <1>10, <1>13 DEF WindowsEnd
<1>15. RowsSound(table', clock')
  <2> SUFFICES ASSUME NEW v \in Instant, table'[v].by = "run"
               PROVE  /\ table'[v].init % Cadence = 0
                      /\ table'[v].init <= clock /\ v - table'[v].init \in Steps
                      /\ table'[v].of = table'[v].init => table'[v].init + Delay <= clock
    BY <1>1 DEF RowsSound
  <2>1. CASE e.batch[v] = None
    <3>1. table'[v] = table[v] BY <1>3, <2>1
    <3> QED BY <3>1 DEF RowsSound
  <2>2. CASE e.batch[v] # None
    <3>1. table'[v] = e.batch[v] BY <1>3, <2>2
    <3>2. /\ e.kind = "run" /\ e.batch[v].init \in Cycles(e.since, e.until)
          /\ v - e.batch[v].init \in Steps
          /\ e.batch[v].of = e.batch[v].init => e.batch[v].init + Delay <= clock
      BY <1>3, <2>2, <3>1 DEF BatchLabelled
    <3>3. e.until = e.now /\ e.now <= clock BY <1>3, <3>2 DEF WindowSound
    <3>4. /\ e.batch[v].init \in Nat /\ e.batch[v].init <= e.until
          /\ e.batch[v].init % Cadence = 0
      BY <1>4, <3>2, CyclesAre
    <3>5. clock \in Nat BY GridTypes
    <3>6. e.batch[v].init <= clock BY <1>4, <3>3, <3>4, <3>5
    <3> QED BY <3>1, <3>2, <3>4, <3>6
  <2> QED BY <2>1, <2>2
<1>16. CoveredCyclesAreStored'
  <2> SUFFICES ASSUME NEW r \in runs', NEW c \in Instant, NEW s \in Steps,
                      c % Cadence = 0, r.since <= c, c <= r.until
               PROVE  table'[c + s] # None
    BY DEF CoveredCyclesAreStored
  <2>1. r.until \in Nat /\ r.until + Day <= Horizon
    BY <1>11, <1>14, Proportions DEF GridTypeOK, WindowsEnd
  <2>2. c \in Nat /\ s \in Nat /\ s <= Day BY Proportions
  <2>3. c + s \in Instant BY <2>1, <2>2, Proportions DEF Instant
  <2>4. CASE r \in runs
    <3>1. table[c + s] # None BY <2>4 DEF CoveredCyclesAreStored
    <3> QED BY <1>3, <2>3, <3>1
  <2>5. CASE r = window
    <3>1. c \in Downloaded(e) BY <1>3, <1>10, <2>5 DEF Cycles
    <3>2. e.batch[c + s] # None BY <1>3, <3>1 DEF BatchComplete
    <3> QED BY <1>3, <2>3, <3>2
  <2> QED BY <1>1, <2>4, <2>5
<1> QED BY <1>9, <1>11, <1>12, <1>14, <1>15, <1>16

LEMMA RecordPreserves == ASSUME GridInv, NEW w \in Worker, RecordSuccess(w) PROVE GridInv'
<1> USE DEF GridInv
<1>1. /\ exec' = [exec EXCEPT ![w] = Idle] /\ exec[w].pc = "record"
      /\ lastSuccess' = clock
      /\ clock' = clock /\ table' = table /\ begun' = begun /\ runs' = runs
  BY DEF RecordSuccess, At
<1>2. PICK n \in Execution : n = Idle BY IdleType
<1>3. /\ exec' \in [Worker -> Execution] /\ ExecutionsAreSound'
      /\ exec'[w] = n /\ \A x \in Worker \ {w} : exec'[x] = exec[x]
  BY <1>1, <1>2, IdleIsSound, ExecCase
<1>4. clock \in 0..MaxClock BY GridTypes
<1>5. GridTypeOK' BY <1>1, <1>3, <1>4 DEF GridTypeOK
<1>6. RowsSound(table', clock') BY <1>1
<1>7. WrittenIsRecorded'
  <2> SUFFICES ASSUME NEW x \in Worker, exec'[x].pc = "record"
               PROVE  [since |-> exec'[x].since, until |-> exec'[x].until] \in runs
    BY <1>1 DEF WrittenIsRecorded, At
  <2>1. x # w BY <1>2, <1>3 DEF Idle
  <2>2. exec'[x] = exec[x] BY <1>3, <2>1
  <2> QED BY <2>2 DEF WrittenIsRecorded, At
<1>8. WindowsEnd' BY <1>1 DEF WindowsEnd
<1>9. CoveredCyclesAreStored' BY <1>1 DEF CoveredCyclesAreStored
<1> QED BY <1>3, <1>5, <1>6, <1>7, <1>8, <1>9

LEMMA GridNext == ASSUME GridInv, [Next]_vars PROVE GridInv'
<1>1. CASE Tick BY <1>1, TickPreserves
<1>2. ASSUME NEW w \in Worker, BeginRun(w) PROVE GridInv' BY <1>2, BeginRunPreserves
<1>3. ASSUME NEW w \in Worker, NEW d \in BackfillDays, BeginBackfill(w, d) PROVE GridInv'
  BY <1>3, BeginBackfillPreserves
<1>4. ASSUME NEW w \in Worker, Download(w) PROVE GridInv' BY <1>4, DownloadPreserves
<1>5. ASSUME NEW w \in Worker, WriteGrid(w) PROVE GridInv' BY <1>5, WritePreserves
<1>6. ASSUME NEW w \in Worker, RecordSuccess(w) PROVE GridInv' BY <1>6, RecordPreserves
<1>7. ASSUME NEW w \in Worker, Abandon(w) PROVE GridInv' BY <1>7, AbandonPreserves
<1>8. CASE UNCHANGED vars
  BY <1>8 DEF vars, GridInv, GridTypeOK, ExecutionsAreSound, WrittenIsRecorded, WindowsEnd,
              CoveredCyclesAreStored, At
<1> QED BY <1>1, <1>2, <1>3, <1>4, <1>5, <1>6, <1>7, <1>8 DEF Next

------------------------------------------------------------------------------
(***************************************************************************)
(* The theorems.                                                           *)
(***************************************************************************)

\* GridInv holds always.
THEOREM GridInvariant == Spec => []GridInv
<1>1. GridInv /\ [Next]_vars => GridInv' BY GridNext
<1> QED BY GridInit, <1>1, PTL DEF Spec

\* Executions, rows and windows stay within their types: no cycle, valid time or
\* forecast of an instant that the horizon does not hold is ever touched.
THEOREM GridTypeCorrect == Spec => []GridTypeOK
<1>1. GridInv => GridTypeOK BY DEF GridInv
<1> QED BY GridInvariant, <1>1, PTL

\* Every cycle of a window that went through write_batch has all its steps in
\* the table, and keeps them.
THEOREM CoveredCycles == Spec => []CoveredCyclesAreStored
<1>1. GridInv => CoveredCyclesAreStored BY DEF GridInv
<1> QED BY GridInvariant, <1>1, PTL

\* write_batch leaves no row behind that is older than a cycle of its window, or
\* mislabelled although its cycle was disseminated when run_source began and
\* that of the next day was not out when the batch was written.
THEOREM CyclesRefreshed == Spec => RunsRefreshTheirCycles
<1>1. GridInv /\ [Next]_vars =>
         [\A w \in Worker : WriteGrid(w) /\ exec[w].kind = "run" =>
             \A c \in Cycles(exec[w].since, exec[w].until), s \in Steps :
                 LET row == table'[c + s]
                 IN  /\ row.init >= c
                     /\ row.init + Delay <= exec[w].now
                           => row.of = row.init \/ Superseded(row.init)]_vars
  <2> SUFFICES ASSUME GridInv, NEW w \in Worker, WriteGrid(w), exec[w].kind = "run",
                      NEW c \in Cycles(exec[w].since, exec[w].until), NEW s \in Steps
               PROVE  /\ table'[c + s].init >= c
                      /\ table'[c + s].init + Delay <= exec[w].now
                            => \/ table'[c + s].of = table'[c + s].init
                               \/ Superseded(table'[c + s].init)
    OBVIOUS
  <2>1. PICK e \in Execution : e = exec[w] BY WriteFacts
  <2>2. /\ BatchComplete(e) /\ BatchLabelled(e, clock) /\ WindowSound(e, clock)
        /\ Downloaded(e) = Cycles(e.since, e.until) /\ e.kind = "run"
        /\ \A v \in Instant : table'[v] = IF e.batch[v] = None THEN table[v] ELSE e.batch[v]
    BY <2>1, WriteFacts
  <2>3. e.batch[c + s] # None /\ e.batch[c + s].init >= c
    BY <2>1, <2>2 DEF BatchComplete
  <2>4. c + s \in Instant
    <3>1. e.until + Day <= Horizon BY <2>2 DEF WindowSound
    <3>2. c \in Nat /\ c <= e.until /\ e.until \in Nat /\ s \in Nat /\ s <= Day
      BY <2>1, ExecTypes, CyclesAre
    <3> QED BY <3>1, <3>2, Proportions DEF Instant
  <2>5. e.batch[c + s].init + Delay <= e.now
           => \/ e.batch[c + s].of = e.batch[c + s].init
              \/ e.batch[c + s].init + Day + Delay <= clock
    BY <2>2, <2>3, <2>4 DEF BatchLabelled
  <2>6. e.batch[c + s].init \in Nat /\ clock \in Nat
    <3>1. e.batch \in Rows BY <2>1, ExecTypes
    <3> QED BY <2>3, <2>4, <3>1, RowTypes, GridTypes DEF GridInv
  <2>7. e.batch[c + s].init + Day + Delay <= clock => Superseded(e.batch[c + s].init)
    BY <2>6 DEF Superseded
  <2> QED BY <2>1, <2>2, <2>3, <2>4, <2>5, <2>7
<1> QED BY GridInvariant, <1>1, PTL DEF Spec, RunsRefreshTheirCycles

\* Only WriteGrid changes the table.
LEMMA TableChanges ==
    ASSUME [Next]_vars, table' # table
    PROVE  \E w \in Worker : WriteGrid(w)
BY DEF Next, vars, Tick, BeginRun, BeginBackfill, BeginWith, Download, RecordSuccess, Abandon

\* The windows of run_source move forward, and what is disseminated stays so: an
\* execution that has the better row in its base does not replace it, unless it
\* lasted until the forecast of the next day was out.
THEOREM OverlapOnly == Spec => OnlyOverlapWorsens
<1>1. GridInv /\ [Next]_vars =>
         [\A v \in Instant :
             (/\ Better(table[v], table'[v])
              /\ table[v].by = "run" /\ table'[v].by = "run")
             => \E w \in Worker :
                   /\ WriteGrid(w)
                   /\ exec[w].base[v] # table[v] \/ Superseded(table'[v].init)]_vars
  <2> SUFFICES ASSUME GridInv, [Next]_vars, NEW v \in Instant, Better(table[v], table'[v]),
                      table[v].by = "run", table'[v].by = "run"
               PROVE  \E w \in Worker :
                         /\ WriteGrid(w)
                         /\ exec[w].base[v] # table[v] \/ Superseded(table'[v].init)
    OBVIOUS
  <2>1. /\ table[v] # None /\ table \in Rows BY NoneIsNoRow, GridTypes DEF GridInv
  <2>2. table[v].init \in Nat /\ table[v].of \in Nat
    <3>1. PICK rows \in Rows : rows = table BY <2>1
    <3> QED BY <2>1, <3>1, RowTypes
  <2>3. table'[v] # table[v]
    <3> SUFFICES ASSUME table'[v] = table[v] PROVE FALSE
      OBVIOUS
    <3> QED BY <2>2 DEF Better
  <2>4. PICK w \in Worker : WriteGrid(w) BY <2>3, TableChanges
  <2> SUFFICES ASSUME exec[w].base[v] = table[v], ~Superseded(table'[v].init)
               PROVE  FALSE
    BY <2>4
  <2>5. PICK e \in Execution : e = exec[w] BY <2>4, WriteFacts
  <2>6. /\ BatchComplete(e) /\ BatchLabelled(e, clock) /\ WindowSound(e, clock)
        /\ RowsSound(e.base, e.now)
        /\ Downloaded(e) = Cycles(e.since, e.until)
        /\ table'[v] = IF e.batch[v] = None THEN table[v] ELSE e.batch[v]
    BY <2>4, <2>5, WriteFacts
  <2>7. e.batch[v] # None /\ table'[v] = e.batch[v] BY <2>3, <2>6
  <2> DEFINE old == table[v]
             new == e.batch[v]
  <2>8. /\ new \in Row /\ e.kind = "run" /\ new.init \in Cycles(e.since, e.until)
        /\ new.init + Delay <= e.now
              => new.of = new.init \/ new.init + Day + Delay <= clock
    BY <2>6, <2>7 DEF BatchLabelled
  <2>9. /\ e.until = e.now /\ e.since = e.now - 2 * Cadence /\ e.now \in Nat
        /\ e.since \in Nat /\ e.until \in Nat
    BY <2>6, <2>8, ExecTypes DEF WindowSound
  <2>10. new.init \in Nat /\ e.since <= new.init BY <2>8, <2>9, CyclesAre
  <2>11. /\ old.init % Cadence = 0
         /\ old.init <= e.now /\ v - old.init \in Steps
         /\ old.of = old.init => old.init + Delay <= e.now
    BY <2>5, <2>6 DEF RowsSound
  <2>12. CASE old.init > new.init
    <3>1. e.since <= old.init /\ old.init <= e.until
      BY <2>2, <2>9, <2>10, <2>11, <2>12
    <3>2. old.init \in Instant
      <4>1. PICK rows \in Rows : rows = table BY <2>1
      <4> QED BY <2>1, <4>1, RowTypes DEF Row
    <3>3. old.init \in Downloaded(e) BY <2>6, <2>11, <3>1, <3>2 DEF Cycles
    <3>4. PICK s \in Steps : s = v - old.init BY <2>11
    <3>5. old.init + s = v
      <4>1. v \in Nat BY Proportions
      <4> QED BY <2>2, <3>4, <4>1
    <3>6. new.init >= old.init BY <2>6, <3>3, <3>5 DEF BatchComplete
    <3> QED BY <2>2, <2>10, <2>12, <3>6
  <2>13. CASE old.init = new.init /\ old.of = old.init /\ new.of # new.init
    <3>1. clock \in Nat BY GridTypes DEF GridInv
    <3>2. ~(new.init + Day + Delay <= clock) BY <2>7, <2>10, <3>1 DEF Superseded
    <3> QED BY <2>8, <2>11, <2>13, <3>2
  <2> QED BY <2>7, <2>12, <2>13 DEF Better
<1> QED BY GridInvariant, <1>1, PTL DEF Spec, OnlyOverlapWorsens
=============================================================================
