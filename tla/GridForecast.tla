----------------------------- MODULE GridForecast -----------------------------
(***************************************************************************)
(* The ingestion of the gridded forecast source (ecmwf_open): executions   *)
(* of run_source and days of the backfill command enumerate the forecast   *)
(* cycles of a window, download them one after the other and upsert their  *)
(* rows into gridded_observations.                                         *)
(*                                                                         *)
(* All grid points and variables of a cycle travel together, so a row      *)
(* stands for all rows with one valid_at, and its value is abstracted to   *)
(* the cycle whose forecast it really is.  How executions come about       *)
(* (beat, retries, redelivery) is the subject of RunSource: here an idle   *)
(* process may begin one at any time.                                      *)
(***************************************************************************)
EXTENDS Integers, FiniteSetsExt

CONSTANTS
    Worker,         \* processes that execute run_source or the command
    Cadence,        \* adapter.cadence_seconds, the distance of cycles
    Day,            \* 24 hours
    Steps,          \* FORECAST_STEPS
    Delay,          \* from a cycle's nominal time to its dissemination
    BackfillDays,   \* days the command is run for
    Begin,          \* the first instant
    MaxClock,       \* bound: the last instant
    MaxRuns         \* bound: executions

ASSUME GridAssumption ==
    /\ Cadence \in Nat \ {0}
    /\ Day \in Nat \ {0} /\ Day % Cadence = 0
    /\ Steps \subseteq Nat /\ {0, Day} \subseteq Steps /\ \A s \in Steps : s <= Day
    /\ Delay \in Nat
    /\ BackfillDays \subseteq Nat /\ \A d \in BackfillDays : d * Day <= MaxClock
    /\ 2 * Cadence <= Day
    /\ Begin \in Nat /\ Begin >= Day + Delay
    /\ MaxClock \in Nat /\ MaxClock >= Begin
    /\ MaxRuns \in Nat

VARIABLES
    clock,
    exec,           \* exec[w]: the execution of process w
    table,          \* table[v]: the row of gridded_observations with valid_at v
    lastSuccess,    \* metrics:last_success:ecmwf_open, 0 when absent
    begun           \* executions begun

\* History: the windows that went through write_batch.
VARIABLE runs

vars == <<clock, exec, table, lastSuccess, begun, runs>>

Kind  == {"run", "backfill"}

\* Cycles and valid times, including the future ones a daily window may hold.
Horizon == MaxClock + 2 * Day
Instant == 0..Horizon

\* init: init_time.  of: the cycle the values were computed in.  by: the kind
\* of execution that wrote the row (a history component).
Row   == [init: Instant, of: Instant, by: Kind]
None  == [init |-> -1, of |-> -1, by |-> "none"]
Rows  == [Instant -> Row \cup {None}]
Empty == [v \in Instant |-> None]

\* base: the table when the execution began (a history component).
Execution == [pc: {"idle", "download", "write", "record"}, kind: Kind,
              now: 0..MaxClock, since: Nat, until: Instant,
              next: Instant, batch: Rows, base: Rows]

Idle == [pc |-> "idle", kind |-> "run", now |-> 0, since |-> 0, until |-> 0,
         next |-> 0, batch |-> Empty, base |-> Empty]

GridTypeOK ==
    /\ clock \in Begin..MaxClock
    /\ exec \in [Worker -> Execution]
    /\ table \in Rows
    /\ lastSuccess \in 0..MaxClock
    /\ begun \in 0..MaxRuns
    /\ runs \subseteq [since: Nat, until: Instant]

Init ==
    /\ clock = Begin
    /\ exec = [w \in Worker |-> Idle]
    /\ table = Empty
    /\ lastSuccess = 0
    /\ begun = 0
    /\ runs = {}

At(w, label) == exec[w].pc = label

\* Time passes, whatever the executions do: neither the tasks nor the downloads
\* have a time limit.
Tick ==
    /\ clock < MaxClock
    /\ clock' = clock + 1
    /\ UNCHANGED <<exec, table, lastSuccess, begun, runs>>

------------------------------------------------------------------------------
\* Variant: the loop over the dates stops before the window's last date.
CyclesBeforeLastDate(since, until) ==
    {c \in Instant : /\ c % Cadence = 0
                     /\ since <= c /\ c <= until
                     /\ c \div Day < until \div Day}

\* _iter_init_times: the cycles of the closed window.
Cycles(since, until) == {c \in Instant : c % Cadence = 0 /\ since <= c /\ c <= until}

\* What is left of the window from cycle c on.
Pending(since, until, c) == {d \in Cycles(since, until) : d >= c}

BeginWith(w, kind, since, until) ==
    /\ At(w, "idle")
    /\ begun < MaxRuns
    /\ begun' = begun + 1
    /\ Cycles(since, until) # {}
    /\ exec' = [exec EXCEPT ![w] =
          [Idle EXCEPT !.pc = "download", !.kind = kind, !.now = clock,
                       !.since = since, !.until = until, !.base = table,
                       !.next = Min(Cycles(since, until))]]
    /\ UNCHANGED <<clock, table, lastSuccess, runs>>

\* run_source: the window [now - 2 * cadence, now].
BeginRun(w) == BeginWith(w, "run", clock - 2 * Cadence, clock)

\* One day of the backfill command, up to the next midnight.
BeginBackfill(w, d) == BeginWith(w, "backfill", d * Day, (d + 1) * Day)

\* Client.retrieve is told the hour of the cycle but no date: it returns the
\* latest disseminated forecast of that hour.
Disseminated(hour) == {d \in 0..clock : /\ d % Cadence = 0
                                        /\ d % Day = hour
                                        /\ d + Delay <= clock}

\* Variant: the hour is not passed either.
LatestRetrieved(c) == Max(UNION {Disseminated(hour) : hour \in 0..Day - 1})

Retrieved(c) == Max(Disseminated(c % Day))

\* Variant: a row that is already in the batch is kept.
AddedFirst(w, c, content) ==
    [v \in Instant |->
        IF v - c \in Steps /\ exec[w].batch[v] = None
        THEN [init |-> c, of |-> content, by |-> exec[w].kind]
        ELSE exec[w].batch[v]]

\* The rows of a cycle, labelled with it.  The writer's dictionary keeps the
\* last row of a primary key, that of the newest cycle.
Added(w, c, content) ==
    [v \in Instant |->
        IF v - c \in Steps
        THEN [init |-> c, of |-> content, by |-> exec[w].kind]
        ELSE exec[w].batch[v]]

\* One round of fetch's loop over the cycles.
Download(w) ==
    /\ At(w, "download")
    /\ LET c    == exec[w].next
           rest == Pending(exec[w].since, exec[w].until, c + 1)
       IN exec' = [exec EXCEPT
              ![w].batch = Added(w, c, Retrieved(c)),
              ![w].pc    = IF rest = {} THEN "write" ELSE "download",
              ![w].next  = IF rest = {} THEN c ELSE Min(rest)]
    /\ UNCHANGED <<clock, table, lastSuccess, begun, runs>>

\* Variant: DO NOTHING instead of DO UPDATE.
KeptRow(stored, row) == IF stored = None THEN row ELSE stored

\* ON CONFLICT DO UPDATE: the new row wins, whatever the stored one is.
UpsertedRow(stored, row) == IF row = None THEN stored ELSE row

\* _write_grid_batch: one transaction.
WriteGrid(w) ==
    /\ At(w, "write")
    /\ table' = [v \in Instant |-> UpsertedRow(table[v], exec[w].batch[v])]
    /\ exec' = [exec EXCEPT ![w].pc = "record"]
    /\ runs' = runs \cup {[since |-> exec[w].since, until |-> exec[w].until]}
    /\ UNCHANGED <<clock, lastSuccess, begun>>

RecordSuccess(w) ==
    /\ At(w, "record")
    /\ lastSuccess' = clock
    /\ exec' = [exec EXCEPT ![w] = Idle]
    /\ UNCHANGED <<clock, table, begun, runs>>

\* A failed download or transaction, or a crash: nothing of the batch is
\* written (a retry begins a new execution).
Abandon(w) ==
    /\ ~At(w, "idle")
    /\ exec' = [exec EXCEPT ![w] = Idle]
    /\ UNCHANGED <<clock, table, lastSuccess, begun, runs>>

Next ==
    \/ Tick
    \/ \E w \in Worker : \/ BeginRun(w)
                         \/ \E d \in BackfillDays : BeginBackfill(w, d)
                         \/ Download(w)
                         \/ WriteGrid(w)
                         \/ RecordSuccess(w)
                         \/ Abandon(w)

Spec == Init /\ [][Next]_vars

------------------------------------------------------------------------------
\* Every cycle of a window that went through write_batch is in the table with
\* all its steps (perhaps in the version of another cycle), and stays there.
CoveredCyclesAreStored ==
    \A r \in runs, c \in Instant, s \in Steps :
        c % Cadence = 0 /\ r.since <= c /\ c <= r.until => table[c + s] # None

\* Since when retrieve answers with the forecast of the day after cycle c.
Superseded(c) == clock >= c + Day + Delay

\* What write_batch leaves behind for the cycles of an execution of run_source:
\* no row of theirs is older than the cycle, although the batch may hold three
\* rows of one primary key and the table another, and a cycle disseminated when
\* the execution began is really the one stored, unless the execution took so
\* long that the forecast of the next day was out.
RunsRefreshTheirCycles ==
    [][\A w \in Worker : WriteGrid(w) /\ exec[w].kind = "run" =>
          \A c \in Cycles(exec[w].since, exec[w].until), s \in Steps :
              LET row == table'[c + s]
              IN  /\ row.init >= c
                  /\ row.init + Delay <= exec[w].now
                        => row.of = row.init \/ Superseded(row.init)]_vars

\* A row is better than another if it comes from a newer cycle, or is labelled
\* with the cycle it really comes from while the other is not.
Better(a, b) == \/ a.init > b.init
                \/ a.init = b.init /\ a.of = a.init /\ b.of # b.init

\* Among executions of run_source a row is replaced by a worse one only by an
\* execution that began before the better row was stored, or that lasted until
\* the forecast of the next day was out: the windows move forward, and a cycle
\* once fetched after its dissemination is not fetched wrong again.  (That it
\* ever is fetched after its dissemination is not said, and depends on the
\* phase of the beat schedule.)
OnlyOverlapWorsens ==
    [][\A v \in Instant :
          (/\ Better(table[v], table'[v])
           /\ table[v].by = "run" /\ table'[v].by = "run")
          => \E w \in Worker :
                /\ WriteGrid(w)
                /\ exec[w].base[v] # table[v] \/ Superseded(table'[v].init)]_vars

\* fetch, "For each ECMWF forecast cycle ... falling within [window.since,
\* window.until], downloads the GRIB2 file": a row labelled with a cycle holds
\* that cycle's forecast.
RowsCarryTheirCycle == \A v \in Instant : table[v].of = table[v].init
=============================================================================
