# ClimatePulse in TLA+

ClimatePulse collects weather observations (ARPAE Emilia-Romagna, stations) and
forecasts (ECMWF Open Data, a grid) with Celery workers, stores them in
TimescaleDB and watches itself through Redis keys and two health endpoints.
This directory holds TLA+ models of its behaviour, TLC configurations that
check them on small instances, and proofs for TLAPS. Paths below are relative
to the repository; `worker/` stands for `src/apps/worker/climatepulse_worker/`,
`core/` for `src/packages/core/climatepulse_core/`, `api/` for
`src/apps/api/climatepulse_api/` and `0001_init.py` for
`src/packages/migrations/climatepulse_migrations/versions/0001_init.py`.

## 1. Inventory

### Components

| component | state | operations | model |
|---|---|---|---|
| Beat, broker, workers (`worker/celery_app.py`, `worker/tasks/ingest.py`) | messages in the Redis queues, unacknowledged deliveries, four prefork processes | beat sends `run_source` every cadence; `run_source` discovers, registers, fetches, routes, writes, records; autoretry, late acknowledgement | `RunSource` |
| Station adapter (`core/adapters/arpa_emilia.py`) | none | `discover_stations`, `fetch` from the realtime feed or the monthly archives | `RunSource`, `Backfill` |
| Metadata (`core/storage/repos.py`, `_ensure_metadata` in `worker/cli/backfill.py`) | `sources`, `stations`, `variables`; three caches per execution | upserts and cache loading | `RunSource`, `Backfill` |
| Writer (`core/storage/writer.py`) | `observations`, `gridded_observations` | `write_batch`: COPY into a staging table, upsert, count of inserted rows, success record | `RunSource`, `Backfill`, `GridForecast`, `SourceMirror` |
| Dead letters (`dlq_route`) | queue `dlq`, Redis list `dlq:{source_id}` | LPUSH and LTRIM | `RunSource` |
| Freshness (`core/observability/health.py`) | Redis key `metrics:last_success:{source_id}` | `record_success`, `is_stale` | `RunSource`, `Backfill`, `GridForecast` |
| Backfill command (`worker/cli/backfill.py`) | day of the loop, rows reported | one daily window after the other, errors caught per day | `Backfill` |
| Forecast adapter (`core/adapters/ecmwf_open.py`) | none | enumerate cycles, download, label, `fetch` | `GridForecast` |
| Polite client: robots.txt (`check_robots` in `core/http/client.py`) | cache per host, 24 h | question, request, cache update | `RobotsCheck` |
| Polite client: fetch (`_fetch_with_retry` in `core/http/client.py`) | a limiter per client, its bucket `rl:{host}` in Redis | token, up to five attempts, failure snapshot | `PoliteFetch` |
| Snapshot store (`core/http/snapshot.py`, `rotate_snapshots` in `worker/tasks/maintenance.py`) | `.jsonld` files named by the second | `write_jsonld`, `rotate` daily | `SnapshotStore` |
| Heartbeat (`worker/heartbeat.py`, `heartbeat_tick`, `on_worker_ready`) | Redis key with a TTL of 120 s | set at start, renewed by a task every 30 s | `Heartbeat` |
| API (`api/main.py`, `api/routers/health.py`) | connection pool of five, Redis client | `/healthz`, `/readyz` | `Readiness` |
| Schema and policies (`0001_init.py`) | hypertables, two hierarchies of continuous aggregates | refresh, retention, compression | `Aggregates`; compression is left out |
| Normalisation (`core/normalize/`) | none | units, quality flags, UTC | `RomeTime` for UTC |
| Settings, domain models, ORM mirror, adapter protocol | none | declarations | - |

### Interactions

Beat puts messages on the queue `ingest`; worker processes take them, call the
adapter over HTTP, write through an asyncpg pool, send `dlq_route` messages to
the queue `dlq` and set the success key. The backfill command runs the same
metadata, adapter and writer code in a process of its own, at the same time, on
the same tables and keys. Heartbeat ticks and the rotation of snapshots are
messages of the same queue `ingest`, behind and among those of `run_source`; the
API reads the key that the ticks renew. TimescaleDB's jobs refresh the
aggregates from the table the writers fill, and drop its old chunks. Nothing in the code serialises executions of a
source: there is no lock, no task expiry and no time limit. Two documents
describe a stronger politeness than the code has: no adapter uses
`PoliteHttpClient` (they call `httpx` and `ecmwf-opendata` directly), so
robots.txt and the shared rate limit are only exercised by tests.

### Behaviours that are hard, and what correct means

* **Overlap.** A slow execution overlaps the next beat, a retry, a redelivered
  message, a backfill. Correct: rows are genuine, windows leave no gap, rows
  are counted once, and a newer value gives way to an older one only if the
  writer had fetched before the newer one was committed.
* **At-least-once delivery.** Late acknowledgement, visibility timeout, death
  of a process or of the container, retries up to three. Correct: no message
  vanishes, retries end.
* **Partial failure.** Upserts of stations that fail half way, a commit whose
  success record fails, an archive that is missing, a failed day of a backfill.
  Correct: no row without its station, and what a transaction covered stays.
* **Dead letters.** A capped list, a swallowed Redis failure, redelivered
  messages, a process killed with one in hand. Correct: a violation is in one of
  the known places.
* **Freshness.** A key that says when the writer last finished. Correct: it
  moves only to the present, and only after the execution that moves it has had
  its own batch written.
* **Cycles.** Windows over six-hourly cycles whose files appear hours later, in
  whatever phase beat runs. Correct: no cycle is left out, newer forecasts win,
  labels are true.
* **A cache across an await.** Correct: no answer rests on something older than
  the TTL.
* **One budget, many clients.** Lazy initialisation across an await, a limiter
  per client, timestamps that overtake each other, clients that die. Correct: all
  tokens come from one budget.
* **Files without locks.** Names of one second, truncation before writing,
  rotation that runs twice. Correct: a documented failure stays documented for
  its retention, and a rotation leaves nothing old behind.
* **Evidence that ages.** A key that outlives its worker, checks that end before
  the answer. Correct: a ready answer rests on evidence from the probe's own
  life, and an absent key on trouble that lasted.
* **Waiting without a timeout.** A pool behind a database that hangs. Correct:
  once it responds for good, each probe is answered.
* **Tiers of aggregates.** Ranges and retention against rows that come ahead of
  time, late, or years late. Correct: rows in time reach the days and stay, and
  days lose nothing.

The hazards, each at its line and with the properties that would catch it, are
listed in `PROJECT.json`.

## 2. Modules

```
SourceMirror            what the hypertable promises (abstract)
   ^ implemented by (INSTANCE ... WITH)
RunSource     <--EXTENDS-- Backfill          MCRunSource, MCBackfill
   ^                          ^
RunSourceProofs <-EXTENDS- BackfillProofs

SnapshotStore <--EXTENDS-- PoliteFetch  <--  MCPoliteFetch, PoliteFetchProofs
Heartbeat     <--EXTENDS-- Readiness    <--  MCReadiness, ReadinessProofs
GridForecast  <--  MCGridForecast, GridForecastProofs
RobotsCheck   <--  MCRobotsCheck, RobotsCheckProofs
Aggregates    <--  MCAggregates, AggregatesProofs
RomeTime                (operators and their theorems)
```

### SourceMirror
The abstract specification. `feed[k]` is the latest revision of slot `k` that
the source published, `table[k]` the revision in the hypertable, 0 for none.
`Commit` stores an atomic batch of published values; a row may be replaced by
another published value, and no writer takes one away. The table is what lies
within the retention of the hypertable: `add_retention_policy` (line 413 of
`0001_init.py`) drops observations after 5 years and grid rows after 90 days,
which is modelled in `Aggregates` and left out of `SourceMirror`, `RunSource`,
`Backfill` and `GridForecast`. Where these say that a row "stays", they mean for
as long.

### RunSource
One station source with its beat, queues, workers and Redis keys. A *slot*
(`Key`) is a primary key of `observations`: station, `observed_at`, BUFR code.
Its value is abstracted to the revision the source published it under.
`Unmapped` slots carry a code that `bufr_to_wmo_code` does not know and so
become schema violations.

| TLA+ | code |
|---|---|
| `Tick` | time; on a cadence boundary beat fires between 0 and `MaxFire` times (beat down, one beat, two schedulers) |
| `Publish` | the source publishes a slot, late or in time, or corrects it |
| `Receive` | a process takes a message of attempt `n`; `run_source` computes `[now - 2 cadence, now]` |
| `Discover` | `discover_stations`: stations of the feed, `[]` when it cannot be fetched |
| `RegisterStation`, `LoadCaches` | `_ensure_metadata`: one upsert per station found, then the caches |
| `Fetch` | `adapter.fetch` with the window of `Receive` and the feed of now |
| `Route` | the violations leave as one `dlq_route` message, before the write |
| `WriteBatch` | `write_batch` up to the commit: cache lookup, upsert, the early returns |
| `RecordSuccess` | `record_success` |
| `Ack`, `Fail` | late acknowledgement; an exception at any step, with `autoretry_for` and `max_retries`; what was upserted or committed before it stays |
| `VisibilityTimeout`, `WorkerCrash`, `ProcessLost` | the delivery comes back while the execution goes on; the container dies and everything unacknowledged comes back; one process dies and Celery acknowledges its message |
| `DlqReceive`, `DlqPersist`, `DlqPersistFailed`, `DlqAck` | `dlq_route`, in the same processes: the message is taken; MULTI/EXEC with LPUSH and LTRIM; the caught exception; late acknowledgement |

`WorkerCrash` and `ProcessLost` may come between any two of these steps: the dead
container's message is delivered again, whether or not its entry was pushed, and
the killed process's message is acknowledged, before EXEC with the loss of its
violations (`dlqLost`, by cause).

Steps end at awaits, so other processes interleave exactly there. Abstractions:
the HTTP attempts inside `_fetch_bytes` are one step that succeeds or raises;
the time a restored message needs to become visible is the time it waits in the
queue; `sources` and `variables` are seed data that every execution upserts
alike; the realtime feed is taken to carry at least the last two cadences, the
window of an execution; a 304 does not occur, because the adapters send no conditional header.
Several records of a batch with one primary key (two BUFR groups of one
variable) collapse to the last one before the COPY and count as one slot.

A message that a killed process held counts as `finished`, as Celery counts it
(its outcome is WorkerLostError): `MessagesAreNotLost` speaks of messages, not of
completed executions.

History variables (`published`, `dispatched`, `finished`, `runs`, `dlqLost`,
and `base` inside an execution) record what happened and guard nothing.

### Backfill
Extends `RunSource` by processes of the command: `Start` (also again, also two
at a time), `CliDiscover`, `CliRegisterStation`, `CliLoadCaches`, `CliSetupFailed`
(an exception before the loop), then per day `CliFetch`, `CliWrite`, `CliRecord` or `CliDayFailed`,
and `Interrupt`. A day is the closed window from midnight to midnight, so two
days share a slot. `Losses` are the slots a day's fetch may not get to see: those of
the archives that a day older than the threshold cannot read (404, corrupt;
the adapter skips them without an error), and for a younger day those that the
realtime feed no longer carries. The
command does not route violations; the writer skips their rows.
`Inserted` is the `xmax = 0` count of the statement.

### GridForecast
Executions and backfill days of `ecmwf_open`. In the runs an instant is an hour
and a half: a cycle every 4, dissemination after 6 (nine hours), a day of 16 with
steps `{0, 4, 8, 16}`, or a shorter one (see *Bounds*). Nothing bounds how long an
execution takes: neither the task nor the downloads have a time limit. A row
`[init, of, by]` says which `init_time` labels the rows of one `valid_at`, in
which cycle the values were computed, and what kind of execution wrote it.
`Download` is one round of the loop in `fetch`; `Added` is the writer's
dictionary, in which the last row of a primary key wins; `Retrieved` is what
`Client.retrieve` returns for a `time` without a `date`: the latest
disseminated forecast of that hour. `GridAssumption` keeps the days of the
command (`BackfillDays`) within the days that have begun by `MaxClock`, so that
every valid time lies in `Horizon`. How executions come about is the subject of
`RunSource`; here an idle process may begin one at any time and `Abandon` it.

### RobotsCheck
`check_robots` for one host. The await on the request separates the cache
lookup (`Request`) from the update (`ResponseParsed`, `ResponseAbsent`,
`ResponseError`), `Reply` is the moment the host answers, and responses overtake
each other. `CanFetch` of a parser that never parsed is FALSE, as in
`urllib.robotparser`.

### SnapshotStore
One directory, without locks. It belongs to one URL, or to several: the code cuts
a URL off after 64 characters and maps '/' and '.' to '_' (lines 204-211 of
`core/http/client.py`), and calls for URLs that share a directory are like calls
for the same URL. A file is named by the second in which
its failure was noted (`NameNow`). `write_jsonld` is three steps, `NameSnapshot`,
`OpenSnapshot` (creates or truncates) and `WriteSnapshot`, because another
process may open the same name in between; `Overlay` is what a shorter text
leaves of a longer one. A write that fails, or a process that dies, leaves what
is there (`AbandonSnapshot`). `rotate` is `RotateBegin` (cutoff and listing),
`RotateStat` and `RotateUnlink` per file and `RotateEnd`; stat and unlink are
apart, so that two deliveries of `rotate_snapshots` and the writers meet between
them. The store starts with files of an earlier life of the system.

### PoliteFetch
Extends `SnapshotStore` by calls of `get_json` and `get_bytes` for one host.
`Begin` and `LimiterReady` are `_get_limiter`: coroutines that begin before the
first `RedisBucket.init` returned each make a limiter. `StampToken`, `AcquireToken`
and `TokenRefused` are `_acquire_rate_limit`: pyrate-limiter takes the timestamp
in the client and counts and inserts in a script in Redis, so that another
request may overtake the one on its way. `granted` is the bucket in Redis, which
all limiters of the host share (`Sharing`); `ordered` is history, the tokens that
came in the order of their timestamps. `Send`, `Answered`, `Retry` and `Fail` are
tenacity's loop, `Raise` and `RaiseUndocumented` the end of
`_write_failure_snapshot`; as `write_jsonld` never awaits, its process runs
nothing else meanwhile (`Running`). `Crash` takes a process with its calls, its
limiter and its write. No adapter uses this client yet.

### Heartbeat
One instant is the 30 seconds of beat. `HeartbeatInterval` is time, with beat
sending a tick or being down; `TakeRun` and `FinishRun` occupy and free prefork
processes, without any bound on how long; `HeartbeatTick` and `WorkerReady` write
the key, or fail to and go on; `TickLost` is a process that is killed with a tick
in hand, which Celery acknowledges. `WorkerDies`, `Fails` and `Recovers` take services
down and up. `hindered` and `spell` are history: whether something stood in the
way of the heartbeat in this interval, and for how many intervals before it.

### Readiness
Extends `Heartbeat` by probes of `/readyz`. The check of the database is
`Acquire` (from asyncpg's queue, first come, first served), `Connect`, and then
`Selected`, `Broken` or `TimedOut`; a connection whose statement was cancelled
goes back only when the server confirms (`Released`). `CheckRedis` is PING or the
GET of the key; `AnswerReady` and `AnswerUnavailable` follow `gather`. `evidence`
is history: the services that were up at some moment of the probe's life.

### Aggregates
One hierarchy (`obs_hourly` and `obs_daily`, or `gridded_hourly` and
`gridded_daily`, which differ in the numbers) over one hypertable. A bucket is
abstracted to the rows it was computed from. `Commit` writes a row of the
present, of up to `Ahead` hours ahead (forecasts), or of long ago (backfill), and
invalidates its hour; `RefreshHourly` recomputes the invalidated hours of its
range and invalidates their days; `RefreshDaily` does so one tier up, from the
hours; `DropChunks` is the retention of the raw rows, chunk by chunk, and
invalidates the hours of the chunks it drops (which lie behind the hourly range).
That a refresh touches only invalidated buckets, and as a whole, is
TimescaleDB's, and external. `PolicyAssumption` is the room the ranges leave each
other; the migration's numbers (3 days within 7, 1 hour and 1 day of lag, a job
every hour, 5 years or 90 days of retention) satisfy it.

### RomeTime
`to_utc` and `to_utc_strict` as operators on wall times, and their theorems;
`Offset` is what zoneinfo answers, and `Clock` the law it implements. There is no
run: the theorems hold for every year in which summer time ends in October, that
is from 1996 on. Before, Rome left it in September, which the code does not know.

## 3. What the runs check

All runs finish in minutes with two TLC workers. `CHECK_DEADLOCK FALSE`: every
bounded model stops when its clock and its budgets are used up and the system
is idle; that things do not get stuck before is `Drains`, `CommandsEnd` and
`ProbesAreAnswered`.

| run | instance | shows |
|---|---|---|
| `overlap` | 2 processes, 2 stations, 2 slots, 2 revisions, 3 instants | `StoredRowsAreGenuine`, `CoveredSlotsAreStored`, `OnlyOverlapRegresses`, and that `RunSource` implements `SourceMirror` |
| `redelivery` | 2 processes, 1 unknown slot, list of 1, 1 retry, 2 faults | `MessagesAreNotLost`, `ViolationsAreAccountedFor` |
| `drift` | 1 process, 1 good and 2 unknown slots, list of 1, 1 retry, 1 fault | `TypeOK`, `ViolationsAreAccountedFor`, `StoredRowsAreGenuine`, `SuccessFollowsOwnBatch`, and `Drains` under fairness |
| `backfill` | 1 command over 2 days, run twice, the first day read from archives, against 1 process, 1 slot at midnight with 2 revisions | `WrittenDaysAreStored`, `ReportsCountRowsOnce`, `OnlyOverlapLosesUpdates`, `CliTypeOK`, that the table under both writers still implements `SourceMirror`, and `CommandsEnd` under fairness |
| `grid` | 2 processes, 2 executions, 11 instants in every phase of two cadences | `CoveredCyclesAreStored`, `RunsRefreshTheirCycles`, `OnlyOverlapWorsens` |
| `robots` | 2 coroutines, 2 calls each, TTL 2, 5 instants | `AnswersAreRecent`, `TypeOK` |
| `polite` | 3 coroutines of 2 clients, 2 calls, 2 attempts, 2 rotations, 1 fault | `TokensWithinRate`, `FailuresAreDocumented`, `RotationKeepsFresh`, `RotationSweepsAll`, `PoliteTypeOK` |
| `readiness` | 2 probes, a pool of 1, 1 process, TTL 3, 1 outage | `ReadyIsHonest`, `AbsentKeyMeansTrouble`, `ReadinessTypeOK`, and `ProbesAreAnswered` under fairness |
| `aggregates` | 3 rows of 2 hours of a day of 2, 10 hours | `OnTimeRowsStayInDays`, `TiersAgree`, `DaysOnlyGrow`, `AggregatesTypeOK` |
| `request_rate` | 1 coroutine, 1 call | a violation, see section 6 |
| `grid_labels` | 1 process, 3 executions | a violation |
| `robots_absent` | 2 coroutines | a violation |

### Bounds

`MaxClock`, `MaxRevision`, `MaxFire`, `MaxFaults` (RunSource), `MaxCommands`
(Backfill), `MaxRuns`, `MaxClock`, `Begin` (GridForecast), `MaxCalls` and
`Timeout` (RobotsCheck), `MaxClock`, `MaxFaults`, `WriteTime`, `Start`, `MaxCalls`
(SnapshotStore, PoliteFetch), `MaxClock`, `MaxOutages` (Heartbeat), `MaxClock` and
`JobDelay` (Aggregates) are the only bounds; all are constants and named as
bounds where they are declared.

* Two processes are enough for every race of two executions, and the properties
  speak of pairs: a value and the one it replaces, a covered slot and the
  writer that could remove it. A third process adds no new pair. Two stations
  are enough for "known" against "not yet known"; two revisions for "older"
  against "newer".
* A cadence of one instant makes the window three instants wide, so slots lie
  at both bounds, inside and outside of it within three instants.
* `DlqCap` of 1 stands for 1000: the trim happens with the second entry.
* `redelivery` has one slot, with an unknown code, so that executions of both
  tasks meet in two processes; two faults let an expired visibility timeout be
  followed by a crash or a killed process. `drift` has one process, for which
  both queues compete, and three slots, so that entries differ and the trim drops
  the last copy of a violation.
* In `backfill` the first day is archived and the second is read from the
  realtime feed; the one slot lies in both. The command is run twice, again after
  it ended or was interrupted; the other writer of the races is the worker, and
  two commands at a time are left to the theorems.
* `polite` has two callers in one process, which race through the lazy
  initialisation, and one in another, which shares only Redis and the volume.
  The limit is one token per period, so one token too many shows at once. With
  `Start` at 1 there may be a file that a rotation finds old during the run.
  `WriteTime <= MaxAge` (seconds against 30 days) is what `RotationKeepsFresh`
  needs: a file cannot become old while it is being written.
* `readiness` has a TTL of 3 intervals for 4 in the code; the theorems hold for
  any. A pool of one makes the second probe wait behind the first.
* `aggregates` keeps the order of the migration's numbers (`PolicyAssumption`)
  at a small scale: a day of 2 hours, ranges of 3 and 6, lags of 1 and 2, a
  retention of 4. Ten hours suffice for every policy to leave the day behind and
  for its chunk to be dropped and written again.
* In `grid` the clock runs over 11 instants, so an execution may begin in any of
  the four phases of a cadence, before or after the dissemination (6) of each of
  its cycles, and last 10 of them (fifteen hours). The day is shortened to three
  cycles (12 instants, steps `{0, 4, 8, 12}`), so that the forecast of the next
  day (18 after the cycle) is out within the run for an execution that lasts
  long. `2 * Cadence <= Day` is what keeps the two apart for one that does not;
  the theorems hold for every day that satisfies it. Without the exception
  `Superseded` both action properties are violated in this run.
* `grid_labels` has the day of the code, 16 instants.
* `Timeout < Ttl` in `RobotsCheck`: ten seconds against 24 hours.

`Processes`, `Coroutines` and `Symmetric` are symmetry sets; they are used only
in runs without liveness properties.

### Fairness

`FairSpec` assumes that a process that has a delivery goes on (`Proceed`), and
that a free process takes the next delivery of either queue (`Take`): Celery's
event loop does these as long as the container runs, and its worker is started
with all four queues (`src/infra/Dockerfile.worker`). There is no
fairness on time, on the source, on failures, on faults or on retries ending
well: an execution may fail every time, and `Drains` still holds because the
number of attempts is bounded. `FairBackfillSpec` assumes that a started
command goes on; starting and interrupting it are the operator's choice. Both
are assumptions about what is awaited as well: `httpx` and `dlq_route`'s Redis
client have timeouts, but the asyncpg pools and the Redis client of the writer
(lines 335-336 of `worker/cli/backfill.py`, and those of `run_source`) have none, and
there is no task time limit. A database or a Redis that accepts a call and never
answers stops an execution for good, and `Drains` and `CommandsEnd` say nothing of
that case. `FairSpec` of `Readiness` assumes that
the API's event loop runs what can run, and, in `Acquire`, asyncpg's order of
waiters; nothing is assumed of the services, and `ProbesAreAnswered` speaks only
of behaviours in which the database responds for good in the end. `Aggregates` has
no fairness but a bound: a policy runs at least every `JobDelay`.

## 4. What is proved

Every type invariant and every safety or action property of a passing run is a
theorem, for all values of the constants within the named assumptions; only the
three liveness properties are left to TLC. Seven modules named `...Proofs` and
`RomeTime` hold the theorems. Each proof takes an inductive invariant that TLC
has checked on the instance of the run, shows with one lemma per action that a
step keeps it, and derives the properties from it.

### RunSourceProofs
For every finite set of processes and any sets of stations and slots, however
many faults, retries and revisions:

| theorem | statement |
|---|---|
| `TypeCorrect` | `Spec => []TypeOK` |
| `Invariant` | `Spec => []IInv` |
| `GenuineRows` | `Spec => []StoredRowsAreGenuine` |
| `CoveredSlots` | `Spec => []CoveredSlotsAreStored` |
| `Regressions` | `Spec => OnlyOverlapRegresses` |
| `Mirrors` | `Spec => MirrorsSource`: refinement of `SourceMirror` |
| `SuccessFollowsBatch` | `Spec => SuccessFollowsOwnBatch` |
| `AccountedViolations` | `Spec => []ViolationsAreAccountedFor` |
| `MessagesKept` | `Spec => []MessagesAreNotLost` |

`StoredRowsAreGenuine` and `CoveredSlotsAreStored` are not inductive: a row is
genuine because the *batch* it came from was, and the batch waits in a process
while the feed and the stations move on. `IInv` adds what holds of the batches:

* `BatchesArePublished`: a batch holds no revision the feed has not reached;
* `BatchesFollowTable`: a batch that is older than the table was fetched when
  the table (`base`) was older than now, which is what `Regressions` needs;
* `WindowsArePast`: an execution's `now` is not in the future, so a slot
  published later cannot count as covered;
* `BatchesAreComplete`: between fetch and write a batch contains every slot of
  its window that was published before the execution began;
* `RunsAreStored`: what a finished execution covered is in the table.

The step proof sorts the actions into those that change nothing the invariant
reads except process-local control (`AsidePreserves`) and the four that matter
(`PublishPreserves`, `CachesPreserve`, `FetchPreserves`, `WritePreserves`).
A row never disappears, because an upsert with a non-empty value only ever
overwrites, and that is why `RunsAreStored` survives later writers.

Three invariants of their own serve the other theorems. `MetricInv`: an execution
that is about to record has offered rows, and those it could store are in the
table (`RecordersStored`), where later writers leave them. `DlqInv`: what an
execution between route and write would dead-letter is already queued, in the
hands of a `dlq_route`, listed or among the losses (`RoutedAreAccounted`), and so
is what finished executions dead-lettered (`RunsAreAccounted`); each
action that takes a message or an entry away moves it to another of these
places. `MessageInv`: what is waiting, what executions owe
(`Owing`: held and not yet handed on to a retry) and what is finished together
cover what beat sent. The counts are cardinalities of sets of units (`Waiting` has one
element per queued copy of a message), so that a step that takes or returns a
message is the removal or addition of one element, and no sum over the
processes is needed.

### BackfillProofs
For any finite number of commands beside any number of workers, any range of
days and any lengths of day and month:

| theorem | statement |
|---|---|
| `CliInvariant` | `BackfillSpec => []CliInv` |
| `CliTypeCorrect` | `BackfillSpec => []CliTypeOK` |
| `WrittenDays` | `BackfillSpec => []WrittenDaysAreStored` |
| `ReportsOnce` | `BackfillSpec => []ReportsCountRowsOnce` |
| `LostUpdates` | `BackfillSpec => OnlyOverlapLosesUpdates` |
| `GenuineRowsBesideBackfill`, `CoveredSlotsBesideBackfill` | both invariants of `RunSource` hold in the composition |
| `AccountedBesideBackfill`, `MessagesKeptBesideBackfill` | so do `ViolationsAreAccountedFor` and `MessagesAreNotLost` |
| `MirrorsBesideBackfill` | `BackfillSpec => MirrorsSource` |

`CliInv` adds to `IInv` that the batch of a command is sound like those of the
executions (`CommandsAreSound`), and for `ReportsOnce` that rows reported and
rows *about to be* reported together do not exceed the rows of the table
(`RowsAreCountedOnce`): a transaction counts its inserts when it commits, and
the command adds them up later. `FeedIsFinite` makes those counts meaningful for
an infinite set of slots. `SuccessFollowsOwnBatch` is not among what carries over:
it speaks of the batches of `run_source`, and a command records successes, too.

### GridForecastProofs
For any number of processes, any cadence that divides the day, any set of steps
up to a day that holds 0 and the day itself, and any delay of the dissemination:

| theorem | statement |
|---|---|
| `GridInvariant` | `Spec => []GridInv` |
| `GridTypeCorrect` | `Spec => []GridTypeOK` |
| `CoveredCycles` | `Spec => []CoveredCyclesAreStored` |
| `CyclesRefreshed` | `Spec => RunsRefreshTheirCycles` |
| `OverlapOnly` | `Spec => OnlyOverlapWorsens` |

`GridInv` says of a batch that it is complete for the cycles the loop of `fetch`
has passed, each in its own version or a newer one (`BatchComplete`), and of its
rows where they come from (`BatchLabelled`: a row is of its cycle if that was disseminated when the
execution began and the cycle of the next day is not out yet); and of rows that
`run_source` wrote that their cycle is in the past and is what the row says only
if it was disseminated (`RowsSound`, of the table and of every execution's base).
The arithmetic is explicit: `FirstCycle` names the least
multiple of the cadence in a window, `NewestForecast` the latest cycle of an
hour that is disseminated, where the model chooses a minimum or maximum, and
`Apart` says that congruent numbers are a modulus apart; thus no induction is
needed. Nothing is assumed of how long an execution takes.

### RobotsCheckProofs
For any number of coroutines and calls and every TTL above the timeout:
`TypeCorrect` (`Spec => []TypeOK`), `Invariant` (`Spec => []RobotsInv`) and
`RecentAnswers` (`Spec => AnswersAreRecent`). `RobotsInv` adds that an outcome in
flight, and the entry in the cache, was seen no earlier than the call that
brought it began (`OutcomesWereSeen`, `CacheWasSeen`), and that calls are young;
the entry expires a TTL after that beginning and not after the response.

### PoliteFetchProofs
For any number of processes, finitely many callers, any number of rotations, any
limit and period:

| theorem | statement |
|---|---|
| `PoliteInvariant` | `Spec => []PoliteInv` |
| `PoliteTypeCorrect` | `Spec => []PoliteTypeOK` |
| `RateIsKept` | `Spec => []TokensWithinRate` |
| `FailuresDocumented` | `Spec => []FailuresAreDocumented` |
| `FreshFilesKept` | `Spec => RotationKeepsFresh` |
| `RotationSweeps` | `Spec => RotationSweepsAll` |

`StoreInv` is about the volume: a file is no older than its name says, a write is
over soon after the name was chosen, and what a rotation has not passed yet holds
all that is old; hence a file that a rotation has found old has no writer any
more, which is what makes the separate stat and unlink harmless
(`FreshFilesKept`). `CallInv` ties each failed call to the write of its process
(`CallsMatchWrites`) and says what an opened file may hold (`OverlaysAreKnown`).
`TokenInv` says that the tokens in the order of their timestamps are among those
the bucket gave (`OrderedAreGranted`); a token that was not overtaken is the last
of every window it lies in, and the script has counted what comes before it.

### AggregatesProofs
For any rows, any reach and lag of the policies, any retention and chunk:

| theorem | statement |
|---|---|
| `TierInvariant` | `Spec => []TierInv` |
| `AggregatesTypeCorrect` | `Spec => []AggregatesTypeOK` |
| `OnTimeRowsStay` | `Spec => []OnTimeRowsStayInDays` |
| `DaysGrow` | `Spec => DaysOnlyGrow` |
| `TiersAgreed` | `Spec => []TiersAgree` |

`TierInv` ties the invalidated buckets to what the tiers lack
(`LackingHoursAreStale`, `LackingDaysAreStale`), says that what is missing still
lies ahead of its policy (`HoursArePending`, `OnTimeDaysArePending`,
`DaysArePending`), and that retention stays behind the hourly range
(`RawIsInReach`). It is here that each conjunct of `PolicyAssumption` is used: the
room that the comment "Policy ordering verified" claims for the migration's
numbers is exactly what the proof needs.

### ReadinessProofs
For any TTL, any number of processes, of probes and of outages, and any size of
the pool:

| theorem | statement |
|---|---|
| `HeartbeatTypeCorrect` | `HeartbeatSpec => []HeartbeatTypeOK` |
| `AbsenceIsTrouble` | `HeartbeatSpec => []AbsentKeyMeansTrouble` |
| `ImplementsHeartbeat` | `Spec => HeartbeatSpec` |
| `AbsenceIsTroubleForProbes` | `Spec => []AbsentKeyMeansTrouble`, through it |
| `ReadinessTypeCorrect` | `Spec => []ReadinessTypeOK` |
| `ReadyAnswersAreHonest` | `Spec => ReadyIsHonest` |

`AbsentKeyMeansTrouble` compares the key with a count of past intervals and is
not inductive. `HInv` adds `AgeIsInSpell` (the age of the key is at most one
interval more than the spell) and, for it, `UnhinderedIsFresh`: in an interval in
which nothing stood in the way, the key was written in this interval or a tick
waits; since a tick does not wait for a process that is free, such an interval
ends with the freshest key. `EInv` says of each probe without a failure that
every service that is up now, and every service whose check is over, is in its
evidence (`Backed`), and of the key that it outlives the worker by at most a TTL
(`KeyIsRecent`).

### RomeTime
Of wall times in any year from 1996 on: `ResultsAreGenuine`, `ResultsAreUnique`,
`FoldsAreTheTwoInstants`, `GapIsAdvanced`, `OrderIsKept` and `LastSundayIsLast`.
They assume only that the change in March precedes the one in October. A wall
time in the gap shares its instant with the genuine one an hour later, so it is
not in order with its neighbours; its flag is what tells.

### Assumptions
All are named where the constants are declared, and TLC evaluates each in the
runs of its module: `SlotAssumption`, `WorkerAssumption`, `BoundAssumption`
(`RunSource`: every slot has a station and a time, finitely many processes, the
parameters are numbers), `BackfillAssumption`, `HeartbeatAssumption`,
`ReadinessAssumption` and `FetchAssumption` (numbers and finitely many
processes). Four say more. `GridAssumption`: the proportions of cadence, day and
steps discussed under *Bounds*, and a clock that starts when a first day
has been disseminated. `RobotsAssumption`: the timeout is below the TTL.
`StoreAssumption`: a write takes no longer than the retention. `PolicyAssumption`:
the ranges of the policies leave each other room, as the migration's do.

### Only model-checked
`Drains`, `CommandsEnd` and `ProbesAreAnswered` hold under fairness; TLAPS as used
here does not reason about fairness and ENABLED. The three violations of section 6
are counterexamples, and TLC's. No module declares a RECURSIVE operator.

## 5. Plan

All modules of the plan exist: `SourceMirror`, `RunSource`, `Backfill`,
`GridForecast`, `RobotsCheck`, `SnapshotStore`, `PoliteFetch`, `Heartbeat`,
`Readiness`, `Aggregates`, `RomeTime`. Each has one passing run with all its
properties, or shares one with the module it extends; a run documents a
divergence only where code and text disagree. The safety theorems of the plan are
proved.

What is left are abstract specifications for more components, to be refined by
proof as `SourceMirror` is: a volume that only promises retention for
`SnapshotStore`, and a table of cycles for `GridForecast`.

## 6. Where code and text disagree

* **Request rate** (`request_rate`). `_fetch_with_retry` takes one token and then
  makes up to five attempts, while `src/docs/scraping-policy.md` promises 30
  requests per minute and host. The run: one call, one token, two requests within
  the period. What the limiter does keep is `TokensWithinRate`.
* **Labels of forecasts** (`grid_labels`). A window up to now contains cycles
  that are not disseminated yet. `retrieve` is given an hour and no date,
  returns the forecast of the day before, and its rows are stored under the new
  `init_time`. Whether they are ever fetched again depends on the phase of beat's
  six hours, which the code leaves to the start of the scheduler. With a
  dissemination after nine hours, an execution three to six hours after a cycle's
  hour is followed by one that finds the cycle disseminated and still in the
  window. In the phases between zero and three hours none is: executions two, eight
  and fourteen hours after the hour of cycle c see it undisseminated, undisseminated,
  and no longer, and the rows keep the wrong values under the new label until a
  newer cycle replaces them; those of the cycle's own hour, for good.
  What does hold is less: an execution stores a cycle that is disseminated as
  itself (`RunsRefreshTheirCycles`), and a row once right is made wrong only by
  overlap, or by a download that lasts until the forecast of the next day is out
  (`OnlyOverlapWorsens`). A backfill of any past or future day stores the latest
  forecasts under that day's labels; `OnlyOverlapWorsens` is therefore stated
  among executions of `run_source`.
* **A host without robots.txt** (`robots_absent`). The first question is
  answered with True, and the following ones, from the cache, with False.

Three more remarks, without a run.

* **Killed processes.** `task_acks_late` is set without
  `task_reject_on_worker_lost` (line 59 of `worker/celery_app.py`), which line 106
  of `src/.planning/research/PITFALLS.md` and line 292 of `ARCHITECTURE.md` beside it
  ask for. A process killed (out of memory, SIGKILL) has its message acknowledged;
  when that is a `dlq_route` before EXEC, its violations are in neither the queue
  nor the list nor the log of failures. What holds is `ViolationsAreAccountedFor`,
  which counts this as the third loss.
* **Freshness without data.** `write_batch` records a success also when every row
  was skipped (line 89 of `core/storage/writer.py`), while `is_stale` is documented
  to be true of a source that "has not ingested". When `discover_stations` answers
  [] and every row lacks its station, the source is fresh with an empty table.
  What holds is `SuccessFollowsOwnBatch`.
* **Drift.** After routing schema violations `run_source` goes on and records a
  success, while D-20 of
  `src/.planning/phases/01-foundation-slice-public-docs/01-CONTEXT.md` expects
  the source to turn unhealthy; no task that would call `is_stale` exists yet,
  and the dead letters (`ViolationsAreAccountedFor`) are the only place that
  tells of drift.

## 7. Not modelled

* Values, units, range checks and parsing of records: pure data and
  floating-point formulas. The flag that matters for control,
  `SCHEMA_VIOLATION`, is modelled. So are the values inside an aggregate: that
  `avg_value` of a day is an unweighted average of averages does not show.
* The order of row locks of two upserts (PostgreSQL may abort one of them): the
  transaction is one step that may fail.
* Compression (`add_compression_policy` changes no content) and the retention of
  the daily aggregates after 20 years, which lies beyond every other range. The
  hourly aggregates have no retention policy.
* `SnapshotStore.read_latest` changes no state, and nothing calls it. The station
  adapter writes snapshots of its own into the same volume, under names with
  microseconds (`_write_failure_snapshot` in `core/adapters/arpa_emilia.py`); they
  differ from the modelled ones in never sharing a name.
* ETags and bodies of `PoliteHttpClient`, and its in-memory bucket for tests.
* `IdempotentWriter.refresh_caches`, which nothing calls.
* `is_stale` only reads, and has no caller in `src/`.
* `/healthz`, which reads nothing; the teardown of the lifespan.
* Settings, domain models, the ORM mirror and the adapter protocol: declarations.
* Log messages, argument parsing, Sentry and structlog set-up.
