------------------------------ MODULE RunSource ------------------------------
(***************************************************************************)
(* The ingestion pipeline of one station-based source (arpa_emilia): the   *)
(* Beat scheduler, the Redis broker, the worker processes that execute the *)
(* Celery task run_source, the metadata they register, the upsert into the *)
(* observations hypertable, the dead-letter queue and the freshness        *)
(* metric.  Several executions overlap: a slow one with the next beat, a   *)
(* retry with a beat, a redelivered message with its first execution.  The *)
(* same processes execute dlq_route, which persists the dead letters.      *)
(*                                                                         *)
(* Data is abstracted as follows.  A key stands for one observation slot   *)
(* of the feed: (station, observed_at, code).  The value of an observation *)
(* is the revision under which the source published it, 0 meaning "none".  *)
(* A key of Unmapped carries a BUFR code that bufr_to_wmo_code does not    *)
(* know, so the adapter yields it with QcFlag.SCHEMA_VIOLATION.  The clock *)
(* counts instants of the feed's grid.                                     *)
(***************************************************************************)
EXTENDS Integers, Sequences, FiniteSets

CONSTANTS
    Worker,         \* the prefork processes of the worker container
    Station, Key,   \* stations and observation slots of the source
    StationOf,      \* the station of a key
    TimeOf,         \* observed_at of a key, in clock instants
    Unmapped,       \* the keys that carry an unknown BUFR code
    Cadence,        \* adapter.cadence_seconds, in clock instants
    MaxRetries,     \* retry_kwargs["max_retries"] of run_source
    DlqCap,         \* entries LTRIM leaves in a dlq:{source_id} list
    MaxRevision,    \* bound: revisions the source publishes of a key
    MaxClock,       \* bound: the last instant
    MaxFire,        \* bound: messages beat sends per cadence
    MaxFaults       \* bound: crashes and expired visibility timeouts

ASSUME SlotAssumption ==
    /\ StationOf \in [Key -> Station]
    /\ TimeOf \in [Key -> Nat]
    /\ Unmapped \subseteq Key

ASSUME WorkerAssumption == IsFiniteSet(Worker)

ASSUME BoundAssumption ==
    /\ Cadence \in Nat \ {0}
    /\ MaxRetries \in Nat
    /\ DlqCap \in Nat \ {0}
    /\ MaxRevision \in Nat
    /\ MaxClock \in Nat \ {0}
    /\ MaxFire \in Nat
    /\ MaxFaults \in Nat

VARIABLES
    clock,          \* the current instant
    queued,         \* queued[n]: run_source messages of attempt n in the broker
    exec,           \* exec[w]: what process w is executing
    feed,           \* feed[k]: latest published revision of k
    stations,       \* rows of the stations table
    table,          \* table[k]: revision stored in the hypertable
    dlqQueue,       \* dlqQueue[v]: dlq_route messages carrying the violations v
    dlqExec,        \* dlqExec[w]: the dlq_route message process w executes
    dlqList,        \* the Redis list dlq:{source_id}, newest entry first
    lastSuccess,    \* metrics:last_success:{source_id}, 0 when absent (its TTL is
                    \* longer than any threshold and left out)
    faults          \* faults injected so far

\* History variables: they record what happened and guard nothing.
VARIABLES
    published,      \* published[k]: instant of the first publication of k
    dispatched,     \* messages beat has sent
    finished,       \* deliveries acknowledged: succeeded, failed for good, or
                    \* killed with their process
    runs,           \* what the executions that got through write_batch covered
    dlqLost         \* violations whose dlq entry was lost, by cause

brokerVars == <<queued, dispatched, finished>>
feedVars   == <<feed, published>>
dlqVars    == <<dlqQueue, dlqExec, dlqList, dlqLost>>
storeVars  == <<stations, table, runs>>
vars == <<clock, exec, lastSuccess, faults,
          brokerVars, feedVars, dlqVars, storeVars>>

------------------------------------------------------------------------------
\* One revision per key, 0 for none: the feed, the table, a fetched batch.
Revisions == [Key -> 0..MaxRevision]
Nothing   == [k \in Key |-> 0]
Rows(batch) == {k \in Key : batch[k] > 0}

Attempt   == 0..MaxRetries
Violation == (SUBSET Unmapped) \ {{}}

PC == {"idle", "discover", "register", "fetch", "route",
       "write", "record", "ack", "retried"}

\* One execution of run_source in a process.  held: the broker still tracks
\* the delivery as unacknowledged.  base: the table when the feed was fetched
\* (a history component).
Execution == [pc: PC, attempt: Attempt, held: BOOLEAN, now: 0..MaxClock,
              found: SUBSET Station, cache: SUBSET Station,
              batch: Revisions, base: Revisions]

Idle == [pc |-> "idle", attempt |-> 0, held |-> FALSE, now |-> 0,
         found |-> {}, cache |-> {}, batch |-> Nothing, base |-> Nothing]

Run == [start: 0..MaxClock, known: SUBSET Station,
        violations: SUBSET Unmapped]

\* One execution of dlq_route: before EXEC, or after it and not acknowledged.
NoDlq == [pc |-> "idle", violations |-> {}]
DlqExecution == {NoDlq} \cup [pc: {"persist", "ack"}, violations: Violation]

\* How a dead letter gets lost: LTRIM drops it, the pipeline fails and is
\* logged, or the process is killed before EXEC.
Loss == {"trimmed", "failed", "killed"}

TypeOK ==
    /\ clock \in 1..MaxClock
    /\ queued \in [Attempt -> Nat]
    /\ exec \in [Worker -> Execution]
    /\ feed \in Revisions
    /\ stations \subseteq Station
    /\ table \in Revisions
    /\ dlqQueue \in [Violation -> Nat]
    /\ dlqExec \in [Worker -> DlqExecution]
    /\ dlqList \in Seq(Violation) /\ Len(dlqList) <= DlqCap
    /\ lastSuccess \in 0..MaxClock
    /\ faults \in 0..MaxFaults
    /\ published \in [Key -> 0..MaxClock]
    /\ dispatched \in Nat
    /\ finished \in Nat
    /\ runs \subseteq Run
    /\ dlqLost \in [Loss -> SUBSET Unmapped]

Init ==
    /\ clock = 1
    /\ queued = [n \in Attempt |-> 0]
    /\ exec = [w \in Worker |-> Idle]
    /\ feed = Nothing
    /\ stations = {}
    /\ table = Nothing
    /\ dlqQueue = [v \in Violation |-> 0]
    /\ dlqExec = [w \in Worker |-> NoDlq]
    /\ dlqList = <<>>
    /\ lastSuccess = 0
    /\ faults = 0
    /\ published = Nothing
    /\ dispatched = 0
    /\ finished = 0
    /\ runs = {}
    /\ dlqLost = [l \in Loss |-> {}]

------------------------------------------------------------------------------
(***************************************************************************)
(* The environment: time, the Beat scheduler, the upstream source.         *)
(***************************************************************************)

\* Variant: a half-open window, as date ranges often are.
InHalfOpenWindow(k, now) == now - 2 * Cadence < TimeOf[k] /\ TimeOf[k] <= now

\* FetchWindow [now - 2 * cadence, now], both bounds included.
InWindow(k, now) == now - 2 * Cadence <= TimeOf[k] /\ TimeOf[k] <= now

\* Time passes.  On a cadence boundary the beat fires: not at all while it is
\* down, once, or more often when two schedulers run (the quickstart's "Beat
\* may fire a task twice").
Tick ==
    /\ clock < MaxClock
    /\ clock' = clock + 1
    /\ \E n \in (IF (clock + 1) % Cadence = 0 THEN 0..MaxFire ELSE {0}) :
          /\ queued' = [queued EXCEPT ![0] = @ + n]
          /\ dispatched' = dispatched + n
    /\ UNCHANGED <<exec, lastSuccess, faults, finished, feedVars, dlqVars, storeVars>>

\* The source publishes the observation of slot k, in time or late, or
\* replaces it by a corrected one.
Publish(k) ==
    /\ TimeOf[k] <= clock
    /\ feed[k] < MaxRevision
    /\ feed' = [feed EXCEPT ![k] = @ + 1]
    /\ published' = IF feed[k] = 0 THEN [published EXCEPT ![k] = clock] ELSE published
    /\ UNCHANGED <<clock, exec, lastSuccess, faults, brokerVars, dlqVars, storeVars>>

------------------------------------------------------------------------------
(***************************************************************************)
(* One execution of run_source.  Each step ends where the code awaits an   *)
(* answer of the network, the database, Redis or the broker; the steps of  *)
(* other processes interleave there.                                       *)
(***************************************************************************)

At(w, label) == exec[w].pc = label

\* The container has one pool of processes for all its queues.
Free(w) == exec[w].pc = "idle" /\ dlqExec[w].pc = "idle"

\* A process takes a delivery and computes its window from the current time.
Receive(w, n) ==
    /\ Free(w)
    /\ queued[n] > 0
    /\ queued' = [queued EXCEPT ![n] = @ - 1]
    /\ exec' = [exec EXCEPT ![w] = [Idle EXCEPT !.pc = "discover", !.attempt = n,
                                                !.held = TRUE, !.now = clock]]
    /\ UNCHANGED <<clock, lastSuccess, faults, dispatched, finished,
                   feedVars, dlqVars, storeVars>>

\* discover_stations reads the stations off the realtime feed, which need not
\* carry every station that has ever published; when the feed cannot be fetched
\* it answers [] and the execution goes on.
FeedStations == {StationOf[k] : k \in Rows(feed)}

Discover(w) ==
    /\ At(w, "discover")
    /\ \E found \in SUBSET FeedStations :
          exec' = [exec EXCEPT ![w].pc = "register", ![w].found = found]
    /\ UNCHANGED <<clock, lastSuccess, faults, brokerVars, feedVars, dlqVars, storeVars>>

\* _ensure_metadata: upsert_station, one statement per station found; the row of
\* a known one is only refreshed.
RegisterStation(w, s) ==
    /\ At(w, "register")
    /\ s \in exec[w].found
    /\ stations' = stations \cup {s}
    /\ exec' = [exec EXCEPT ![w].found = @ \ {s}]
    /\ UNCHANGED <<clock, lastSuccess, faults, table, runs,
                   brokerVars, feedVars, dlqVars>>

\* After the last upsert the caches are loaded; they also hold the stations
\* that other executions registered.
LoadCaches(w) ==
    /\ At(w, "register")
    /\ exec[w].found = {}
    /\ exec' = [exec EXCEPT ![w].pc = "fetch", ![w].cache = stations]
    /\ UNCHANGED <<clock, lastSuccess, faults, brokerVars, feedVars, dlqVars, storeVars>>

\* adapter.fetch: the current content of the feed, filtered by a window that
\* was computed when the execution began.
Fetched(now) == [k \in Key |-> IF InWindow(k, now) THEN feed[k] ELSE 0]

Fetch(w) ==
    /\ At(w, "fetch")
    /\ exec' = [exec EXCEPT ![w].pc = "route",
                            ![w].batch = Fetched(exec[w].now), ![w].base = table]
    /\ UNCHANGED <<clock, lastSuccess, faults, brokerVars, feedVars, dlqVars, storeVars>>

\* Schema violations leave for the dlq queue before anything is written.
Violations(w) == Rows(exec[w].batch) \cap Unmapped
NormalRows(w) == Rows(exec[w].batch) \ Unmapped

Route(w) ==
    /\ At(w, "route")
    /\ dlqQueue' = [v \in Violation |->
                       IF v = Violations(w) THEN dlqQueue[v] + 1 ELSE dlqQueue[v]]
    /\ exec' = [exec EXCEPT ![w].pc = "write"]
    /\ UNCHANGED <<clock, lastSuccess, faults, dlqExec, dlqList, dlqLost,
                   brokerVars, feedVars, storeVars>>

\* Variant: no lookup in the stations cache.
StoredAll(w) == NormalRows(w)

\* _write_station_batch skips the rows of a station its cache does not know.
Stored(w) == {k \in NormalRows(w) : StationOf[k] \in exec[w].cache}

\* Variant: the batch replaces the rows of the source.
Replacement(w) == [k \in Key |-> IF k \in Stored(w) THEN exec[w].batch[k] ELSE 0]

\* ON CONFLICT DO UPDATE: the new value wins, whatever the stored one is.
Upsert(w) == [k \in Key |-> IF k \in Stored(w) THEN exec[w].batch[k] ELSE table[k]]

\* Variant: success is recorded for an empty batch, too.
AfterAnyWrite(w) == "record"

\* An empty batch returns before record_success; one whose rows were all
\* skipped does not.
AfterWrite(w) == IF NormalRows(w) = {} THEN "ack" ELSE "record"

\* write_batch: one transaction.
WriteBatch(w) ==
    /\ At(w, "write")
    /\ table' = Upsert(w)
    /\ exec' = [exec EXCEPT ![w].pc = AfterWrite(w)]
    /\ runs' = runs \cup {[start |-> exec[w].now, known |-> exec[w].cache,
                           violations |-> Violations(w)]}
    /\ UNCHANGED <<clock, lastSuccess, faults, stations, brokerVars, feedVars, dlqVars>>

\* record_success stores the time of the call, not that of the data.
RecordSuccess(w) ==
    /\ At(w, "record")
    /\ lastSuccess' = clock
    /\ exec' = [exec EXCEPT ![w].pc = "ack"]
    /\ UNCHANGED <<clock, faults, brokerVars, feedVars, dlqVars, storeVars>>

------------------------------------------------------------------------------
(***************************************************************************)
(* Acknowledgement, retries and redelivery.                                *)
(***************************************************************************)

\* Late acknowledgement: after the execution succeeded, failed for good, or
\* published its retry.  It has no effect on a delivery that was restored.
Ack(w) ==
    /\ exec[w].pc \in {"ack", "retried"}
    /\ finished' = IF At(w, "ack") /\ exec[w].held THEN finished + 1 ELSE finished
    /\ exec' = [exec EXCEPT ![w] = Idle]
    /\ UNCHANGED <<clock, lastSuccess, faults, queued, dispatched,
                   feedVars, dlqVars, storeVars>>

\* Variant: the retry counter is not carried over.
SameAttempt(n) == n

\* A retry is sent with retries + 1.
NextAttempt(n) == n + 1

\* An exception escapes run_source; what it upserted and committed stays.
\* autoretry_for sends the task again until max_retries; a later attempt
\* computes a new window.
Fail(w) ==
    /\ exec[w].pc \in {"discover", "register", "fetch", "route", "write", "record"}
    /\ IF exec[w].attempt < MaxRetries
       THEN /\ queued' = [queued EXCEPT ![NextAttempt(exec[w].attempt)] = @ + 1]
            /\ exec' = [exec EXCEPT ![w].pc = "retried"]
       ELSE /\ queued' = queued
            /\ exec' = [exec EXCEPT ![w].pc = "ack"]
    /\ UNCHANGED <<clock, lastSuccess, faults, dispatched, finished,
                   feedVars, dlqVars, storeVars>>

\* The visibility timeout of the broker expires during an execution: the
\* message is delivered again while the first execution goes on.
VisibilityTimeout(w) ==
    /\ ~At(w, "idle") /\ exec[w].held
    /\ faults < MaxFaults
    /\ faults' = faults + 1
    /\ queued' = [queued EXCEPT ![exec[w].attempt] = @ + 1]
    /\ exec' = [exec EXCEPT ![w].held = FALSE]
    /\ UNCHANGED <<clock, lastSuccess, dispatched, finished, feedVars, dlqVars, storeVars>>

\* Variant: early acknowledgement, nothing is held.
NoDeliveries(n) == {w \in {} : exec[w].attempt = n}

\* Late acknowledgement: what an execution runs is still unacknowledged.
HeldDeliveries(n) == {w \in Worker : exec[w].held /\ exec[w].attempt = n}

\* Variant: early acknowledgement, here too.
NoDlqDeliveries(v) == {w \in {} : dlqExec[w].violations = v}

\* The dlq_route messages of violations v in execution, unacknowledged.
DlqDeliveries(v) == {w \in Worker : dlqExec[w].pc # "idle" /\ dlqExec[w].violations = v}

\* The worker container dies with all its processes.  What they had not
\* acknowledged comes back: a run_source message with the attempt it had, a
\* dlq_route message whether or not its entry was pushed already.
WorkerCrash ==
    /\ \E w \in Worker : ~Free(w)
    /\ faults < MaxFaults
    /\ faults' = faults + 1
    /\ queued' = [n \in Attempt |-> queued[n] + Cardinality(HeldDeliveries(n))]
    /\ exec' = [w \in Worker |-> Idle]
    /\ dlqQueue' = [v \in Violation |-> dlqQueue[v] + Cardinality(DlqDeliveries(v))]
    /\ dlqExec' = [w \in Worker |-> NoDlq]
    /\ UNCHANGED <<clock, lastSuccess, dispatched, finished, dlqList, dlqLost,
                   feedVars, storeVars>>

\* A loss of the violations v, for the cause l.
Lose(l, v) == dlqLost' = [dlqLost EXCEPT ![l] = @ \cup v]

\* One prefork process is killed.  task_reject_on_worker_lost is not set, so
\* the main process reports WorkerLostError and acknowledges the message: the
\* violations of a dlq_route that had not come to EXEC are gone.
ProcessLost(w) ==
    /\ ~Free(w)
    /\ faults < MaxFaults
    /\ faults' = faults + 1
    /\ finished' = IF exec[w].held THEN finished + 1 ELSE finished
    /\ exec' = [exec EXCEPT ![w] = Idle]
    /\ Lose("killed", IF dlqExec[w].pc = "persist" THEN dlqExec[w].violations ELSE {})
    /\ dlqExec' = [dlqExec EXCEPT ![w] = NoDlq]
    /\ UNCHANGED <<clock, lastSuccess, queued, dispatched, dlqQueue, dlqList,
                   feedVars, storeVars>>

------------------------------------------------------------------------------
(***************************************************************************)
(* dlq_route: LPUSH and LTRIM in one MULTI/EXEC pipeline.  Its calls are   *)
(* bounded by a socket timeout of 5 seconds, far less than the visibility  *)
(* timeout of the broker.                                                  *)
(***************************************************************************)
DlqReceive(w, v) ==
    /\ Free(w)
    /\ dlqQueue[v] > 0
    /\ dlqQueue' = [dlqQueue EXCEPT ![v] = @ - 1]
    /\ dlqExec' = [dlqExec EXCEPT ![w] = [pc |-> "persist", violations |-> v]]
    /\ UNCHANGED <<clock, exec, lastSuccess, faults, dlqList, dlqLost,
                   brokerVars, feedVars, storeVars>>

\* Variant: SET instead of LPUSH.
Overwritten(v) == <<v>>

Pushed(v) == <<v>> \o dlqList

\* Variant: no LTRIM.
Untrimmed(s) == s

Trimmed(s) == IF Len(s) > DlqCap THEN SubSeq(s, 1, DlqCap) ELSE s
Listed(s) == UNION {s[i] : i \in DOMAIN s}

\* EXEC: the entry is pushed, what LTRIM drops and no other entry holds is lost.
DlqPersist(w) ==
    /\ dlqExec[w].pc = "persist"
    /\ LET pushed == Pushed(dlqExec[w].violations)
       IN  /\ dlqList' = Trimmed(pushed)
           /\ Lose("trimmed", Listed(pushed) \ Listed(Trimmed(pushed)))
    /\ dlqExec' = [dlqExec EXCEPT ![w].pc = "ack"]
    /\ UNCHANGED <<clock, exec, lastSuccess, faults, dlqQueue,
                   brokerVars, feedVars, storeVars>>

\* The exception of a failed pipeline is caught and logged: the task succeeds.
DlqPersistFailed(w) ==
    /\ dlqExec[w].pc = "persist"
    /\ Lose("failed", dlqExec[w].violations)
    /\ dlqExec' = [dlqExec EXCEPT ![w].pc = "ack"]
    /\ UNCHANGED <<clock, exec, lastSuccess, faults, dlqQueue, dlqList,
                   brokerVars, feedVars, storeVars>>

\* Late acknowledgement, here too.
DlqAck(w) ==
    /\ dlqExec[w].pc = "ack"
    /\ dlqExec' = [dlqExec EXCEPT ![w] = NoDlq]
    /\ UNCHANGED <<clock, exec, lastSuccess, faults, dlqQueue, dlqList, dlqLost,
                   brokerVars, feedVars, storeVars>>

------------------------------------------------------------------------------
\* The steps of an execution that need nothing but the process itself.
Proceed(w) == \/ Discover(w) \/ LoadCaches(w) \/ Fetch(w) \/ Route(w)
              \/ WriteBatch(w) \/ RecordSuccess(w) \/ Ack(w)
              \/ \E s \in Station : RegisterStation(w, s)
              \/ DlqPersist(w) \/ DlqAck(w)

\* A free process takes a message of either queue.
Take(w) == \/ \E n \in Attempt : Receive(w, n)
           \/ \E v \in Violation : DlqReceive(w, v)

Next ==
    \/ Tick
    \/ \E k \in Key : Publish(k)
    \/ \E w \in Worker : \/ \E n \in Attempt : Receive(w, n)
                         \/ Discover(w)
                         \/ \E s \in Station : RegisterStation(w, s)
                         \/ LoadCaches(w)
                         \/ Fetch(w)
                         \/ Route(w)
                         \/ WriteBatch(w)
                         \/ RecordSuccess(w)
                         \/ Ack(w)
                         \/ Fail(w)
                         \/ VisibilityTimeout(w)
                         \/ ProcessLost(w)
                         \/ \E v \in Violation : DlqReceive(w, v)
                         \/ DlqPersist(w)
                         \/ DlqPersistFailed(w)
                         \/ DlqAck(w)
    \/ WorkerCrash

Spec == Init /\ [][Next]_vars

\* A process with a message goes on, assuming that the answers it awaits come
\* or time out, and a free one takes the next message, of whichever queue.  No
\* fairness on time, the source or faults.
Fairness ==
    /\ \A w \in Worker : WF_vars(Proceed(w))
    /\ \A w \in Worker : WF_vars(Take(w))

FairSpec == Spec /\ Fairness

------------------------------------------------------------------------------
(***************************************************************************)
(* Safety.                                                                 *)
(***************************************************************************)

\* A row is in the hypertable only if the source published that revision, its
\* station was registered first (the foreign key) and its code is a known one:
\* neither retries, nor partial failures of _ensure_metadata, nor crashes
\* between its upserts and the COPY of _write_station_batch let another row in.
StoredRowsAreGenuine ==
    \A k \in Rows(table) : /\ table[k] <= feed[k]
                           /\ StationOf[k] \in stations
                           /\ k \notin Unmapped

\* The overlap window keeps its promise: once an execution that began at
\* r.start got through write_batch, every slot of its closed window that was
\* published before it began, of a station it knew, is in the hypertable, and
\* stays there whatever later or older executions do.
CoveredSlotsAreStored ==
    \A r \in runs, k \in Key \ Unmapped :
        /\ TimeOf[k] \in r.start - 2 * Cadence .. r.start
        /\ published[k] \in 1..r.start - 1
        /\ StationOf[k] \in r.known
        => table[k] > 0

\* The metric never runs ahead of the writer: it moves only to the current time
\* and only by an execution that has itself offered rows to write_batch and
\* whose rows are in the hypertable by then, whatever other executions, crashes
\* and retries did between its commit and its record_success.
SuccessFollowsOwnBatch ==
    [][lastSuccess' # lastSuccess =>
          /\ lastSuccess' = clock
          /\ \E w \in Worker : /\ RecordSuccess(w)
                                /\ NormalRows(w) # {}
                                /\ \A k \in Stored(w) : table[k] > 0]_vars

\* Where the violations of a finished write_batch may be: they wait in the dlq
\* queue, are in the hands of a dlq_route, or in the Redis list; or they are lost.
InDlqQueue == UNION {v \in Violation : dlqQueue[v] > 0}
InDlqHands == UNION {dlqExec[w].violations : w \in {x \in Worker : dlqExec[x].pc = "persist"}}

\* D-20: no schema violation that reached a finished write_batch is silently
\* skipped.  Three losses are all there is: the trim, a pipeline whose failure
\* is caught and logged, and a process killed between taking the dlq_route
\* message and EXEC; neither redeliveries nor crashes of the container nor
\* overlapping executions lose one in another way.
ViolationsAreAccountedFor ==
    \A r \in runs :
        r.violations \subseteq InDlqQueue \cup InDlqHands \cup Listed(dlqList)
                              \cup UNION {dlqLost[l] : l \in Loss}

\* The messages in the broker one by one, and the deliveries in hand.
Waiting == UNION {{n} \X (1..queued[n]) : n \in Attempt}
Holding == {w \in Worker : exec[w].held}

\* At-least-once: with late acknowledgement every message beat sent is still
\* queued, held by an execution, or was acknowledged, across retries,
\* redeliveries and crashes.  What a killed process held counts as acknowledged
\* although it did not complete: Celery gives it the outcome WorkerLostError.
MessagesAreNotLost ==
    dispatched <= Cardinality(Waiting) + Cardinality(Holding) + finished

\* The upsert has no guard on age, so an older value can replace a newer one.
\* It happens only through overlap: the execution that writes fetched the feed
\* before the newer value was committed.
OnlyOverlapRegresses ==
    [][\A k \in Key : table'[k] < table[k] =>
          \E w \in Worker : WriteBatch(w) /\ exec[w].base[k] < table[k]]_vars

\* The hypertable is a mirror of the feed, in the sense of SourceMirror.
Mirror == INSTANCE SourceMirror
             WITH feed <- feed, table <- table, Key <- Key, MaxRevision <- MaxRevision
MirrorsSource == Mirror!MirrorSpec

------------------------------------------------------------------------------
(***************************************************************************)
(* Liveness, under FairSpec.                                               *)
(***************************************************************************)

\* Retries end: the broker drains and every process becomes idle again.  An
\* execution that fails each time is retried MaxRetries times and given up.
Quiet == /\ \A n \in Attempt : queued[n] = 0
         /\ \A w \in Worker : Free(w)
         /\ \A v \in Violation : dlqQueue[v] = 0
Drains == []<>Quiet
=============================================================================
