------------------------------ MODULE Readiness ------------------------------
(***************************************************************************)
(* GET /readyz of the API, on top of the heartbeat.  A probe runs three    *)
(* checks at once and answers when all of them are over.  The check of the *)
(* database takes a connection from a pool of limited size; waiting for it *)
(* is outside of the check's timeout of two seconds.                       *)
(*                                                                         *)
(* The pool is asyncpg's: a connection whose statement was given up goes   *)
(* back only after the server confirmed the cancellation.                  *)
(***************************************************************************)
EXTENDS Heartbeat, Sequences

CONSTANTS
    Probe,      \* requests to /readyz that run at the same time
    PoolSize    \* max_size of the pool

ASSUME ReadinessAssumption ==
    /\ IsFiniteSet(Probe)
    /\ PoolSize \in Nat \ {0}

VARIABLES
    probe,      \* probe[p]: the checks of probe p, and what speaks for them
    waiters     \* the probes that wait for a connection, in their order

vars == <<heartbeatVars, probe, waiters>>

\* The check of the database waits for a connection ("wait"), opens a new one
\* ("connect"), executes SELECT 1 ("query"), gave it up and waits for the
\* cancellation ("cancel"), or is over.
DbCheck == {"wait", "connect", "query", "cancel", "over"}

\* asked: the other checks that run.  failed: a check raised an exception.
\* evidence is a history component, of use while none did: the services that
\* were up at some moment of the probe's life; the worker also if it was up less
\* than a TTL before it.
Idle   == [pc |-> "idle", db |-> "over", asked |-> {}, failed |-> FALSE, evidence |-> {}]
Asking == [pc: {"idle", "checking"}, db: DbCheck, asked: SUBSET {"redis", "celery"},
           failed: BOOLEAN, evidence: SUBSET Service]

ReadinessTypeOK ==
    /\ HeartbeatTypeOK
    /\ probe \in [Probe -> Asking]
    /\ waiters \in Seq(Probe)

Init ==
    /\ HeartbeatInit
    /\ probe = [p \in Probe |-> Idle]
    /\ waiters = <<>>

Checking(p) == probe[p].pc = "checking"

\* Probes that have a connection of the pool.
Holding == {p \in Probe : probe[p].db \in {"connect", "query", "cancel"}}

------------------------------------------------------------------------------
LastAlive == IF "worker" \in up THEN clock ELSE died

Evidence == (up \ {"worker"})
            \cup (IF LastAlive > clock - Ttl THEN {"worker"} ELSE {})

Begin(p) ==
    /\ ~Checking(p)
    /\ probe' = [probe EXCEPT ![p] =
          [pc |-> "checking", db |-> "wait", asked |-> {"redis", "celery"},
           failed |-> FALSE, evidence |-> Evidence]]
    /\ waiters' = Append(waiters, p)
    /\ UNCHANGED heartbeatVars

Set(p, checks) == /\ probe' = [probe EXCEPT ![p] = checks]
                  /\ UNCHANGED <<heartbeatVars, waiters>>

\* Variant: the exception of a check is swallowed.
Swallowed(checks) == checks

\* The exception is gathered, and the probe will answer 503.
Failed(checks) == [checks EXCEPT !.failed = TRUE, !.evidence = {}]

DbAt(p, label) == probe[p].db = label
DbGoes(p, label) == [probe[p] EXCEPT !.db = label]

\* pool.acquire(): an idle connection, or a free place for a new one, goes to
\* the coroutine that has waited longest.
Acquire(p) ==
    /\ waiters # <<>> /\ p = Head(waiters)
    /\ Cardinality(Holding) < PoolSize
    /\ waiters' = Tail(waiters)
    /\ \E label \in {"query", "connect"} :
          probe' = [probe EXCEPT ![p] = DbGoes(p, label)]
    /\ UNCHANGED heartbeatVars

\* The new connection is open, or cannot be opened: acquire raises.
Connect(p) ==
    /\ DbAt(p, "connect")
    /\ Set(p, IF "db" \in up THEN DbGoes(p, "query") ELSE Failed(DbGoes(p, "over")))

\* SELECT 1 succeeds, and the connection goes back to the pool.
Selected(p) == DbAt(p, "query") /\ "db" \in up /\ Set(p, DbGoes(p, "over"))

\* The connection breaks, and leaves the pool.
Broken(p) == DbAt(p, "query") /\ "db" \notin up /\ Set(p, Failed(DbGoes(p, "over")))

\* Two seconds without an answer: wait_for cancels the statement.
TimedOut(p) == DbAt(p, "query") /\ "db" \notin up /\ Set(p, Failed(DbGoes(p, "cancel")))

\* Variant: a connection whose statement timed out is never released.
LeakConnection(p) == FALSE /\ Set(p, DbGoes(p, "over"))

\* The cancellation is confirmed, and the connection released.
Released(p) == DbAt(p, "cancel") /\ "db" \in up /\ Set(p, DbGoes(p, "over"))

Answers(check) == "redis" \in up /\ (check = "celery" => KeyPresent)

\* PING, and GET celery:worker:heartbeat.
CheckRedis(p, check) ==
    /\ check \in probe[p].asked
    /\ LET rest == [probe[p] EXCEPT !.asked = @ \ {check}]
       IN Set(p, IF Answers(check) THEN rest ELSE Failed(rest))

\* gather returns when the three checks are over.
Gathered(p) == Checking(p) /\ DbAt(p, "over") /\ probe[p].asked = {}

AnswerReady(p) == Gathered(p) /\ ~probe[p].failed /\ Set(p, Idle)

\* 503, with the checks that failed.
AnswerUnavailable(p) == Gathered(p) /\ probe[p].failed /\ Set(p, Idle)

ProbeStep(p) ==
    \/ Acquire(p) \/ Connect(p) \/ Selected(p) \/ Broken(p) \/ TimedOut(p) \/ Released(p)
    \/ \E check \in {"redis", "celery"} : CheckRedis(p, check)
    \/ AnswerReady(p) \/ AnswerUnavailable(p)

\* A service that comes up speaks for the probes that run.
NoteRecovery ==
    probe' = [p \in Probe |-> IF Checking(p) /\ ~probe[p].failed
                              THEN [probe[p] EXCEPT !.evidence = @ \cup up']
                              ELSE probe[p]]

\* An interval does not pass while a check runs that ends after two seconds.
Patient(p) == ~DbAt(p, "query") /\ probe[p].asked = {}

Next ==
    \/ /\ HeartbeatInterval
       /\ \A p \in Probe : Patient(p)
       /\ UNCHANGED <<probe, waiters>>
    \/ /\ TakeRun \/ FinishRun \/ HeartbeatTick \/ TickLost
       /\ UNCHANGED <<probe, waiters>>
    \/ /\ WorkerDies \/ \E s \in Service : Fails(s)
       /\ UNCHANGED <<probe, waiters>>
    \/ /\ WorkerReady \/ \E s \in Service : Recovers(s)
       /\ NoteRecovery /\ UNCHANGED waiters
    \/ \E p \in Probe : Begin(p) \/ ProbeStep(p)

Spec == Init /\ [][Next]_vars

\* The event loop runs what can run.
FairSpec == Spec /\ \A p \in Probe : WF_vars(ProbeStep(p))

------------------------------------------------------------------------------
\* 200 {"status":"ready"} is given only if the database and Redis responded at
\* some moment between the request and the answer and the worker was alive then
\* or less than the TTL of its key before, however long the probe waited for a
\* connection and whatever failed and recovered in the meantime.
ReadyIsHonest ==
    [][\A p \in Probe : AnswerReady(p) => probe[p].evidence = Service]_vars

\* A database that hangs makes probes pile up behind the pool, since neither the
\* wait for a connection nor its release has a timeout; but once it responds
\* for good, each of them is answered.
ProbesAreAnswered ==
    <>[]("db" \in up) => \A p \in Probe : [](Checking(p) => <>~Checking(p))
=============================================================================
