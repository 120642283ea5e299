------------------------------ MODULE Heartbeat ------------------------------
(***************************************************************************)
(* The worker's heartbeat: a Redis key with a TTL, written when the worker *)
(* is ready and renewed by the task heartbeat_tick, which beat sends every *)
(* 30 seconds to the ingest queue, behind and among run_source messages    *)
(* whose executions have no time limit.  A SETEX that fails is only        *)
(* logged, both times.  Redis persists its data (appendonly).              *)
(*                                                                         *)
(* An instant of the clock is one interval of beat.                        *)
(***************************************************************************)
EXTENDS Integers, FiniteSets

CONSTANTS
    Concurrency,    \* prefork processes of the worker (-c)
    Ttl,            \* HEARTBEAT_TTL, in intervals
    MaxClock,       \* bound: the last instant
    MaxOutages      \* bound: how often a service goes down or a tick is lost

ASSUME HeartbeatAssumption ==
    /\ Concurrency \in Nat \ {0}
    /\ Ttl \in Nat \ {0}
    /\ MaxClock \in Nat
    /\ MaxOutages \in Nat

Service == {"db", "redis", "worker"}

VARIABLES
    clock,
    up,         \* the services that respond
    busy,       \* processes that execute run_source
    ticks,      \* heartbeat_tick messages in the queue
    expiry,     \* when celery:worker:heartbeat expires, 0 if never set
    outages     \* how often a service went down or a tick was lost

\* History: died is the instant the worker was last seen, if it is down;
\* hindered says that something stood in the way of the heartbeat during the
\* current interval, and spell counts the intervals before it, up to Ttl, in
\* which something did without a break.
VARIABLES died, hindered, spell

heartbeatVars == <<clock, up, busy, ticks, expiry, outages, died, hindered, spell>>

HeartbeatTypeOK ==
    /\ clock \in 0..MaxClock
    /\ up \subseteq Service
    /\ busy \in 0..Concurrency /\ ("worker" \notin up => busy = 0)
    /\ ticks \in 0..clock
    /\ expiry \in 0..MaxClock + Ttl
    /\ outages \in 0..MaxOutages
    /\ died \in -Ttl..MaxClock
    /\ hindered \in BOOLEAN
    /\ spell \in 0..Ttl

\* The containers start in the order of compose.yaml: the worker comes last.
HeartbeatInit ==
    /\ clock = 0
    /\ up = {"db", "redis"}
    /\ busy = 0 /\ ticks = 0 /\ expiry = 0 /\ outages = 0
    /\ died = -Ttl
    /\ hindered = TRUE
    /\ spell = 0

KeyPresent == clock < expiry

\* Variant: no limit on the processes.
AnyProcess == "worker" \in up

FreeProcess == "worker" \in up /\ busy < Concurrency

\* What keeps the key from being renewed: every process is busy, the worker or
\* Redis is down.
Obstacle == ~FreeProcess \/ "redis" \notin up

Observe == hindered' = (hindered \/ Obstacle') /\ UNCHANGED spell

\* Variant: a TTL of two intervals.
TwoIntervals == clock + 2

\* SETEX celery:worker:heartbeat 120.
ExpiryFromNow == clock + Ttl

\* set_heartbeat_sync; the caller swallows the exception.
SetHeartbeat == expiry' = IF "redis" \in up THEN ExpiryFromNow ELSE expiry

------------------------------------------------------------------------------
\* An interval passes.  Beat sends the next heartbeat_tick, or is down and does
\* not.  A process that is free takes a message much sooner than in 30 seconds.
HeartbeatInterval ==
    /\ clock < MaxClock
    /\ ~(ticks > 0 /\ FreeProcess)
    /\ clock' = clock + 1
    /\ spell' = IF ~hindered THEN 0 ELSE IF spell < Ttl THEN spell + 1 ELSE spell
    /\ \/ ticks' = ticks + 1 /\ hindered' = Obstacle
       \/ ticks' = ticks /\ hindered' = TRUE
    /\ UNCHANGED <<up, busy, expiry, outages, died>>

\* A free process takes a run_source message, and finishes with it some time.
TakeRun ==
    /\ FreeProcess
    /\ busy' = busy + 1
    /\ UNCHANGED <<clock, up, ticks, expiry, outages, died>>
    /\ Observe

FinishRun ==
    /\ busy > 0
    /\ busy' = busy - 1
    /\ UNCHANGED <<clock, up, ticks, expiry, outages, died>>
    /\ Observe

\* heartbeat_tick in a free process.
HeartbeatTick ==
    /\ ticks > 0
    /\ FreeProcess
    /\ ticks' = ticks - 1
    /\ SetHeartbeat
    /\ UNCHANGED <<clock, up, busy, outages, died>>
    /\ Observe

\* A process is lost in heartbeat_tick before its SETEX; Celery acknowledges the
\* message, and the worker starts another process.
TickLost ==
    /\ ticks > 0
    /\ FreeProcess
    /\ outages < MaxOutages
    /\ ticks' = ticks - 1
    /\ outages' = outages + 1
    /\ hindered' = TRUE
    /\ UNCHANGED <<clock, up, busy, expiry, died, spell>>

\* The worker comes up, and worker_ready writes the key.
WorkerReady ==
    /\ "worker" \notin up
    /\ up' = up \cup {"worker"}
    /\ SetHeartbeat
    /\ UNCHANGED <<clock, busy, ticks, outages, died>>
    /\ Observe

\* The worker dies, with whatever it executes.
WorkerDies ==
    /\ "worker" \in up
    /\ outages < MaxOutages
    /\ up' = up \ {"worker"}
    /\ busy' = 0
    /\ died' = clock
    /\ outages' = outages + 1
    /\ UNCHANGED <<clock, ticks, expiry>>
    /\ Observe

\* Redis or the database stops answering, and comes back.
Fails(s) ==
    /\ s \in up \ {"worker"}
    /\ outages < MaxOutages
    /\ up' = up \ {s}
    /\ outages' = outages + 1
    /\ UNCHANGED <<clock, busy, ticks, expiry, died>>
    /\ Observe

Recovers(s) ==
    /\ s \in Service \ (up \cup {"worker"})
    /\ up' = up \cup {s}
    /\ UNCHANGED <<clock, busy, ticks, expiry, outages, died>>
    /\ Observe

HeartbeatNext ==
    \/ HeartbeatInterval \/ TakeRun \/ FinishRun \/ HeartbeatTick
    \/ TickLost \/ WorkerReady \/ WorkerDies
    \/ \E s \in Service : Fails(s) \/ Recovers(s)

HeartbeatSpec == HeartbeatInit /\ [][HeartbeatNext]_heartbeatVars

------------------------------------------------------------------------------
\* heartbeat.py, "for resilience to one missed refresh": once the worker has
\* written the key, /readyz misses it only after a TTL less one interval (three
\* of 30 seconds), one after the other, in each of which beat was silent, Redis or
\* the worker down, every process busy, or one lost with a tick in hand.
AbsentKeyMeansTrouble == expiry > 0 /\ ~KeyPresent => spell >= Ttl - 1
=============================================================================
