--------------------------- MODULE ReadinessProofs ---------------------------
(***************************************************************************)
(* Proofs about Heartbeat and Readiness, for any TTL, any number of        *)
(* processes, any set of probes, any size of the pool and any number of    *)
(* outages.                                                                *)
(***************************************************************************)
EXTENDS Readiness, TLAPS

(***************************************************************************)
(* The heartbeat.                                                          *)
(***************************************************************************)

\* Nothing stands in the way of an interval that is not hindered.
UnhinderedIsFree == ~hindered => ~Obstacle

\* In such an interval the key is as fresh as can be, or a tick is on its way.
UnhinderedIsFresh == expiry > 0 /\ ~hindered => ticks > 0 \/ expiry = clock + Ttl

\* The age of the key is at most one interval more than the spell.
AgeIsInSpell ==
    expiry > 0 => /\ expiry <= clock + Ttl
                  /\ clock + Ttl - expiry <= spell + 1 \/ spell = Ttl

HInv == HeartbeatTypeOK /\ UnhinderedIsFree /\ UnhinderedIsFresh /\ AgeIsInSpell

LEMMA TypeInit == HeartbeatInit => HeartbeatTypeOK
  BY HeartbeatAssumption DEF HeartbeatInit, HeartbeatTypeOK, Service

\* SETEX leaves an instant in the key.
LEMMA SetHeartbeatType ==
    HeartbeatTypeOK /\ SetHeartbeat => expiry' \in 0..MaxClock + Ttl
  BY HeartbeatAssumption DEF HeartbeatTypeOK, SetHeartbeat, ExpiryFromNow

LEMMA IntervalType == HeartbeatTypeOK /\ HeartbeatInterval => HeartbeatTypeOK'
<1> SUFFICES ASSUME HeartbeatTypeOK, HeartbeatInterval PROVE HeartbeatTypeOK'
  OBVIOUS
<1>1. clock' \in 0..MaxClock
  BY HeartbeatAssumption DEF HeartbeatTypeOK, HeartbeatInterval
<1>2. spell' \in 0..Ttl
  BY HeartbeatAssumption DEF HeartbeatTypeOK, HeartbeatInterval
<1>3. hindered' \in BOOLEAN
  BY DEF HeartbeatTypeOK, HeartbeatInterval, Obstacle, FreeProcess
<1>4. ticks' \in 0..clock'
  BY HeartbeatAssumption DEF HeartbeatTypeOK, HeartbeatInterval
<1> QED BY <1>1, <1>2, <1>3, <1>4 DEF HeartbeatTypeOK, HeartbeatInterval

\* A step of the worker or a service, within an interval.
LEMMA ObservedType ==
    ASSUME HeartbeatTypeOK, Observe, UNCHANGED clock,
           up' \subseteq Service,
           busy' \in 0..Concurrency, "worker" \notin up' => busy' = 0,
           ticks' \in 0..clock, expiry' \in 0..MaxClock + Ttl,
           outages' \in 0..MaxOutages, died' \in -Ttl..MaxClock
    PROVE  HeartbeatTypeOK'
<1>1. hindered' \in BOOLEAN
  BY DEF HeartbeatTypeOK, Observe, Obstacle, FreeProcess
<1> QED BY <1>1 DEF HeartbeatTypeOK, Observe

\* Every step keeps the types.
LEMMA TypeStep == HeartbeatTypeOK /\ [HeartbeatNext]_heartbeatVars => HeartbeatTypeOK'
<1> SUFFICES ASSUME HeartbeatTypeOK, [HeartbeatNext]_heartbeatVars
             PROVE  HeartbeatTypeOK'
  OBVIOUS
<1> USE HeartbeatAssumption
<1>1. CASE HeartbeatInterval
  BY <1>1, IntervalType
<1>2. CASE TakeRun
  <2>1. busy' \in 0..Concurrency /\ "worker" \in up'
    BY <1>2 DEF HeartbeatTypeOK, TakeRun, FreeProcess
  <2> QED BY <1>2, <2>1, ObservedType DEF HeartbeatTypeOK, TakeRun
<1>3. CASE FinishRun
  <2>1. busy' \in 0..Concurrency /\ ("worker" \notin up' => busy' = 0)
    BY <1>3 DEF HeartbeatTypeOK, FinishRun
  <2> QED BY <1>3, <2>1, ObservedType DEF HeartbeatTypeOK, FinishRun
<1>4. CASE HeartbeatTick
  <2>1. ticks' \in 0..clock
    BY <1>4 DEF HeartbeatTypeOK, HeartbeatTick
  <2> QED BY <1>4, <2>1, SetHeartbeatType, ObservedType DEF HeartbeatTypeOK, HeartbeatTick
<1>5. CASE WorkerReady
  <2>1. up' \subseteq Service
    BY <1>5 DEF HeartbeatTypeOK, WorkerReady, Service
  <2>2. "worker" \in up'
    BY <1>5 DEF WorkerReady
  <2> QED BY <1>5, <2>1, <2>2, SetHeartbeatType, ObservedType DEF HeartbeatTypeOK, WorkerReady
<1>6. CASE WorkerDies
  <2>1. outages' \in 0..MaxOutages /\ died' \in -Ttl..MaxClock /\ busy' \in 0..Concurrency
    BY <1>6 DEF HeartbeatTypeOK, WorkerDies
  <2>2. up' \subseteq Service
    BY <1>6 DEF HeartbeatTypeOK, WorkerDies
  <2> QED BY <1>6, <2>1, <2>2, ObservedType DEF HeartbeatTypeOK, WorkerDies
<1>7. ASSUME NEW s \in Service, Fails(s) PROVE HeartbeatTypeOK'
  <2>1. outages' \in 0..MaxOutages
    BY <1>7 DEF HeartbeatTypeOK, Fails
  <2>2. up' \subseteq Service /\ ("worker" \notin up' => busy' = 0)
    BY <1>7 DEF HeartbeatTypeOK, Fails
  <2> QED BY <1>7, <2>1, <2>2, ObservedType DEF HeartbeatTypeOK, Fails
<1>8. ASSUME NEW s \in Service, Recovers(s) PROVE HeartbeatTypeOK'
  <2>1. up' \subseteq Service /\ ("worker" \notin up' => busy' = 0)
    BY <1>8 DEF HeartbeatTypeOK, Recovers
  <2> QED BY <1>8, <2>1, ObservedType DEF HeartbeatTypeOK, Recovers
<1>9. CASE TickLost
  <2>1. ticks' \in 0..clock /\ outages' \in 0..MaxOutages
    BY <1>9 DEF HeartbeatTypeOK, TickLost
  <2> QED BY <1>9, <2>1 DEF HeartbeatTypeOK, TickLost
<1>10. CASE UNCHANGED heartbeatVars
  BY <1>10 DEF HeartbeatTypeOK, heartbeatVars
<1> QED BY <1>1, <1>2, <1>3, <1>4, <1>5, <1>6, <1>7, <1>8, <1>9, <1>10 DEF HeartbeatNext

------------------------------------------------------------------------------
\* A step that leaves time, key and ticks alone keeps the rest of the invariant.
LEMMA AsidePreserves ==
    HInv /\ Observe /\ UNCHANGED <<clock, expiry, ticks>>
      => UnhinderedIsFree' /\ UnhinderedIsFresh' /\ AgeIsInSpell'
  BY DEF HInv, Observe, UnhinderedIsFree, UnhinderedIsFresh, AgeIsInSpell

\* So does a SETEX, if it succeeds or its failure is remembered.
LEMMA SetPreserves ==
    /\ HInv /\ Observe /\ SetHeartbeat /\ UNCHANGED clock
    /\ hindered' \/ "redis" \in up
    => UnhinderedIsFree' /\ UnhinderedIsFresh' /\ AgeIsInSpell'
<1> SUFFICES ASSUME HInv, Observe, SetHeartbeat, UNCHANGED clock,
                    hindered' \/ "redis" \in up
             PROVE  UnhinderedIsFree' /\ UnhinderedIsFresh' /\ AgeIsInSpell'
  OBVIOUS
<1>1. clock \in Nat /\ Ttl \in Nat /\ spell \in Nat /\ expiry \in Nat
  BY HeartbeatAssumption DEF HInv, HeartbeatTypeOK
<1>2. CASE "redis" \in up
  <2>1. expiry' = clock' + Ttl
    BY <1>2 DEF SetHeartbeat, ExpiryFromNow
  <2>2. UnhinderedIsFree'
    BY DEF Observe, UnhinderedIsFree
  <2>3. UnhinderedIsFresh'
    BY <2>1 DEF UnhinderedIsFresh
  <2>4. AgeIsInSpell'
    BY <1>1, <2>1 DEF Observe, AgeIsInSpell
  <2> QED BY <2>2, <2>3, <2>4
<1>3. CASE "redis" \notin up
  <2>1. expiry' = expiry /\ hindered'
    BY <1>3 DEF SetHeartbeat
  <2> QED BY <1>1, <2>1 DEF HInv, Observe, UnhinderedIsFree, UnhinderedIsFresh, AgeIsInSpell
<1> QED BY <1>2, <1>3

\* An interval that was not hindered began and ends with the freshest key, since
\* a tick does not wait for a process that is free.
LEMMA IntervalPreserves ==
    HInv /\ HeartbeatInterval => UnhinderedIsFree' /\ UnhinderedIsFresh' /\ AgeIsInSpell'
<1> SUFFICES ASSUME HInv, HeartbeatInterval
             PROVE  UnhinderedIsFree' /\ UnhinderedIsFresh' /\ AgeIsInSpell'
  OBVIOUS
<1>1. clock \in Nat /\ Ttl \in Nat /\ spell \in 0..Ttl /\ expiry \in Nat /\ ticks \in Nat
  BY HeartbeatAssumption DEF HInv, HeartbeatTypeOK
<1>2. clock' = clock + 1 /\ expiry' = expiry
  BY DEF HeartbeatInterval
<1>3. UnhinderedIsFree'
  BY DEF HeartbeatInterval, UnhinderedIsFree, Obstacle, FreeProcess
<1>4. UnhinderedIsFresh'
  <2>1. hindered' \/ ticks' > 0
    BY <1>1 DEF HeartbeatInterval
  <2> QED BY <2>1 DEF UnhinderedIsFresh
<1>5. AgeIsInSpell'
  <2>1. CASE hindered
    <3>1. spell' = IF spell < Ttl THEN spell + 1 ELSE spell
      BY <2>1 DEF HeartbeatInterval
    <3>2. expiry > 0 => expiry <= clock + Ttl /\ (clock + Ttl - expiry <= spell + 1 \/ spell = Ttl)
      BY DEF HInv, AgeIsInSpell
    <3> QED BY <1>1, <1>2, <3>1, <3>2 DEF AgeIsInSpell
  <2>2. CASE ~hindered
    <3>1. ~(ticks > 0)
      BY <2>2 DEF HInv, UnhinderedIsFree, Obstacle, HeartbeatInterval
    <3>2. expiry > 0 => expiry = clock + Ttl
      BY <2>2, <3>1 DEF HInv, UnhinderedIsFresh
    <3>3. spell' = 0
      BY <2>2 DEF HeartbeatInterval
    <3> QED BY <1>1, <1>2, <3>2, <3>3 DEF AgeIsInSpell
  <2> QED BY <2>1, <2>2
<1> QED BY <1>3, <1>4, <1>5

\* Every step keeps the invariant.
LEMMA HInvStep == HInv /\ [HeartbeatNext]_heartbeatVars => HInv'
<1> SUFFICES ASSUME HInv, [HeartbeatNext]_heartbeatVars
             PROVE  UnhinderedIsFree' /\ UnhinderedIsFresh' /\ AgeIsInSpell'
  BY TypeStep DEF HInv
<1>1. CASE HeartbeatInterval
  BY <1>1, IntervalPreserves
<1>2. CASE TakeRun
  BY <1>2, AsidePreserves DEF TakeRun
<1>3. CASE FinishRun
  BY <1>3, AsidePreserves DEF FinishRun
<1>4. CASE HeartbeatTick
  <2>1. hindered' \/ "redis" \in up
    BY <1>4 DEF HeartbeatTick, Observe, Obstacle
  <2> QED BY <1>4, <2>1, SetPreserves DEF HeartbeatTick
<1>5. CASE WorkerReady
  <2>1. hindered
    BY <1>5 DEF WorkerReady, HInv, UnhinderedIsFree, Obstacle, FreeProcess
  <2>2. hindered'
    BY <1>5, <2>1 DEF WorkerReady, Observe
  <2> QED BY <1>5, <2>2, SetPreserves DEF WorkerReady
<1>6. CASE WorkerDies
  BY <1>6, AsidePreserves DEF WorkerDies
<1>7. ASSUME NEW s \in Service, Fails(s) \/ Recovers(s)
      PROVE  UnhinderedIsFree' /\ UnhinderedIsFresh' /\ AgeIsInSpell'
  BY <1>7, AsidePreserves DEF Fails, Recovers
<1>8. CASE UNCHANGED heartbeatVars
  BY <1>8 DEF HInv, heartbeatVars, UnhinderedIsFree, UnhinderedIsFresh, AgeIsInSpell,
              Obstacle, FreeProcess
<1>9. CASE TickLost
  BY <1>9 DEF TickLost, HInv, UnhinderedIsFree, UnhinderedIsFresh, AgeIsInSpell
<1> QED BY <1>1, <1>2, <1>3, <1>4, <1>5, <1>6, <1>7, <1>8, <1>9 DEF HeartbeatNext

\* The invariant holds at first: the key was never set.
LEMMA HInvInit == HeartbeatInit => HInv
  BY TypeInit DEF HeartbeatInit, HInv, UnhinderedIsFree, UnhinderedIsFresh, AgeIsInSpell

LEMMA HInvIsSafe == HInv => AbsentKeyMeansTrouble
<1> SUFFICES ASSUME HInv, expiry > 0, ~KeyPresent PROVE spell >= Ttl - 1
  BY DEF AbsentKeyMeansTrouble
<1>1. clock \in Nat /\ Ttl \in Nat /\ spell \in Nat /\ expiry \in Nat
  BY HeartbeatAssumption DEF HInv, HeartbeatTypeOK
<1> QED BY <1>1 DEF HInv, AgeIsInSpell, KeyPresent

------------------------------------------------------------------------------
\* Every variable of the heartbeat keeps its type.
THEOREM HeartbeatTypeCorrect == HeartbeatSpec => []HeartbeatTypeOK
<1>1. HeartbeatSpec => []HInv
  BY HInvInit, HInvStep, PTL DEF HeartbeatSpec
<1>2. HInv => HeartbeatTypeOK
  BY DEF HInv
<1> QED BY <1>1, <1>2, PTL

\* The key of a worker is missed only after a TTL less one interval in each of
\* whose intervals something stood in the way of the heartbeat.
THEOREM AbsenceIsTrouble == HeartbeatSpec => []AbsentKeyMeansTrouble
<1>1. HeartbeatSpec => []HInv
  BY HInvInit, HInvStep, PTL DEF HeartbeatSpec
<1> QED BY <1>1, HInvIsSafe, PTL

------------------------------------------------------------------------------
(***************************************************************************)
(* The probes.                                                             *)
(***************************************************************************)

\* A step of Readiness is one of the heartbeat, or of a probe, which leaves the
\* heartbeat alone.
LEMMA HeartbeatStep == Next => HeartbeatNext \/ UNCHANGED heartbeatVars
<1> SUFFICES ASSUME Next PROVE HeartbeatNext \/ UNCHANGED heartbeatVars
  OBVIOUS
<1>1. CASE HeartbeatInterval \/ TakeRun \/ FinishRun \/ HeartbeatTick \/ TickLost
           \/ WorkerReady \/ WorkerDies \/ \E s \in Service : Fails(s) \/ Recovers(s)
  BY <1>1, Zenon DEF HeartbeatNext
<1>2. ASSUME NEW p \in Probe, Begin(p) \/ ProbeStep(p) PROVE UNCHANGED heartbeatVars
  BY <1>2, Zenon DEF Begin, ProbeStep, Acquire, Connect, Selected, Broken, TimedOut,
     Released, CheckRedis, AnswerReady, AnswerUnavailable, Set
<1> QED BY <1>1, <1>2, Zenon DEF Next

\* Readiness implements Heartbeat.
THEOREM ImplementsHeartbeat == Spec => HeartbeatSpec
<1>1. Init => HeartbeatInit
  BY DEF Init
<1>2. [Next]_vars => [HeartbeatNext]_heartbeatVars
  BY HeartbeatStep, Zenon DEF vars
<1> QED BY <1>1, <1>2, PTL DEF Spec, HeartbeatSpec

\* /readyz misses the key only after trouble, whatever the probes do.
THEOREM AbsenceIsTroubleForProbes == Spec => []AbsentKeyMeansTrouble
  BY ImplementsHeartbeat, AbsenceIsTrouble, PTL

------------------------------------------------------------------------------
\* Types.
LEMMA IdleType == Idle \in Asking
  BY DEF Idle, Asking, DbCheck

LEMMA DbGoesType ==
    ASSUME ReadinessTypeOK, NEW p \in Probe, NEW label \in DbCheck
    PROVE  DbGoes(p, label) \in Asking
<1>1. probe[p] \in Asking
  BY DEF ReadinessTypeOK
<1> QED BY <1>1 DEF DbGoes, Asking

LEMMA FailedType ==
    ASSUME NEW checks \in Asking
    PROVE  Failed(checks) \in Asking
  BY DEF Failed, Asking

LEMMA SetType ==
    ASSUME ReadinessTypeOK, NEW p \in Probe, NEW checks \in Asking, Set(p, checks)
    PROVE  probe' \in [Probe -> Asking] /\ waiters' = waiters
  BY DEF ReadinessTypeOK, Set

LEMMA EvidenceType == HeartbeatTypeOK => Evidence \subseteq Service
  BY DEF HeartbeatTypeOK, Evidence, Service

\* A step of a probe keeps the types of probes and queue.
LEMMA ProbeStepType ==
    ASSUME ReadinessTypeOK, NEW p \in Probe, Begin(p) \/ ProbeStep(p)
    PROVE  probe' \in [Probe -> Asking] /\ waiters' \in Seq(Probe)
<1>0. probe[p] \in Asking /\ waiters \in Seq(Probe)
  BY DEF ReadinessTypeOK
<1>1. CASE Begin(p)
  <2>1. [pc |-> "checking", db |-> "wait", asked |-> {"redis", "celery"},
         failed |-> FALSE, evidence |-> Evidence] \in Asking
    BY EvidenceType DEF ReadinessTypeOK, Asking, DbCheck
  <2>2. waiters' \in Seq(Probe)
    BY <1>0, <1>1 DEF Begin
  <2> QED BY <1>1, <2>1, <2>2 DEF Begin, ReadinessTypeOK
<1>2. CASE Acquire(p)
  <2>1. waiters' \in Seq(Probe)
    BY <1>0, <1>2 DEF Acquire
  <2>2. PICK label \in {"query", "connect"} : probe' = [probe EXCEPT ![p] = DbGoes(p, label)]
    BY <1>2 DEF Acquire
  <2>3. DbGoes(p, label) \in Asking
    BY <2>2, DbGoesType DEF DbCheck
  <2> QED BY <2>1, <2>2, <2>3 DEF ReadinessTypeOK
<1>3. ASSUME NEW checks \in Asking, Set(p, checks)
      PROVE  probe' \in [Probe -> Asking] /\ waiters' \in Seq(Probe)
  BY <1>0, <1>3, SetType
<1>4. /\ DbGoes(p, "query") \in Asking
      /\ DbGoes(p, "cancel") \in Asking
      /\ DbGoes(p, "over") \in Asking
  BY DbGoesType DEF DbCheck
<1>5. CASE Connect(p)
  BY <1>3, <1>4, <1>5, FailedType DEF Connect
<1>6. CASE Selected(p) \/ Broken(p) \/ TimedOut(p) \/ Released(p)
  BY <1>3, <1>4, <1>6, FailedType DEF Selected, Broken, TimedOut, Released
<1>7. ASSUME NEW check \in {"redis", "celery"}, CheckRedis(p, check)
      PROVE  probe' \in [Probe -> Asking] /\ waiters' \in Seq(Probe)
  <2>1. [probe[p] EXCEPT !.asked = @ \ {check}] \in Asking
    BY <1>0 DEF Asking
  <2> QED BY <1>3, <1>7, <2>1, FailedType DEF CheckRedis
<1>8. CASE AnswerReady(p) \/ AnswerUnavailable(p)
  BY <1>3, <1>8, IdleType DEF AnswerReady, AnswerUnavailable
<1> QED BY <1>1, <1>2, <1>5, <1>6, <1>7, <1>8 DEF ProbeStep

LEMMA ReadinessTypeInit == Init => ReadinessTypeOK
<1> SUFFICES ASSUME Init PROVE ReadinessTypeOK
  OBVIOUS
<1>1. probe \in [Probe -> Asking]
  BY IdleType DEF Init
<1>2. waiters \in Seq(Probe)
  BY DEF Init
<1> QED BY <1>1, <1>2, TypeInit DEF Init, ReadinessTypeOK

LEMMA ReadinessTypeStep == ReadinessTypeOK /\ [Next]_vars => ReadinessTypeOK'
<1> SUFFICES ASSUME ReadinessTypeOK, [Next]_vars PROVE ReadinessTypeOK'
  OBVIOUS
<1>1. HeartbeatTypeOK'
  <2>1. [HeartbeatNext]_heartbeatVars
    BY HeartbeatStep, Zenon DEF vars
  <2> QED BY <2>1, TypeStep DEF ReadinessTypeOK
<1>2. probe' \in [Probe -> Asking] /\ waiters' \in Seq(Probe)
  <2>1. CASE UNCHANGED <<probe, waiters>>
    BY <2>1 DEF ReadinessTypeOK
  <2>2. CASE NoteRecovery /\ UNCHANGED waiters
    <3>1. up' \subseteq Service
      BY <1>1 DEF HeartbeatTypeOK
    <3>2. \A p \in Probe : [probe[p] EXCEPT !.evidence = @ \cup up'] \in Asking
      BY <3>1 DEF ReadinessTypeOK, Asking
    <3> QED BY <2>2, <3>2 DEF NoteRecovery, ReadinessTypeOK
  <2>3. ASSUME NEW p \in Probe, Begin(p) \/ ProbeStep(p)
        PROVE  probe' \in [Probe -> Asking] /\ waiters' \in Seq(Probe)
    BY <2>3, ProbeStepType
  <2> QED BY <2>1, <2>2, <2>3 DEF Next, vars
<1> QED BY <1>1, <1>2 DEF ReadinessTypeOK

\* Every variable of Readiness keeps its type.
THEOREM ReadinessTypeCorrect == Spec => []ReadinessTypeOK
  BY ReadinessTypeInit, ReadinessTypeStep, PTL DEF Spec

------------------------------------------------------------------------------
(***************************************************************************)
(* Ready answers are honest.  What a check found stays true of the probe's *)
(* life, and the key never outlives the worker by more than its TTL.       *)
(***************************************************************************)

\* The evidence for a probe without a failure: every service that is up now, and
\* every service whose check is over.
Backed(c) ==
    c.pc = "checking" /\ ~c.failed =>
        /\ up \ {"worker"} \subseteq c.evidence
        /\ LastAlive > clock - Ttl => "worker" \in c.evidence
        /\ c.db = "over" => "db" \in c.evidence
        /\ "redis" \notin c.asked => "redis" \in c.evidence
        /\ "celery" \notin c.asked => "worker" \in c.evidence
        /\ c.db # "cancel"

\* The key speaks of a worker that was there less than a TTL ago.
KeyIsRecent == died <= clock /\ expiry <= LastAlive + Ttl

EInv == ReadinessTypeOK /\ KeyIsRecent /\ \A p \in Probe : Backed(probe[p])

LEMMA EInvInit == Init => EInv
<1> SUFFICES ASSUME Init PROVE KeyIsRecent /\ \A p \in Probe : Backed(probe[p])
  BY ReadinessTypeInit DEF EInv
<1>1. KeyIsRecent
  BY HeartbeatAssumption DEF Init, HeartbeatInit, KeyIsRecent, LastAlive
<1>2. \A p \in Probe : Backed(probe[p])
  BY DEF Init, Idle, Backed
<1> QED BY <1>1, <1>2

\* While the worker lives, LastAlive is now.
LEMMA KeyIsRecentStep ==
    ReadinessTypeOK /\ KeyIsRecent /\ [HeartbeatNext]_heartbeatVars => KeyIsRecent'
<1> SUFFICES ASSUME ReadinessTypeOK, KeyIsRecent, [HeartbeatNext]_heartbeatVars
             PROVE  KeyIsRecent'
  OBVIOUS
<1>1. clock \in Nat /\ Ttl \in Nat /\ expiry \in Int /\ died \in Int
  BY HeartbeatAssumption DEF ReadinessTypeOK, HeartbeatTypeOK
<1>2. CASE HeartbeatInterval
  BY <1>1, <1>2 DEF HeartbeatInterval, KeyIsRecent, LastAlive
<1>3. CASE TakeRun \/ FinishRun \/ TickLost \/ UNCHANGED heartbeatVars
  BY <1>3 DEF TakeRun, FinishRun, TickLost, heartbeatVars, KeyIsRecent, LastAlive
<1>4. CASE HeartbeatTick
  BY <1>1, <1>4 DEF HeartbeatTick, FreeProcess, SetHeartbeat, ExpiryFromNow, KeyIsRecent,
     LastAlive
<1>5. CASE WorkerReady
  BY <1>1, <1>5 DEF WorkerReady, SetHeartbeat, ExpiryFromNow, KeyIsRecent, LastAlive
<1>6. CASE WorkerDies
  BY <1>1, <1>6 DEF WorkerDies, KeyIsRecent, LastAlive
<1>7. ASSUME NEW s \in Service, Fails(s) \/ Recovers(s) PROVE KeyIsRecent'
  <2>1. "worker" \in up' <=> "worker" \in up
    BY <1>7 DEF Fails, Recovers
  <2>2. UNCHANGED <<clock, expiry, died>>
    BY <1>7 DEF Fails, Recovers
  <2> QED BY <2>1, <2>2 DEF KeyIsRecent, LastAlive
<1> QED BY <1>2, <1>3, <1>4, <1>5, <1>6, <1>7 DEF HeartbeatNext

\* A step that brings no service up leaves the probes backed.
LEMMA OthersKeepBacked ==
    ASSUME EInv, UNCHANGED probe,
           HeartbeatInterval \/ TakeRun \/ FinishRun \/ HeartbeatTick \/ TickLost
              \/ WorkerDies \/ (\E s \in Service : Fails(s)) \/ UNCHANGED heartbeatVars,
           NEW p \in Probe
    PROVE  Backed(probe[p])'
<1>1. clock \in Nat /\ Ttl \in Nat \ {0} /\ died \in Int
  BY HeartbeatAssumption DEF EInv, ReadinessTypeOK, HeartbeatTypeOK
<1>2. up' \subseteq up
  BY DEF HeartbeatInterval, TakeRun, FinishRun, HeartbeatTick, TickLost, WorkerDies, Fails,
     heartbeatVars
<1>3. LastAlive' > clock' - Ttl => LastAlive > clock - Ttl
  BY <1>1 DEF HeartbeatInterval, TakeRun, FinishRun, HeartbeatTick, TickLost, WorkerDies, Fails,
     heartbeatVars, LastAlive
<1>4. Backed(probe[p])
  BY DEF EInv
<1> QED BY <1>2, <1>3, <1>4 DEF Backed

\* A recovery speaks for the probes that run.
LEMMA RecoveryKeepsBacked ==
    ASSUME EInv, NoteRecovery, WorkerReady \/ \E s \in Service : Recovers(s), NEW p \in Probe
    PROVE  Backed(probe[p])'
<1>1. Backed(probe[p])
  BY DEF EInv
<1>2. probe[p] \in Asking
  BY DEF EInv, ReadinessTypeOK
<1>3. CASE Checking(p) /\ ~probe[p].failed
  <2>1. probe'[p] = [probe[p] EXCEPT !.evidence = @ \cup up']
    BY <1>3 DEF NoteRecovery
  <2>2. /\ probe'[p].pc = probe[p].pc /\ probe'[p].db = probe[p].db
        /\ probe'[p].asked = probe[p].asked /\ probe'[p].failed = probe[p].failed
        /\ probe'[p].evidence = probe[p].evidence \cup up'
    BY <1>2, <2>1 DEF Asking
  <2>3. LastAlive' > clock' - Ttl => "worker" \in up' \/ LastAlive > clock - Ttl
    BY DEF WorkerReady, Recovers, LastAlive
  <2> QED BY <1>1, <1>3, <2>2, <2>3 DEF Backed, Checking
<1>4. CASE ~(Checking(p) /\ ~probe[p].failed)
  <2>1. probe'[p] = probe[p]
    BY <1>4 DEF NoteRecovery
  <2> QED BY <1>4, <2>1 DEF Backed, Checking
<1> QED BY <1>3, <1>4

\* A step of a probe leaves the others backed, and itself if its checks are.
LEMMA PutBacked ==
    ASSUME EInv, NEW p \in Probe, NEW checks, probe' = [probe EXCEPT ![p] = checks],
           UNCHANGED heartbeatVars, Backed(checks), NEW q \in Probe
    PROVE  Backed(probe[q])'
<1>1. probe'[q] = IF q = p THEN checks ELSE probe[q]
  BY DEF EInv, ReadinessTypeOK
<1>2. Backed(probe[q])
  BY DEF EInv
<1> QED BY <1>1, <1>2 DEF Backed, heartbeatVars, LastAlive

LEMMA SetBacked ==
    ASSUME EInv, NEW p \in Probe, NEW checks, Set(p, checks), Backed(checks), NEW q \in Probe
    PROVE  Backed(probe[q])'
  BY PutBacked DEF Set

\* A probe that failed needs no evidence, and so do one that waits for the
\* database and one that has answered.
LEMMA FailedIsBacked ==
    ASSUME NEW checks \in Asking
    PROVE  Backed(Failed(checks))
  BY DEF Backed, Failed, Asking

LEMMA DbGoesBacked ==
    ASSUME EInv, NEW p \in Probe, NEW label \in {"query", "connect"}
    PROVE  Backed(DbGoes(p, label))
<1>1. Backed(probe[p]) /\ probe[p] \in Asking
  BY DEF EInv, ReadinessTypeOK
<1> QED BY <1>1 DEF Backed, DbGoes, Asking

\* SELECT 1 succeeded: the database is up.
LEMMA DbOverBacked ==
    ASSUME EInv, NEW p \in Probe, "db" \in up
    PROVE  Backed(DbGoes(p, "over"))
<1>1. Backed(probe[p]) /\ probe[p] \in Asking
  BY DEF EInv, ReadinessTypeOK
<1> QED BY <1>1 DEF Backed, DbGoes, Asking

\* Redis answered: it is up, and a key that is present was written by a worker
\* that was there less than a TTL ago.
LEMMA CheckBacked ==
    ASSUME EInv, NEW p \in Probe, NEW check \in {"redis", "celery"}, Answers(check)
    PROVE  Backed([probe[p] EXCEPT !.asked = @ \ {check}])
<1> DEFINE rest == [probe[p] EXCEPT !.asked = @ \ {check}]
<1>1. Backed(probe[p]) /\ probe[p] \in Asking
  BY DEF EInv, ReadinessTypeOK
<1>2. /\ rest.pc = probe[p].pc /\ rest.db = probe[p].db /\ rest.failed = probe[p].failed
      /\ rest.evidence = probe[p].evidence /\ rest.asked = probe[p].asked \ {check}
  BY <1>1 DEF Asking
<1>3. check = "celery" => LastAlive > clock - Ttl
  <2>1. clock \in Nat /\ Ttl \in Nat /\ expiry \in Int /\ LastAlive \in Int
    BY HeartbeatAssumption DEF EInv, ReadinessTypeOK, HeartbeatTypeOK, LastAlive
  <2> QED BY <2>1 DEF Answers, KeyPresent, EInv, KeyIsRecent
<1>4. "redis" \in up
  BY DEF Answers
<1> QED BY <1>1, <1>2, <1>3, <1>4 DEF Backed

LEMMA ProbesKeepBacked ==
    ASSUME EInv, NEW p \in Probe, Begin(p) \/ ProbeStep(p), NEW q \in Probe
    PROVE  Backed(probe[q])'
<1>0. /\ \A label \in DbCheck : DbGoes(p, label) \in Asking
      /\ probe[p] \in Asking
  BY DbGoesType DEF EInv, ReadinessTypeOK
<1>1. CASE Begin(p)
  <2>1. Backed([pc |-> "checking", db |-> "wait", asked |-> {"redis", "celery"},
                failed |-> FALSE, evidence |-> Evidence])
    BY DEF Backed, Evidence
  <2> QED BY <1>1, <2>1, PutBacked DEF Begin
<1>2. CASE Acquire(p)
  BY <1>2, DbGoesBacked, PutBacked DEF Acquire
<1>3. CASE Connect(p)
  BY <1>0, <1>3, DbGoesBacked, FailedIsBacked, SetBacked DEF Connect, DbCheck
<1>4. CASE Selected(p)
  BY <1>4, DbOverBacked, SetBacked DEF Selected
<1>5. CASE Broken(p) \/ TimedOut(p)
  BY <1>0, <1>5, FailedIsBacked, SetBacked DEF Broken, TimedOut, DbCheck
<1>6. CASE Released(p)
  BY <1>6, DbOverBacked, SetBacked DEF Released
<1>7. ASSUME NEW check \in {"redis", "celery"}, CheckRedis(p, check) PROVE Backed(probe[q])'
  <2>1. [probe[p] EXCEPT !.asked = @ \ {check}] \in Asking
    BY <1>0 DEF Asking
  <2> QED BY <1>7, <2>1, CheckBacked, FailedIsBacked, SetBacked DEF CheckRedis
<1>8. CASE AnswerReady(p) \/ AnswerUnavailable(p)
  <2>1. Backed(Idle)
    BY DEF Backed, Idle
  <2> QED BY <1>8, <2>1, SetBacked DEF AnswerReady, AnswerUnavailable
<1> QED BY <1>1, <1>2, <1>3, <1>4, <1>5, <1>6, <1>7, <1>8 DEF ProbeStep

LEMMA EInvStep == EInv /\ [Next]_vars => EInv'
<1> SUFFICES ASSUME EInv, [Next]_vars PROVE EInv'
  OBVIOUS
<1>1. ReadinessTypeOK'
  BY ReadinessTypeStep DEF EInv
<1>2. KeyIsRecent'
  <2>1. [HeartbeatNext]_heartbeatVars
    BY HeartbeatStep, Zenon DEF vars
  <2> QED BY <2>1, KeyIsRecentStep DEF EInv
<1>3. ASSUME NEW q \in Probe PROVE Backed(probe[q])'
  <2>1. CASE /\ UNCHANGED probe
             /\ HeartbeatInterval \/ TakeRun \/ FinishRun \/ HeartbeatTick \/ TickLost
                   \/ WorkerDies \/ (\E s \in Service : Fails(s)) \/ UNCHANGED heartbeatVars
    BY <2>1, OthersKeepBacked
  <2>2. CASE NoteRecovery /\ (WorkerReady \/ \E s \in Service : Recovers(s))
    BY <2>2, RecoveryKeepsBacked
  <2>3. ASSUME NEW p \in Probe, Begin(p) \/ ProbeStep(p) PROVE Backed(probe[q])'
    BY <2>3, ProbesKeepBacked
  <2> QED BY <2>1, <2>2, <2>3, Zenon DEF Next, vars
<1> QED BY <1>1, <1>2, <1>3 DEF EInv

\* Whatever failed and recovered while the probe ran and waited, a ready answer
\* has evidence for each service.
THEOREM ReadyAnswersAreHonest == Spec => ReadyIsHonest
<1>1. Spec => []EInv
  BY EInvInit, EInvStep, PTL DEF Spec
<1>2. EInv => \A p \in Probe : AnswerReady(p) => probe[p].evidence = Service
  <2> SUFFICES ASSUME EInv, NEW p \in Probe, AnswerReady(p)
               PROVE  probe[p].evidence = Service
    OBVIOUS
  <2>1. Backed(probe[p]) /\ probe[p].evidence \subseteq Service
    BY DEF EInv, ReadinessTypeOK, Asking
  <2> QED BY <2>1 DEF AnswerReady, Gathered, Checking, DbAt, Backed, Service
<1> QED BY <1>1, <1>2, PTL DEF ReadyIsHonest
=============================================================================
