--------------------------- MODULE RunSourceProofs ---------------------------
(***************************************************************************)
(* Theorems about RunSource, for every value of its constants.             *)
(***************************************************************************)
EXTENDS RunSource, FiniteSetTheorems, FunctionTheorems, TLAPS

USE SlotAssumption, WorkerAssumption, BoundAssumption

------------------------------------------------------------------------------
(***************************************************************************)
(* Type correctness.                                                       *)
(***************************************************************************)

\* The idle record is an execution, and so is every update the steps make.
LEMMA IdleType == Idle \in Execution
BY DEF Idle, Execution, PC, Attempt, Nothing, Revisions

LEMMA StartType ==
    ASSUME NEW n \in Attempt, NEW t \in 0..MaxClock
    PROVE  [Idle EXCEPT !.pc = "discover", !.attempt = n, !.held = TRUE, !.now = t]
              \in Execution
<1>1. "discover" \in PC BY DEF PC
<1> QED BY IdleType, <1>1 DEF Execution

LEMMA PcType ==
    ASSUME NEW e \in [Worker -> Execution], NEW w \in Worker, NEW p \in PC
    PROVE  [e EXCEPT ![w].pc = p] \in [Worker -> Execution]
BY DEF Execution

LEMMA FoundType ==
    ASSUME NEW e \in [Worker -> Execution], NEW w \in Worker, NEW p \in PC,
           NEW found \in SUBSET Station
    PROVE  [e EXCEPT ![w].pc = p, ![w].found = found] \in [Worker -> Execution]
BY DEF Execution

LEMMA FewerType ==
    ASSUME NEW e \in [Worker -> Execution], NEW w \in Worker, NEW s
    PROVE  [e EXCEPT ![w].found = @ \ {s}] \in [Worker -> Execution]
BY DEF Execution

LEMMA CacheType ==
    ASSUME NEW e \in [Worker -> Execution], NEW w \in Worker, NEW p \in PC,
           NEW cache \in SUBSET Station
    PROVE  [e EXCEPT ![w].pc = p, ![w].cache = cache] \in [Worker -> Execution]
BY DEF Execution

LEMMA BatchType ==
    ASSUME NEW e \in [Worker -> Execution], NEW w \in Worker, NEW p \in PC,
           NEW batch \in Revisions, NEW base \in Revisions
    PROVE  [e EXCEPT ![w].pc = p, ![w].batch = batch, ![w].base = base]
              \in [Worker -> Execution]
<1>1. [e[w] EXCEPT !.pc = p, !.batch = batch, !.base = base] \in Execution
  BY DEF Execution
<1>2. [e EXCEPT ![w].pc = p, ![w].batch = batch, ![w].base = base]
        = [e EXCEPT ![w] = [e[w] EXCEPT !.pc = p, !.batch = batch, !.base = base]]
  OBVIOUS
<1> QED BY <1>1, <1>2

LEMMA HeldType ==
    ASSUME NEW e \in [Worker -> Execution], NEW w \in Worker
    PROVE  [e EXCEPT ![w].held = FALSE] \in [Worker -> Execution]
BY DEF Execution

LEMMA Labels ==
    /\ "register" \in PC /\ "fetch" \in PC /\ "route" \in PC /\ "write" \in PC
    /\ "record" \in PC /\ "ack" \in PC /\ "retried" \in PC
BY DEF PC

LEMMA NoDlqType == NoDlq \in DlqExecution
BY DEF DlqExecution

LEMMA InitType == Init => TypeOK
<1> SUFFICES ASSUME Init PROVE TypeOK OBVIOUS
<1>1. dlqExec \in [Worker -> DlqExecution] /\ dlqLost \in [Loss -> SUBSET Unmapped]
  BY NoDlqType DEF Init
<1> QED BY <1>1, IdleType DEF Init, TypeOK, Nothing, Revisions, Attempt

\* The number of deliveries a crash gives back is a number.
LEMMA HeldCount ==
    ASSUME NEW n
    PROVE  Cardinality(HeldDeliveries(n)) \in Nat
<1>1. HeldDeliveries(n) \subseteq Worker BY DEF HeldDeliveries
<1> QED BY <1>1, FS_Subset, FS_CardinalityType

LEMMA DlqCount ==
    ASSUME NEW v
    PROVE  Cardinality(DlqDeliveries(v)) \in Nat
<1>1. DlqDeliveries(v) \subseteq Worker BY DEF DlqDeliveries
<1> QED BY <1>1, FS_Subset, FS_CardinalityType

LEMMA LossType ==
    ASSUME dlqLost \in [Loss -> SUBSET Unmapped], NEW l \in Loss,
           NEW v \in SUBSET Unmapped, Lose(l, v)
    PROVE  dlqLost' \in [Loss -> SUBSET Unmapped]
BY DEF Lose

\* A dlq_route in execution holds violations.
LEMMA HandsType ==
    ASSUME TypeOK, NEW w \in Worker
    PROVE  /\ dlqExec[w].violations \in SUBSET Unmapped
           /\ dlqExec[w].pc # "idle" => dlqExec[w].violations \in Violation
<1>1. dlqExec[w] \in DlqExecution BY DEF TypeOK
<1>2. CASE dlqExec[w] = NoDlq BY <1>2 DEF NoDlq
<1>3. CASE dlqExec[w] \in [pc: {"persist", "ack"}, violations: Violation]
  BY <1>3 DEF Violation
<1> QED BY <1>1, <1>2, <1>3 DEF DlqExecution

LEMMA PersistType ==
    ASSUME TypeOK, NEW w \in Worker, dlqExec[w].pc = "persist",
           dlqExec' = [dlqExec EXCEPT ![w].pc = "ack"]
    PROVE  dlqExec' \in [Worker -> DlqExecution]
<1>1. dlqExec[w] \in DlqExecution /\ dlqExec \in [Worker -> DlqExecution] BY DEF TypeOK
<1>2. dlqExec[w] \in [pc: {"persist", "ack"}, violations: Violation]
  BY <1>1 DEF DlqExecution, NoDlq
<1>3. [dlqExec[w] EXCEPT !.pc = "ack"] \in DlqExecution BY <1>2 DEF DlqExecution
<1>4. dlqExec' = [dlqExec EXCEPT ![w] = [dlqExec[w] EXCEPT !.pc = "ack"]] OBVIOUS
<1> QED BY <1>1, <1>3, <1>4

LEMMA Causes == "trimmed" \in Loss /\ "failed" \in Loss /\ "killed" \in Loss
BY DEF Loss

\* LPUSH and LTRIM leave a list of at most DlqCap entries.
LEMMA TrimmedType ==
    ASSUME NEW s \in Seq(Violation)
    PROVE  Trimmed(s) \in Seq(Violation) /\ Len(Trimmed(s)) <= DlqCap
BY DEF Trimmed

LEMMA ListedType ==
    ASSUME NEW s \in Seq(Violation)
    PROVE  Listed(s) \subseteq Unmapped
<1>1. \A i \in DOMAIN s : s[i] \subseteq Unmapped BY DEF Violation
<1> QED BY <1>1 DEF Listed

\* A message more in a queue.
LEMMA QueuedMore ==
    ASSUME NEW q \in [Attempt -> Nat], NEW n \in Attempt
    PROVE  [q EXCEPT ![n] = @ + 1] \in [Attempt -> Nat]
OBVIOUS

LEMMA TypeStep == TypeOK /\ [Next]_vars => TypeOK'
<1> SUFFICES ASSUME TypeOK, [Next]_vars PROVE TypeOK' OBVIOUS
<1> USE DEF TypeOK
<1>1. CASE Tick
  BY <1>1 DEF Tick, feedVars, dlqVars, storeVars, Attempt
<1>2. ASSUME NEW k \in Key, Publish(k) PROVE TypeOK'
  BY <1>2 DEF Publish, Revisions, brokerVars, dlqVars, storeVars
<1>3. ASSUME NEW w \in Worker, NEW n \in Attempt, Receive(w, n) PROVE TypeOK'
  <2> DEFINE start == [Idle EXCEPT !.pc = "discover", !.attempt = n,
                                   !.held = TRUE, !.now = clock]
  <2>5. clock \in 0..MaxClock OBVIOUS
  <2>3. start \in Execution BY <2>5, StartType, Zenon
  <2>4. exec' = [exec EXCEPT ![w] = start] BY <1>3 DEF Receive
  <2> HIDE DEF start
  <2>1. exec' \in [Worker -> Execution] BY <2>3, <2>4
  <2>2. queued' \in [Attempt -> Nat] BY <1>3 DEF Receive
  <2> QED BY <1>3, <2>1, <2>2 DEF Receive, feedVars, dlqVars, storeVars
<1>4. ASSUME NEW w \in Worker, Discover(w) PROVE TypeOK'
  <2>1. FeedStations \subseteq Station BY DEF FeedStations, Rows
  <2>3. PICK found \in SUBSET Station :
              exec' = [exec EXCEPT ![w].pc = "register", ![w].found = found]
    BY <1>4, <2>1 DEF Discover
  <2>2. exec' \in [Worker -> Execution] BY <2>3, FoundType, Labels
  <2> QED BY <1>4, <2>2 DEF Discover, brokerVars, feedVars, dlqVars, storeVars
<1>5. ASSUME NEW w \in Worker, LoadCaches(w) PROVE TypeOK'
  <2>1. exec' \in [Worker -> Execution] BY <1>5, CacheType, Labels DEF LoadCaches
  <2> QED BY <1>5, <2>1 DEF LoadCaches, brokerVars, feedVars, dlqVars, storeVars
<1>20. ASSUME NEW w \in Worker, NEW s \in Station, RegisterStation(w, s) PROVE TypeOK'
  <2>1. exec' \in [Worker -> Execution] BY <1>20, FewerType DEF RegisterStation
  <2>2. stations' \subseteq Station BY <1>20 DEF RegisterStation
  <2>3. UNCHANGED <<clock, lastSuccess, faults, table, runs,
                    brokerVars, feedVars, dlqVars>>
    BY <1>20 DEF RegisterStation
  <2> QED BY <2>1, <2>2, <2>3 DEF brokerVars, feedVars, dlqVars
<1>6. ASSUME NEW w \in Worker, Fetch(w) PROVE TypeOK'
  <2>1. Fetched(exec[w].now) \in Revisions BY DEF Fetched, Revisions
  <2>2. exec' \in [Worker -> Execution] BY <1>6, <2>1, BatchType, Labels DEF Fetch
  <2> QED BY <1>6, <2>2 DEF Fetch, brokerVars, feedVars, dlqVars, storeVars
<1>7. ASSUME NEW w \in Worker, Route(w) PROVE TypeOK'
  <2>1. exec' \in [Worker -> Execution] BY <1>7, PcType, Labels DEF Route
  <2>2. dlqQueue' \in [Violation -> Nat]
    <3>1. dlqQueue' = [v \in Violation |->
                         IF v = Violations(w) THEN dlqQueue[v] + 1 ELSE dlqQueue[v]]
      BY <1>7 DEF Route
    <3> QED BY <3>1
  <2>3. UNCHANGED <<clock, lastSuccess, faults, dlqExec, dlqList, dlqLost,
                    brokerVars, feedVars, storeVars>>
    BY <1>7 DEF Route
  <2> QED BY <2>1, <2>2, <2>3 DEF brokerVars, feedVars, storeVars
<1>8. ASSUME NEW w \in Worker, WriteBatch(w) PROVE TypeOK'
  <2>1. Upsert(w) \in Revisions BY DEF Upsert, Execution, Revisions
  <2>2. /\ exec[w].now \in 0..MaxClock
        /\ exec[w].cache \subseteq Station
        /\ Violations(w) \subseteq Unmapped
    BY DEF Execution, Violations
  <2>5. [start |-> exec[w].now, known |-> exec[w].cache,
         violations |-> Violations(w)] \in Run
    BY <2>2 DEF Run
  <2>3. runs' \subseteq Run BY <1>8, <2>5 DEF WriteBatch
  <2>6. AfterWrite(w) \in PC BY Labels DEF AfterWrite
  <2>4. exec' \in [Worker -> Execution] BY <1>8, <2>6, PcType DEF WriteBatch
  <2>7. /\ table' = Upsert(w)
        /\ UNCHANGED <<clock, lastSuccess, faults, stations, brokerVars, feedVars, dlqVars>>
    BY <1>8 DEF WriteBatch
  <2> QED BY <2>1, <2>3, <2>4, <2>7 DEF brokerVars, feedVars, dlqVars
<1>9. ASSUME NEW w \in Worker, RecordSuccess(w) PROVE TypeOK'
  <2>1. exec' \in [Worker -> Execution] BY <1>9, PcType, Labels DEF RecordSuccess
  <2> QED BY <1>9, <2>1 DEF RecordSuccess, brokerVars, feedVars, dlqVars, storeVars
<1>10. ASSUME NEW w \in Worker, Ack(w) PROVE TypeOK'
  BY <1>10, IdleType DEF Ack, feedVars, dlqVars, storeVars
<1>11. ASSUME NEW w \in Worker, Fail(w) PROVE TypeOK'
  <2>2. exec' \in [Worker -> Execution]
    <3>1. \/ exec' = [exec EXCEPT ![w].pc = "retried"]
          \/ exec' = [exec EXCEPT ![w].pc = "ack"]
      BY <1>11 DEF Fail
    <3>2. CASE exec' = [exec EXCEPT ![w].pc = "retried"] BY <3>2, PcType, Labels
    <3>3. CASE exec' = [exec EXCEPT ![w].pc = "ack"] BY <3>3, PcType, Labels
    <3> QED BY <3>1, <3>2, <3>3
  <2>3. exec[w].attempt < MaxRetries => NextAttempt(exec[w].attempt) \in Attempt
    BY DEF Execution, Attempt, NextAttempt
  <2>4. queued' \in [Attempt -> Nat]
    <3>1. \/ queued' = queued
          \/ /\ exec[w].attempt < MaxRetries
             /\ queued' = [queued EXCEPT ![NextAttempt(exec[w].attempt)] = @ + 1]
      BY <1>11 DEF Fail
    <3>2. CASE queued' = queued BY <3>2
    <3>3. CASE /\ exec[w].attempt < MaxRetries
               /\ queued' = [queued EXCEPT ![NextAttempt(exec[w].attempt)] = @ + 1]
      BY <3>3, <2>3, QueuedMore
    <3> QED BY <3>1, <3>2, <3>3
  <2> QED BY <1>11, <2>2, <2>4 DEF Fail, feedVars, dlqVars, storeVars
<1>12. ASSUME NEW w \in Worker, VisibilityTimeout(w) PROVE TypeOK'
  <2>1. exec' \in [Worker -> Execution] BY <1>12, HeldType DEF VisibilityTimeout
  <2>3. exec[w].attempt \in Attempt BY DEF Execution
  <2>5. queued' = [queued EXCEPT ![exec[w].attempt] = @ + 1]
    BY <1>12 DEF VisibilityTimeout
  <2>2. queued' \in [Attempt -> Nat] BY <2>3, <2>5, QueuedMore
  <2>4. faults' \in 0..MaxFaults BY <1>12 DEF VisibilityTimeout
  <2> QED BY <1>12, <2>1, <2>2, <2>4 DEF VisibilityTimeout, feedVars, dlqVars, storeVars
<1>21. \A w \in Worker : dlqExec[w].violations \in SUBSET Unmapped
  BY HandsType
<1>13. ASSUME NEW w \in Worker, ProcessLost(w) PROVE TypeOK'
  <2>1. PICK v \in SUBSET Unmapped : Lose("killed", v) BY <1>13, <1>21 DEF ProcessLost
  <2>2. dlqLost' \in [Loss -> SUBSET Unmapped] BY <2>1, LossType, Causes
  <2>3. /\ exec' \in [Worker -> Execution] /\ dlqExec' \in [Worker -> DlqExecution]
        /\ faults' \in 0..MaxFaults /\ finished' \in Nat
    BY <1>13, IdleType, NoDlqType DEF ProcessLost
  <2>4. UNCHANGED <<clock, lastSuccess, queued, dispatched, dlqQueue, dlqList,
                    feedVars, storeVars>>
    BY <1>13 DEF ProcessLost
  <2> QED BY <2>2, <2>3, <2>4 DEF feedVars, storeVars
<1>14. CASE WorkerCrash
  <2>1. queued' \in [Attempt -> Nat] BY <1>14, HeldCount DEF WorkerCrash
  <2>2. exec' \in [Worker -> Execution] BY <1>14, IdleType DEF WorkerCrash
  <2>3. dlqQueue' \in [Violation -> Nat] BY <1>14, DlqCount DEF WorkerCrash
  <2>4. dlqExec' \in [Worker -> DlqExecution] BY <1>14, NoDlqType DEF WorkerCrash
  <2>5. /\ faults' \in 0..MaxFaults
        /\ UNCHANGED <<clock, lastSuccess, dispatched, finished, dlqList, dlqLost,
                       feedVars, storeVars>>
    BY <1>14 DEF WorkerCrash
  <2> QED BY <2>1, <2>2, <2>3, <2>4, <2>5 DEF feedVars, storeVars
<1>15. ASSUME NEW w \in Worker, NEW v \in Violation, DlqReceive(w, v) PROVE TypeOK'
  <2>1. [pc |-> "persist", violations |-> v] \in DlqExecution
    BY DEF DlqExecution, Violation
  <2>2. dlqExec' \in [Worker -> DlqExecution] BY <1>15, <2>1 DEF DlqReceive
  <2>3. dlqQueue' \in [Violation -> Nat] BY <1>15 DEF DlqReceive
  <2> QED BY <1>15, <2>2, <2>3 DEF DlqReceive, brokerVars, feedVars, storeVars
<1>16. ASSUME NEW w \in Worker, DlqPersist(w) PROVE TypeOK'
  <2> DEFINE v == dlqExec[w].violations
  <2>1. v \in Violation => Pushed(v) \in Seq(Violation) BY DEF Pushed
  <2>2. v \in Violation BY <1>16, HandsType DEF DlqPersist
  <2>3. Listed(Pushed(v)) \ Listed(Trimmed(Pushed(v))) \in SUBSET Unmapped
    BY <2>1, <2>2, ListedType
  <2>4. dlqLost' \in [Loss -> SUBSET Unmapped]
    BY <1>16, <2>3, LossType, Causes DEF DlqPersist
  <2>5. dlqList' \in Seq(Violation) /\ Len(dlqList') <= DlqCap
    BY <1>16, <2>1, <2>2, TrimmedType DEF DlqPersist
  <2>6. dlqExec' \in [Worker -> DlqExecution] BY <1>16, PersistType DEF DlqPersist
  <2> QED BY <1>16, <2>4, <2>5, <2>6 DEF DlqPersist, brokerVars, feedVars, storeVars
<1>17. ASSUME NEW w \in Worker, DlqPersistFailed(w) PROVE TypeOK'
  <2>1. dlqLost' \in [Loss -> SUBSET Unmapped]
    BY <1>17, <1>21, LossType, Causes DEF DlqPersistFailed
  <2>2. dlqExec' \in [Worker -> DlqExecution] BY <1>17, PersistType DEF DlqPersistFailed
  <2> QED BY <1>17, <2>1, <2>2 DEF DlqPersistFailed, brokerVars, feedVars, storeVars
<1>18. ASSUME NEW w \in Worker, DlqAck(w) PROVE TypeOK'
  <2>1. dlqExec' \in [Worker -> DlqExecution] BY <1>18, NoDlqType DEF DlqAck
  <2> QED BY <1>18, <2>1 DEF DlqAck, brokerVars, feedVars, storeVars
<1>19. CASE UNCHANGED vars
  BY <1>19 DEF vars, brokerVars, feedVars, dlqVars, storeVars
<1> QED
  BY <1>1, <1>2, <1>3, <1>4, <1>5, <1>6, <1>7, <1>8, <1>9, <1>10, <1>11, <1>12,
     <1>13, <1>14, <1>15, <1>16, <1>17, <1>18, <1>19, <1>20 DEF Next

\* Every variable keeps its type: attempts stay within max_retries, the dlq
\* list within its cap, windows and metric within the time that has passed.
THEOREM TypeCorrect == Spec => []TypeOK
BY InitType, TypeStep, PTL DEF Spec

------------------------------------------------------------------------------
(***************************************************************************)
(* The inductive invariant.  What a step may write to the table was put    *)
(* into a batch by an earlier step, out of a feed and a table that have    *)
(* moved on since; the invariant carries the facts across the steps.       *)
(***************************************************************************)

Fetching(w) == exec[w].pc \in {"route", "write"}

\* A batch holds published revisions, its cache registered stations.
BatchesArePublished ==
    \A w \in Worker : /\ \A k \in Key : exec[w].batch[k] <= feed[k]
                      /\ exec[w].cache \subseteq stations

\* A batch is at least as recent as the table was when it was fetched.
BatchesFollowTable ==
    \A w \in Worker, k \in Key :
        exec[w].batch[k] > 0 => exec[w].base[k] <= exec[w].batch[k]

\* No window lies in the future, and a slot has an instant of publication
\* only if it was published.
WindowsArePast ==
    /\ \A w \in Worker : exec[w].now <= clock
    /\ \A r \in runs : r.start <= clock
    /\ \A k \in Key : published[k] > 0 => feed[k] > 0

\* A batch holds every slot of its window published before the execution.
Covered(k, start) == /\ TimeOf[k] \in start - 2 * Cadence .. start
                     /\ published[k] \in 1..start - 1

BatchesAreComplete ==
    \A w \in Worker, k \in Key :
        Fetching(w) /\ Covered(k, exec[w].now) => exec[w].batch[k] > 0

RunsAreStored ==
    \A r \in runs, k \in Key \ Unmapped :
        Covered(k, r.start) /\ StationOf[k] \in r.known => table[k] > 0

IInv == /\ TypeOK
        /\ BatchesArePublished
        /\ BatchesFollowTable
        /\ WindowsArePast
        /\ BatchesAreComplete
        /\ RunsAreStored
        /\ StoredRowsAreGenuine

LEMMA InitInvariant == Init => IInv
<1> SUFFICES ASSUME Init PROVE IInv OBVIOUS
<1>1. TypeOK BY InitType
<1>2. \A w \in Worker : /\ exec[w].batch = Nothing /\ exec[w].base = Nothing
                        /\ exec[w].cache = {} /\ exec[w].now = 0 /\ exec[w].pc = "idle"
  BY DEF Init, Idle
<1>3. BatchesArePublished /\ BatchesFollowTable /\ WindowsArePast
  BY <1>2 DEF BatchesArePublished, BatchesFollowTable, WindowsArePast, Init, Nothing
<1>4. BatchesAreComplete BY <1>2 DEF BatchesAreComplete, Fetching
<1>5. RunsAreStored BY DEF Init, RunsAreStored
<1>6. StoredRowsAreGenuine BY DEF Init, StoredRowsAreGenuine, Rows, Nothing
<1> QED BY <1>1, <1>3, <1>4, <1>5, <1>6 DEF IInv

\* The steps that neither publish, load caches, fetch nor write leave the store
\* and the feed alone, and each process keeps its batch or is reset.
SameLocals(v) == /\ exec'[v].batch = exec[v].batch /\ exec'[v].base = exec[v].base
                 /\ exec'[v].cache = exec[v].cache /\ exec'[v].now = exec[v].now
                 /\ Fetching(v)' => Fetching(v)

ResetLocals(v) == /\ exec'[v].batch = Nothing /\ exec'[v].base = Nothing
                  /\ exec'[v].cache = {} /\ exec'[v].now <= clock
                  /\ ~Fetching(v)'

Aside == /\ UNCHANGED <<feed, published, table, runs>>
         /\ stations \subseteq stations' /\ clock <= clock'
         /\ \A v \in Worker : SameLocals(v) \/ ResetLocals(v)

\* The steps of dlq_route touch nothing but the dead letters.
DlqWork(w) == \/ \E v \in Violation : DlqReceive(w, v)
              \/ DlqPersist(w) \/ DlqPersistFailed(w) \/ DlqAck(w)

LEMMA DlqWorkLeaves ==
    ASSUME NEW w \in Worker, DlqWork(w)
    PROVE  UNCHANGED <<clock, exec, lastSuccess, faults, brokerVars, feedVars, storeVars>>
BY DEF DlqWork, DlqReceive, DlqPersist, DlqPersistFailed, DlqAck

\* A step that changes the pc of w only, and not to a fetching label.
LEMMA PcStep ==
    ASSUME TypeOK, NEW w \in Worker, NEW p \in PC,
           Fetching(w) \/ p \notin {"route", "write"},
           exec' = [exec EXCEPT ![w].pc = p]
    PROVE  \A v \in Worker : SameLocals(v)
<1>1. \A v \in Worker : /\ exec'[v].batch = exec[v].batch /\ exec'[v].base = exec[v].base
                        /\ exec'[v].cache = exec[v].cache /\ exec'[v].now = exec[v].now
                        /\ exec'[v].pc = IF v = w THEN p ELSE exec[v].pc
  BY DEF TypeOK, Execution
<1> QED BY <1>1 DEF SameLocals, Fetching

\* A step that resets w to a record whose locals are empty.
LEMMA ResetStep ==
    ASSUME TypeOK, NEW w \in Worker, NEW r,
           r.batch = Nothing, r.base = Nothing, r.cache = {}, r.now <= clock,
           r.pc \notin {"route", "write"},
           exec' = [exec EXCEPT ![w] = r]
    PROVE  \A v \in Worker : SameLocals(v) \/ ResetLocals(v)
<1>1. exec'[w] = r /\ \A v \in Worker \ {w} : exec'[v] = exec[v] BY DEF TypeOK
<1>2. ResetLocals(w) BY <1>1 DEF ResetLocals, Fetching
<1>3. \A v \in Worker \ {w} : SameLocals(v) BY <1>1 DEF SameLocals, Fetching
<1> QED BY <1>2, <1>3

LEMMA IdleReset == TypeOK => /\ Idle.batch = Nothing /\ Idle.base = Nothing
                             /\ Idle.cache = {} /\ Idle.now <= clock
                             /\ Idle.pc \notin {"route", "write"}
BY DEF Idle, TypeOK

LEMMA AsideSteps ==
    ASSUME TypeOK, [Next]_vars,
           \A k \in Key : ~Publish(k),
           \A w \in Worker : ~LoadCaches(w) /\ ~Fetch(w) /\ ~WriteBatch(w)
    PROVE  Aside
<1>1. CASE Tick \/ UNCHANGED vars
  <2>1. exec' = exec /\ clock <= clock'
    BY <1>1 DEF Tick, vars, TypeOK
  <2>2. UNCHANGED <<feed, published, table, runs, stations>>
    BY <1>1 DEF Tick, vars, feedVars, storeVars
  <2> QED BY <2>1, <2>2 DEF Aside, SameLocals, Fetching
<1>2. ASSUME NEW w \in Worker, NEW n \in Attempt, Receive(w, n) PROVE Aside
  <2> DEFINE r == [Idle EXCEPT !.pc = "discover", !.attempt = n,
                               !.held = TRUE, !.now = clock]
  <2>1. /\ r.batch = Nothing /\ r.base = Nothing /\ r.cache = {} /\ r.now = clock
        /\ r.pc = "discover"
    BY DEF Idle
  <2>2. exec' = [exec EXCEPT ![w] = r] BY <1>2 DEF Receive
  <2>3. r.now <= clock /\ r.pc \notin {"route", "write"} BY <2>1 DEF TypeOK
  <2> HIDE DEF r
  <2>4. \A v \in Worker : SameLocals(v) \/ ResetLocals(v) BY <2>1, <2>2, <2>3, ResetStep
  <2> QED BY <1>2, <2>4 DEF Aside, Receive, feedVars, storeVars, TypeOK
<1>3. ASSUME NEW w \in Worker, Discover(w) PROVE Aside
  <2>1. PICK found : exec' = [exec EXCEPT ![w].pc = "register", ![w].found = found]
    BY <1>3 DEF Discover
  <2>2. \A v \in Worker :
           /\ exec'[v].batch = exec[v].batch /\ exec'[v].base = exec[v].base
           /\ exec'[v].cache = exec[v].cache /\ exec'[v].now = exec[v].now
           /\ exec'[v].pc = IF v = w THEN "register" ELSE exec[v].pc
    BY <2>1 DEF TypeOK, Execution
  <2>3. \A v \in Worker : SameLocals(v) BY <2>2 DEF SameLocals, Fetching
  <2> QED BY <1>3, <2>3 DEF Aside, Discover, feedVars, storeVars, TypeOK
<1>4. ASSUME NEW w \in Worker, Route(w) PROVE Aside
  <2>1. \A v \in Worker : SameLocals(v)
    BY <1>4, PcStep, Labels DEF Route, At, Fetching
  <2> QED BY <1>4, <2>1 DEF Aside, Route, feedVars, storeVars, TypeOK
<1>5. ASSUME NEW w \in Worker, RecordSuccess(w) PROVE Aside
  <2>1. \A v \in Worker : SameLocals(v)
    BY <1>5, PcStep, Labels DEF RecordSuccess, Fetching
  <2> QED BY <1>5, <2>1 DEF Aside, RecordSuccess, feedVars, storeVars, TypeOK
<1>6. ASSUME NEW w \in Worker, Ack(w) \/ ProcessLost(w) PROVE Aside
  <2>1. exec' = [exec EXCEPT ![w] = Idle] BY <1>6 DEF Ack, ProcessLost
  <2>2. \A v \in Worker : SameLocals(v) \/ ResetLocals(v) BY <2>1, IdleReset, ResetStep
  <2> QED BY <1>6, <2>2 DEF Aside, Ack, ProcessLost, feedVars, storeVars, TypeOK
<1>7. ASSUME NEW w \in Worker, Fail(w) PROVE Aside
  <2>1. \/ exec' = [exec EXCEPT ![w].pc = "retried"]
        \/ exec' = [exec EXCEPT ![w].pc = "ack"]
    BY <1>7 DEF Fail
  <2>2. \A v \in Worker : SameLocals(v)
    <3>1. CASE exec' = [exec EXCEPT ![w].pc = "retried"] BY <3>1, PcStep, Labels
    <3>2. CASE exec' = [exec EXCEPT ![w].pc = "ack"] BY <3>2, PcStep, Labels
    <3> QED BY <2>1, <3>1, <3>2
  <2> QED BY <1>7, <2>2 DEF Aside, Fail, feedVars, storeVars, TypeOK
<1>8. ASSUME NEW w \in Worker, VisibilityTimeout(w) PROVE Aside
  <2>1. exec' = [exec EXCEPT ![w].held = FALSE] BY <1>8 DEF VisibilityTimeout
  <2>2. \A v \in Worker :
           /\ exec'[v].batch = exec[v].batch /\ exec'[v].base = exec[v].base
           /\ exec'[v].cache = exec[v].cache /\ exec'[v].now = exec[v].now
           /\ exec'[v].pc = exec[v].pc
    BY <2>1 DEF TypeOK, Execution
  <2>3. \A v \in Worker : SameLocals(v) BY <2>2 DEF SameLocals, Fetching
  <2> QED BY <1>8, <2>3 DEF Aside, VisibilityTimeout, feedVars, storeVars, TypeOK
<1>9. CASE WorkerCrash
  <2>1. \A v \in Worker : exec'[v] = Idle BY <1>9 DEF WorkerCrash
  <2>2. \A v \in Worker : ResetLocals(v) BY <2>1, IdleReset DEF ResetLocals, Fetching
  <2> QED BY <1>9, <2>2 DEF Aside, WorkerCrash, feedVars, storeVars, TypeOK
<1>10. ASSUME NEW w \in Worker, DlqWork(w) PROVE Aside
  <2>1. exec' = exec /\ clock' = clock BY <1>10, DlqWorkLeaves
  <2>2. UNCHANGED <<feed, published, table, runs, stations>>
    BY <1>10, DlqWorkLeaves DEF feedVars, storeVars
  <2> QED BY <2>1, <2>2 DEF Aside, SameLocals, Fetching, TypeOK
<1>11. ASSUME NEW w \in Worker, NEW s \in Station, RegisterStation(w, s) PROVE Aside
  <2>1. exec' = [exec EXCEPT ![w].found = @ \ {s}] BY <1>11 DEF RegisterStation
  <2>2. \A v \in Worker :
           /\ exec'[v].batch = exec[v].batch /\ exec'[v].base = exec[v].base
           /\ exec'[v].cache = exec[v].cache /\ exec'[v].now = exec[v].now
           /\ exec'[v].pc = exec[v].pc
    BY <2>1 DEF TypeOK, Execution
  <2>3. \A v \in Worker : SameLocals(v) BY <2>2 DEF SameLocals, Fetching
  <2> QED BY <1>11, <2>3 DEF Aside, RegisterStation, feedVars, TypeOK
<1> QED
  BY <1>1, <1>2, <1>3, <1>4, <1>5, <1>6, <1>7, <1>8, <1>9, <1>10, <1>11
  DEF Next, DlqWork

------------------------------------------------------------------------------
(***************************************************************************)
(* Each class of steps preserves the inductive invariant.                  *)
(***************************************************************************)

LEMMA LocalsType ==
    ASSUME TypeOK, NEW w \in Worker
    PROVE  /\ exec[w].batch \in [Key -> Nat] /\ exec[w].base \in [Key -> Nat]
           /\ exec[w].now \in Nat
           /\ exec[w].cache \subseteq Station
<1>1. exec[w] \in Execution BY DEF TypeOK
<1>2. exec[w].batch \in Revisions /\ exec[w].base \in Revisions BY <1>1 DEF Execution
<1>3. exec[w].now \in 0..MaxClock /\ exec[w].cache \subseteq Station
  BY <1>1 DEF Execution
<1>4. Revisions \subseteq [Key -> Nat] BY DEF Revisions
<1> QED BY <1>2, <1>3, <1>4

LEMMA StoreType ==
    ASSUME TypeOK
    PROVE  /\ feed \in [Key -> Nat] /\ table \in [Key -> Nat]
           /\ published \in [Key -> Nat]
           /\ clock \in Nat \ {0}
<1>1. feed \in [Key -> Nat] /\ table \in [Key -> Nat] BY DEF TypeOK, Revisions
<1>2. published \in [Key -> Nat] BY DEF TypeOK
<1>3. clock \in Nat \ {0} BY DEF TypeOK
<1> QED BY <1>1, <1>2, <1>3

LEMMA NowType ==
    ASSUME NEW e \in [Worker -> Execution], NEW v \in Worker
    PROVE  e[v].now \in Nat
BY DEF Execution

LEMMA RunType ==
    ASSUME TypeOK
    PROVE  \A r \in runs : r.start \in Nat
BY DEF TypeOK, Run

\* What LoadCaches and Fetch do to the locals, process by process.
LEMMA CacheStep ==
    ASSUME NEW e \in [Worker -> Execution], NEW w \in Worker, NEW S, NEW v \in Worker
    PROVE  LET f == [e EXCEPT ![w].pc = "fetch", ![w].cache = S]
           IN  /\ f[v].batch = e[v].batch /\ f[v].base = e[v].base
               /\ f[v].now = e[v].now
               /\ f[v].cache = IF v = w THEN S ELSE e[v].cache
               /\ f[v].pc = IF v = w THEN "fetch" ELSE e[v].pc
BY DEF Execution

LEMMA BatchStep ==
    ASSUME NEW e \in [Worker -> Execution], NEW w \in Worker, NEW b, NEW t,
           NEW v \in Worker
    PROVE  LET f == [e EXCEPT ![w].pc = "route", ![w].batch = b, ![w].base = t]
           IN  /\ f[v].batch = IF v = w THEN b ELSE e[v].batch
               /\ f[v].base = IF v = w THEN t ELSE e[v].base
               /\ f[v].now = e[v].now /\ f[v].cache = e[v].cache
               /\ f[v].pc = IF v = w THEN "route" ELSE e[v].pc
BY DEF Execution

LEMMA ExecType == TypeOK => exec \in [Worker -> Execution]
BY DEF TypeOK

LEMMA AsidePreserves ==
    ASSUME IInv, TypeOK', Aside
    PROVE  IInv'
<1> USE DEF IInv
<1>1. /\ \A v \in Worker : SameLocals(v) \/ ResetLocals(v)
      /\ UNCHANGED <<feed, published, table, runs>>
      /\ stations \subseteq stations' /\ clock <= clock'
  BY DEF Aside
<1>2. feed \in [Key -> Nat] /\ clock \in Nat /\ clock' \in Nat
  <2>1. clock' \in Nat BY DEF TypeOK
  <2> QED BY <2>1, StoreType
<1>3. BatchesArePublished'
  BY <1>1, <1>2 DEF BatchesArePublished, SameLocals, ResetLocals, Nothing
<1>4. BatchesFollowTable'
  BY <1>1 DEF BatchesFollowTable, SameLocals, ResetLocals, Nothing
<1>5. WindowsArePast'
  <2>1. \A v \in Worker : exec[v].now \in Nat /\ exec'[v].now \in Nat
    <3>1. \A v \in Worker : exec[v].now \in Nat BY LocalsType
    <3>2. \A v \in Worker : exec'[v].now \in Nat
      <4> SUFFICES ASSUME TypeOK' PROVE \A v \in Worker : exec'[v].now \in Nat
        OBVIOUS
      <4>1. exec' \in [Worker -> Execution] BY DEF TypeOK
      <4> QED BY <4>1, NowType
    <3> QED BY <3>1, <3>2
  <2>2. \A r \in runs : r.start \in Nat BY RunType
  <2> QED BY <1>1, <1>2, <2>1, <2>2 DEF WindowsArePast, SameLocals, ResetLocals
<1>6. BatchesAreComplete'
  BY <1>1 DEF BatchesAreComplete, Covered, SameLocals, ResetLocals
<1>7. RunsAreStored' BY <1>1 DEF RunsAreStored, Covered
<1>8. StoredRowsAreGenuine' BY <1>1 DEF StoredRowsAreGenuine, Rows
<1> QED BY <1>3, <1>4, <1>5, <1>6, <1>7, <1>8

\* A publication only raises revisions, and its instant is now: it lies before
\* no window that exists.
LEMMA PublishPreserves ==
    ASSUME IInv, TypeOK', NEW k \in Key, Publish(k)
    PROVE  IInv'
<1> USE DEF IInv
<1>1. /\ UNCHANGED <<exec, table, runs, stations, clock>>
      /\ feed' = [feed EXCEPT ![k] = @ + 1]
      /\ published' = IF feed[k] = 0 THEN [published EXCEPT ![k] = clock] ELSE published
  BY DEF Publish, storeVars
<1>2. /\ feed \in [Key -> Nat] /\ clock \in Nat \ {0} /\ table \in [Key -> Nat]
      /\ published \in [Key -> Nat]
  BY StoreType
<1>3. \A j \in Key : feed[j] <= feed'[j] BY <1>1, <1>2
<1>4. \A w \in Worker : exec[w].batch \in [Key -> Nat] /\ exec[w].now \in Nat
  BY LocalsType
<1>5. \A r \in runs : r.start \in Nat BY RunType
<1>6. BatchesArePublished'
  BY <1>1, <1>2, <1>3, <1>4 DEF BatchesArePublished
<1>7. BatchesFollowTable' BY <1>1 DEF BatchesFollowTable
<1>8. WindowsArePast' BY <1>1, <1>2, <1>3 DEF WindowsArePast
<1>9. \A j \in Key, s \in Nat : s <= clock /\ Covered(j, s)' => Covered(j, s)
  BY <1>1, <1>2 DEF Covered
<1>10. BatchesAreComplete'
  BY <1>1, <1>4, <1>9 DEF BatchesAreComplete, WindowsArePast, Fetching
<1>11. RunsAreStored' BY <1>1, <1>5, <1>9 DEF RunsAreStored, WindowsArePast
<1>12. StoredRowsAreGenuine'
  BY <1>1, <1>2, <1>3 DEF StoredRowsAreGenuine, Rows
<1> QED BY <1>6, <1>7, <1>8, <1>10, <1>11, <1>12

\* A cache is loaded from the registered stations.
LEMMA CachesPreserve ==
    ASSUME IInv, TypeOK', NEW w \in Worker, LoadCaches(w)
    PROVE  IInv'
<1> USE DEF IInv
<1>1. /\ UNCHANGED <<feed, published, table, runs, clock, stations>>
      /\ exec' = [exec EXCEPT ![w].pc = "fetch", ![w].cache = stations]
  BY DEF LoadCaches, feedVars, storeVars
<1>2. \A v \in Worker :
         /\ exec'[v].batch = exec[v].batch /\ exec'[v].base = exec[v].base
         /\ exec'[v].now = exec[v].now
         /\ exec'[v].cache = IF v = w THEN stations ELSE exec[v].cache
         /\ exec'[v].pc = IF v = w THEN "fetch" ELSE exec[v].pc
  BY <1>1, ExecType, CacheStep
<1>3. BatchesArePublished'
  <2> SUFFICES ASSUME NEW v \in Worker
               PROVE  /\ \A k \in Key : exec'[v].batch[k] <= feed'[k]
                      /\ exec'[v].cache \subseteq stations'
    BY DEF BatchesArePublished
  <2>1. \A k \in Key : exec'[v].batch[k] <= feed'[k]
    BY <1>1, <1>2 DEF BatchesArePublished
  <2>2. exec'[v].cache \subseteq stations'
    <3>1. CASE v = w
      <4>1. exec'[v].cache = stations BY <3>1, <1>2, Zenon
      <4> QED BY <4>1, <1>1, Zenon
    <3>2. CASE v # w BY <3>2, <1>1, <1>2 DEF BatchesArePublished
    <3> QED BY <3>1, <3>2
  <2> QED BY <2>1, <2>2
<1>4. BatchesFollowTable' BY <1>2 DEF BatchesFollowTable
<1>5. WindowsArePast' BY <1>1, <1>2 DEF WindowsArePast
<1>6. BatchesAreComplete'
  <2>1. \A v \in Worker : Fetching(v)' => Fetching(v) BY <1>2 DEF Fetching
  <2>2. \A s : \A k \in Key : Covered(k, s)' <=> Covered(k, s) BY <1>1 DEF Covered
  <2> QED BY <1>2, <2>1, <2>2 DEF BatchesAreComplete
<1>7. RunsAreStored' BY <1>1 DEF RunsAreStored, Covered
<1>8. StoredRowsAreGenuine' BY <1>1 DEF StoredRowsAreGenuine, Rows
<1> QED BY <1>3, <1>4, <1>5, <1>6, <1>7, <1>8

\* The feed holds at least what the table holds, and every covered slot.
LEMMA FetchPreserves ==
    ASSUME IInv, TypeOK', NEW w \in Worker, Fetch(w)
    PROVE  IInv'
<1> USE DEF IInv
<1>1. /\ UNCHANGED <<feed, published, table, runs, clock, stations>>
      /\ exec' = [exec EXCEPT ![w].pc = "route", ![w].batch = Fetched(exec[w].now),
                              ![w].base = table]
  BY DEF Fetch, feedVars, storeVars
<1>2. /\ feed \in [Key -> Nat] /\ table \in [Key -> Nat] /\ published \in [Key -> Nat]
      /\ exec[w].now \in Nat
  BY LocalsType, StoreType
<1>3. \A v \in Worker :
         /\ exec'[v].batch = IF v = w THEN Fetched(exec[w].now) ELSE exec[v].batch
         /\ exec'[v].base = IF v = w THEN table ELSE exec[v].base
         /\ exec'[v].now = exec[v].now /\ exec'[v].cache = exec[v].cache
         /\ exec'[v].pc = IF v = w THEN "route" ELSE exec[v].pc
  BY <1>1, ExecType, BatchStep
<1>4. \A k \in Key : Fetched(exec[w].now)[k] \in {0, feed[k]} BY DEF Fetched
<1>5. \A k \in Key : table[k] <= feed[k]
  BY <1>2 DEF StoredRowsAreGenuine, Rows
<1>6. BatchesArePublished'
  <2> SUFFICES ASSUME NEW v \in Worker
               PROVE  /\ \A k \in Key : exec'[v].batch[k] <= feed'[k]
                      /\ exec'[v].cache \subseteq stations'
    BY DEF BatchesArePublished
  <2>1. CASE v = w
    <3>1. exec'[v].batch = Fetched(exec[w].now) /\ exec'[v].cache = exec[v].cache
      BY <2>1, <1>3
    <3>2. \A k \in Key : Fetched(exec[w].now)[k] <= feed'[k]
      <4> SUFFICES ASSUME NEW k \in Key PROVE Fetched(exec[w].now)[k] <= feed[k]
        BY <1>1
      <4> QED BY <1>2, <1>4
    <3> QED BY <3>1, <3>2, <1>1 DEF BatchesArePublished
  <2>2. CASE v # w BY <2>2, <1>1, <1>3 DEF BatchesArePublished
  <2> QED BY <2>1, <2>2
<1>7. BatchesFollowTable'
  <2> SUFFICES ASSUME NEW v \in Worker, NEW k \in Key, exec'[v].batch[k] > 0
               PROVE  exec'[v].base[k] <= exec'[v].batch[k]
    BY DEF BatchesFollowTable
  <2>1. CASE v = w BY <2>1, <1>2, <1>3, <1>4, <1>5
  <2>2. CASE v # w BY <2>2, <1>3 DEF BatchesFollowTable
  <2> QED BY <2>1, <2>2
<1>8. WindowsArePast' BY <1>1, <1>3 DEF WindowsArePast
<1>9. \A k \in Key : Covered(k, exec[w].now) => Fetched(exec[w].now)[k] > 0
  BY <1>2 DEF Covered, Fetched, InWindow, WindowsArePast
<1>10. BatchesAreComplete'
  BY <1>1, <1>3, <1>9 DEF BatchesAreComplete, Covered, Fetching
<1>11. RunsAreStored' BY <1>1 DEF RunsAreStored, Covered
<1>12. StoredRowsAreGenuine' BY <1>1 DEF StoredRowsAreGenuine, Rows
<1> QED BY <1>6, <1>7, <1>8, <1>10, <1>11, <1>12

\* The upsert stores rows of the batch and keeps the others.
LEMMA WritePreserves ==
    ASSUME IInv, TypeOK', NEW w \in Worker, WriteBatch(w)
    PROVE  IInv'
<1> USE DEF IInv
<1> DEFINE r0 == [start |-> exec[w].now, known |-> exec[w].cache,
                  violations |-> Violations(w)]
<1>1. /\ UNCHANGED <<feed, published, clock, stations>>
      /\ table' = Upsert(w)
      /\ runs' = runs \cup {r0}
      /\ exec' = [exec EXCEPT ![w].pc = AfterWrite(w)]
      /\ exec[w].pc = "write"
  BY DEF WriteBatch, At, feedVars
<1>2. /\ feed \in [Key -> Nat] /\ table \in [Key -> Nat]
      /\ exec[w].batch \in [Key -> Nat] /\ exec[w].now \in Nat
      /\ r0.start = exec[w].now /\ r0.known = exec[w].cache
  <2>1. r0.start = exec[w].now /\ r0.known = exec[w].cache OBVIOUS
  <2> HIDE DEF r0
  <2> QED BY <2>1, LocalsType, StoreType
<1>3. \A v \in Worker : SameLocals(v)
  <2>1. AfterWrite(w) \in PC /\ AfterWrite(w) \notin {"route", "write"}
    BY Labels DEF AfterWrite
  <2> QED BY <1>1, <2>1, PcStep
<1> HIDE DEF r0
<1>4. BatchesArePublished' BY <1>1, <1>3 DEF BatchesArePublished, SameLocals
<1>5. BatchesFollowTable' BY <1>3 DEF BatchesFollowTable, SameLocals
<1>6. WindowsArePast' BY <1>1, <1>2, <1>3 DEF WindowsArePast, SameLocals
<1>7. BatchesAreComplete' BY <1>1, <1>3 DEF BatchesAreComplete, SameLocals, Covered
<1>8. \A k \in Key : table'[k] = IF k \in Stored(w) THEN exec[w].batch[k] ELSE table[k]
  BY <1>1 DEF Upsert
<1>9. \A k \in Stored(w) : /\ k \in Key \ Unmapped /\ exec[w].batch[k] > 0
                           /\ StationOf[k] \in exec[w].cache
  BY DEF Stored, NormalRows, Rows
<1>10. RunsAreStored'
  <2> SUFFICES ASSUME NEW r \in runs', NEW k \in Key \ Unmapped,
                      Covered(k, r.start)', StationOf[k] \in r.known
               PROVE  table'[k] > 0
    BY DEF RunsAreStored
  <2>1. Covered(k, r.start) BY <1>1 DEF Covered
  <2>2. CASE r \in runs BY <2>1, <2>2, <1>8, <1>9 DEF RunsAreStored
  <2>3. CASE r = r0
    <3>1. exec[w].batch[k] > 0
      BY <2>1, <2>3, <1>1, <1>2 DEF BatchesAreComplete, Fetching
    <3>2. k \in Stored(w) BY <2>3, <3>1, <1>2 DEF Stored, NormalRows, Rows
    <3> QED BY <3>1, <3>2, <1>8
  <2> QED BY <1>1, <2>2, <2>3
<1>11. StoredRowsAreGenuine'
  BY <1>1, <1>2, <1>8, <1>9 DEF StoredRowsAreGenuine, Rows, BatchesArePublished
<1> QED BY <1>4, <1>5, <1>6, <1>7, <1>10, <1>11

LEMMA InvariantStep == IInv /\ [Next]_vars => IInv'
<1> SUFFICES ASSUME IInv, [Next]_vars PROVE IInv' OBVIOUS
<1>1. TypeOK /\ TypeOK' BY TypeStep DEF IInv
<1>2. CASE \E k \in Key : Publish(k) BY <1>1, <1>2, PublishPreserves
<1>3. CASE \E w \in Worker : LoadCaches(w) BY <1>1, <1>3, CachesPreserve
<1>4. CASE \E w \in Worker : Fetch(w) BY <1>1, <1>4, FetchPreserves
<1>5. CASE \E w \in Worker : WriteBatch(w) BY <1>1, <1>5, WritePreserves
<1>6. CASE /\ \A k \in Key : ~Publish(k)
           /\ \A w \in Worker : ~LoadCaches(w) /\ ~Fetch(w) /\ ~WriteBatch(w)
  BY <1>1, <1>6, AsideSteps, AsidePreserves
<1> QED BY <1>2, <1>3, <1>4, <1>5, <1>6

\* The inductive invariant holds in every reachable state.
THEOREM Invariant == Spec => []IInv
BY InitInvariant, InvariantStep, PTL DEF Spec

------------------------------------------------------------------------------
(***************************************************************************)
(* What follows from the invariant.                                        *)
(***************************************************************************)

\* Every stored row is one the source published, of a registered station and a
\* known code (writer.py, _write_station_batch; backfill.py, _ensure_metadata).
THEOREM GenuineRows == Spec => []StoredRowsAreGenuine
<1>1. IInv => StoredRowsAreGenuine BY DEF IInv
<1> QED BY Invariant, <1>1, PTL

\* A finished execution has stored every slot of its window that was published
\* before it began (ingest.py, the overlap window of run_source).
THEOREM CoveredSlots == Spec => []CoveredSlotsAreStored
<1>1. IInv => CoveredSlotsAreStored
  BY DEF IInv, RunsAreStored, Covered, CoveredSlotsAreStored
<1> QED BY Invariant, <1>1, PTL

\* Only WriteBatch changes the table, and it writes the batch of its process.
LEMMA TableChanges ==
    ASSUME IInv, [Next]_vars, table' # table
    PROVE  \E w \in Worker : /\ WriteBatch(w) /\ feed' = feed
                             /\ table' = Upsert(w)
<1>1. TypeOK BY DEF IInv
<1>2. \A k \in Key : ~Publish(k) BY DEF Publish, storeVars
<1>3. \A w \in Worker : ~LoadCaches(w) /\ ~Fetch(w) BY DEF LoadCaches, Fetch, storeVars
<1>4. CASE \A w \in Worker : ~WriteBatch(w) BY <1>1, <1>2, <1>3, <1>4, AsideSteps DEF Aside
<1> QED BY <1>4 DEF WriteBatch, feedVars

\* A stored revision gives way to an older one only when the execution that
\* writes fetched the feed before the newer revision was committed
\* (writer.py, ON CONFLICT DO UPDATE without a guard).
THEOREM Regressions == Spec => OnlyOverlapRegresses
<1>1. ASSUME IInv, [Next]_vars
      PROVE  [\A k \in Key : table'[k] < table[k] =>
                 \E w \in Worker : WriteBatch(w) /\ exec[w].base[k] < table[k]]_vars
  <2>1. TypeOK BY <1>1 DEF IInv
  <2> SUFFICES ASSUME NEW k \in Key, table'[k] < table[k]
               PROVE  \E w \in Worker : WriteBatch(w) /\ exec[w].base[k] < table[k]
    OBVIOUS
  <2>2. table \in [Key -> Nat] BY <2>1, StoreType
  <2>3. table' # table BY <2>2
  <2>4. PICK w \in Worker : WriteBatch(w) /\ table' = Upsert(w)
    BY <1>1, <2>3, TableChanges
  <2>5. /\ exec[w].batch \in [Key -> Nat] /\ exec[w].base \in [Key -> Nat]
    BY <2>1, LocalsType
  <2>6. k \in Stored(w) /\ table'[k] = exec[w].batch[k]
    BY <2>2, <2>4 DEF Upsert
  <2>7. exec[w].batch[k] > 0 BY <2>6 DEF Stored, NormalRows, Rows
  <2>8. exec[w].base[k] <= exec[w].batch[k] BY <1>1, <2>7 DEF IInv, BatchesFollowTable
  <2> QED BY <2>2, <2>4, <2>5, <2>6, <2>8
<1> QED BY Invariant, <1>1, PTL DEF Spec, OnlyOverlapRegresses

\* The pipeline implements SourceMirror: a publication maps to a revision of
\* the feed, a write_batch to one commit, every other step to a stutter.
THEOREM Mirrors == Spec => MirrorsSource
<1>1. Init => Mirror!MirrorInit BY DEF Init, Mirror!MirrorInit, Mirror!Nothing, Nothing
<1>2. ASSUME IInv, [Next]_vars
      PROVE  [Mirror!MirrorNext]_(Mirror!mirrorVars)
  <2>1. TypeOK BY <1>2 DEF IInv
  <2>2. CASE table' # table
    <3>1. PICK w \in Worker : WriteBatch(w) /\ feed' = feed /\ table' = Upsert(w)
      BY <1>2, <2>2, TableChanges
    <3> DEFINE batch == [k \in Key |-> IF k \in Stored(w) THEN exec[w].batch[k] ELSE 0]
    <3>2. exec[w].batch \in Revisions BY <2>1 DEF TypeOK, Execution
    <3>3. batch \in [Key -> 0..MaxRevision] BY <3>2 DEF Revisions
    <3>4. \A k \in Key : batch[k] <= feed[k]
      BY <1>2, <2>1, StoreType DEF IInv, BatchesArePublished
    <3>5. \A k \in Stored(w) : exec[w].batch[k] # 0
      BY <2>1, LocalsType DEF Stored, NormalRows, Rows
    <3>6. table' = [k \in Key |-> IF batch[k] = 0 THEN table[k] ELSE batch[k]]
      BY <3>1, <3>5 DEF Upsert
    <3>7. Mirror!Commit(batch) BY <3>1, <3>4, <3>6 DEF Mirror!Commit
    <3> QED BY <3>3, <3>7 DEF Mirror!MirrorNext
  <2>3. CASE table' = table /\ \E k \in Key : Publish(k)
    <3>1. PICK k \in Key : Publish(k) BY <2>3
    <3>2. Mirror!Revise(k) BY <2>3, <3>1 DEF Publish, Mirror!Revise
    <3> QED BY <3>2 DEF Mirror!MirrorNext
  <2>4. CASE table' = table /\ \A k \in Key : ~Publish(k)
    <3>1. feed' = feed
      <4>1. ASSUME NEW w \in Worker, LoadCaches(w) \/ Fetch(w) \/ WriteBatch(w)
            PROVE  feed' = feed
        BY <4>1 DEF LoadCaches, Fetch, WriteBatch, feedVars
      <4> QED BY <1>2, <2>1, <2>4, <4>1, AsideSteps DEF Aside
    <3> QED BY <2>4, <3>1 DEF Mirror!mirrorVars
  <2> QED BY <2>2, <2>3, <2>4
<1> QED BY Invariant, <1>1, <1>2, PTL DEF Spec, MirrorsSource, Mirror!MirrorSpec

------------------------------------------------------------------------------
(***************************************************************************)
(* The freshness metric.  An execution that is about to record a success   *)
(* has offered rows, and those it could store are in the table.            *)
(***************************************************************************)

RecordersStored ==
    \A w \in Worker : At(w, "record") =>
        /\ NormalRows(w) # {}
        /\ \A k \in Stored(w) : table[k] > 0

MetricInv == IInv /\ RecordersStored

\* An execution comes to write_batch only from the routing, and from there only
\* to record_success; it keeps its caches and its batch.
LEMMA StageStays ==
    ASSUME TypeOK, [Next]_vars, NEW v \in Worker, NEW label,
           \/ label = "write" /\ ~Route(v)
           \/ label = "record" /\ ~WriteBatch(v),
           At(v, label)'
    PROVE  /\ At(v, label)
           /\ exec'[v].cache = exec[v].cache /\ exec'[v].batch = exec[v].batch
<1> USE DEF At
<1> DEFINE Goal == /\ exec[v].pc = label
                   /\ exec'[v].cache = exec[v].cache /\ exec'[v].batch = exec[v].batch
<1>0. /\ exec \in [Worker -> Execution] /\ exec'[v].pc = label
      /\ label \in {"write", "record"}
  BY DEF TypeOK
<1>1. CASE Tick \/ UNCHANGED vars BY <1>0, <1>1 DEF Tick, vars
<1>2. CASE \E k \in Key : Publish(k) BY <1>0, <1>2 DEF Publish
<1>3. ASSUME NEW w \in Worker, NEW n \in Attempt, Receive(w, n) PROVE Goal
  BY <1>0, <1>3 DEF Receive, Idle
<1>4. ASSUME NEW w \in Worker, Discover(w) \/ LoadCaches(w) \/ Fetch(w) PROVE Goal
  <2>1. /\ \A u \in Worker \ {w} : exec'[u] = exec[u]
        /\ exec'[w].pc \notin {"write", "record"}
    BY <1>0, <1>4 DEF Discover, LoadCaches, Fetch, Execution
  <2> QED BY <1>0, <2>1
<1>5. ASSUME NEW w \in Worker, RecordSuccess(w) \/ Fail(w) \/ Ack(w) \/ ProcessLost(w)
      PROVE  Goal
  <2>1. /\ \A u \in Worker \ {w} : exec'[u] = exec[u]
        /\ exec'[w].pc \notin {"write", "record"}
    BY <1>0, <1>5 DEF RecordSuccess, Fail, Ack, ProcessLost, Idle, Execution
  <2> QED BY <1>0, <2>1
<1>6. ASSUME NEW w \in Worker,
             VisibilityTimeout(w) \/ \E s \in Station : RegisterStation(w, s)
      PROVE  Goal
  BY <1>0, <1>6 DEF VisibilityTimeout, RegisterStation, Execution
<1>7. ASSUME NEW w \in Worker, WriteBatch(w) PROVE Goal
  <2>1. /\ \A u \in Worker \ {w} : exec'[u] = exec[u]
        /\ exec'[w].pc # "write"
    BY <1>0, <1>7 DEF WriteBatch, AfterWrite, Execution
  <2> QED BY <1>0, <1>7, <2>1
<1>10. ASSUME NEW w \in Worker, Route(w) PROVE Goal
  <2>1. /\ \A u \in Worker \ {w} : exec'[u] = exec[u]
        /\ exec'[w].pc = "write"
    BY <1>0, <1>10 DEF Route, Execution
  <2> QED BY <1>0, <1>10, <2>1
<1>8. CASE WorkerCrash BY <1>0, <1>8 DEF WorkerCrash, Idle
<1>9. ASSUME NEW w \in Worker, DlqWork(w) PROVE Goal
  <2>1. exec' = exec BY <1>9, DlqWorkLeaves
  <2> QED BY <1>0, <2>1
<1> QED
  BY <1>1, <1>2, <1>3, <1>4, <1>5, <1>6, <1>7, <1>8, <1>9, <1>10 DEF Next, DlqWork

\* The metric is written by record_success alone.
LEMMA MetricChanges ==
    ASSUME [Next]_vars, \A w \in Worker : ~RecordSuccess(w)
    PROVE  lastSuccess' = lastSuccess
<1>1. ASSUME NEW w \in Worker, DlqWork(w) PROVE lastSuccess' = lastSuccess
  BY <1>1, DlqWorkLeaves
<1> QED
  BY <1>1
  DEF Next, DlqWork, vars, Tick, Publish, Receive, Discover, RegisterStation, LoadCaches,
      Fetch, Route, WriteBatch, Ack, Fail, VisibilityTimeout, ProcessLost, WorkerCrash

\* A row that is there stays there.
LEMMA RowsStay ==
    ASSUME IInv, [Next]_vars, NEW k \in Key, table[k] > 0
    PROVE  table'[k] > 0
<1>1. CASE table' = table BY <1>1
<1>2. CASE table' # table
  <2>1. PICK w \in Worker : table' = Upsert(w) BY <1>2, TableChanges
  <2>2. \A j \in Stored(w) : exec[w].batch[j] > 0 BY DEF Stored, NormalRows, Rows
  <2> QED BY <2>1, <2>2 DEF Upsert
<1> QED BY <1>1, <1>2

LEMMA MetricStep == MetricInv /\ [Next]_vars => MetricInv'
<1> SUFFICES ASSUME MetricInv, [Next]_vars PROVE MetricInv' OBVIOUS
<1>1. IInv /\ IInv' BY InvariantStep DEF MetricInv
<1>2. TypeOK BY <1>1 DEF IInv
<1>3. exec \in [Worker -> Execution] BY <1>2 DEF TypeOK
<1> SUFFICES ASSUME NEW v \in Worker, At(v, "record")'
             PROVE  /\ NormalRows(v)' # {}
                    /\ \A k \in Stored(v)' : table'[k] > 0
  BY <1>1 DEF MetricInv, RecordersStored
<1>4. exec'[v].cache = exec[v].cache /\ exec'[v].batch = exec[v].batch
  <2>1. CASE ~WriteBatch(v) BY <1>2, <2>1, StageStays
  <2>2. CASE WriteBatch(v) BY <1>3, <2>2 DEF WriteBatch, Execution
  <2> QED BY <2>1, <2>2
<1>5. NormalRows(v)' = NormalRows(v) /\ Stored(v)' = Stored(v)
  BY <1>4 DEF NormalRows, Stored, Rows
<1>6. CASE ~WriteBatch(v)
  <2>1. At(v, "record") BY <1>2, <1>6, StageStays
  <2>2. NormalRows(v) # {} /\ \A k \in Stored(v) : table[k] > 0
    BY <2>1 DEF MetricInv, RecordersStored
  <2>3. Stored(v) \subseteq Key BY DEF Stored, NormalRows, Rows
  <2>4. \A k \in Stored(v) : table'[k] > 0 BY <1>1, <2>2, <2>3, RowsStay
  <2> QED BY <1>5, <2>2, <2>4
<1>7. CASE WriteBatch(v)
  <2>1. exec'[v].pc = AfterWrite(v) BY <1>3, <1>7 DEF WriteBatch, Execution
  <2>2. NormalRows(v) # {} BY <2>1 DEF At, AfterWrite
  <2>3. \A k \in Stored(v) : k \in Key /\ exec[v].batch[k] > 0
    BY DEF Stored, NormalRows, Rows
  <2>4. \A k \in Stored(v) : table'[k] > 0 BY <1>7, <2>3 DEF WriteBatch, Upsert
  <2> QED BY <1>5, <2>2, <2>4
<1> QED BY <1>6, <1>7

LEMMA MetricInvariant == Spec => []MetricInv
<1>1. Init => MetricInv
  <2> SUFFICES ASSUME Init PROVE MetricInv OBVIOUS
  <2>1. \A w \in Worker : exec[w].pc = "idle" BY DEF Init, Idle
  <2> QED BY <2>1, InitInvariant DEF MetricInv, RecordersStored, At
<1> QED BY <1>1, MetricStep, PTL DEF Spec

\* The metric moves only by an execution whose own rows were offered and, as far
\* as its caches know their stations, are in the hypertable (writer.py,
\* write_batch and record_success; health.py, record_success).
THEOREM SuccessFollowsBatch == Spec => SuccessFollowsOwnBatch
<1>1. ASSUME MetricInv, [Next]_vars
      PROVE  [lastSuccess' # lastSuccess =>
                 /\ lastSuccess' = clock
                 /\ \E w \in Worker : /\ RecordSuccess(w)
                                       /\ NormalRows(w) # {}
                                       /\ \A k \in Stored(w) : table[k] > 0]_vars
  <2> SUFFICES ASSUME lastSuccess' # lastSuccess
               PROVE  /\ lastSuccess' = clock
                      /\ \E w \in Worker : /\ RecordSuccess(w)
                                            /\ NormalRows(w) # {}
                                            /\ \A k \in Stored(w) : table[k] > 0
    OBVIOUS
  <2>1. PICK w \in Worker : RecordSuccess(w) BY <1>1, MetricChanges
  <2>2. lastSuccess' = clock /\ At(w, "record") BY <2>1 DEF RecordSuccess
  <2>3. NormalRows(w) # {} /\ \A k \in Stored(w) : table[k] > 0
    BY <1>1, <2>2 DEF MetricInv, RecordersStored
  <2> QED BY <2>1, <2>2, <2>3
<1> QED BY MetricInvariant, <1>1, PTL DEF Spec, SuccessFollowsOwnBatch

------------------------------------------------------------------------------
(***************************************************************************)
(* Dead letters.  A violation that an execution has routed is in one of    *)
(* the known places, and no step takes it out of all of them.              *)
(***************************************************************************)

LostSoFar == UNION {dlqLost[l] : l \in Loss}

Accounted == InDlqQueue \cup InDlqHands \cup Listed(dlqList) \cup LostSoFar

RoutedAreAccounted == \A w \in Worker : At(w, "write") => Violations(w) \subseteq Accounted

RunsAreAccounted == \A r \in runs : r.violations \subseteq Accounted

DlqInv == TypeOK /\ RoutedAreAccounted /\ RunsAreAccounted

\* A loss is added to those of its cause.
LEMMA LostGrows ==
    ASSUME dlqLost \in [Loss -> SUBSET Unmapped], NEW l \in Loss, NEW v, Lose(l, v)
    PROVE  LostSoFar' = LostSoFar \cup v
<1>1. /\ dlqLost'[l] = dlqLost[l] \cup v
      /\ \A m \in Loss \ {l} : dlqLost'[m] = dlqLost[m]
  BY DEF Lose
<1> QED BY <1>1 DEF LostSoFar

\* What is in the hands of a process is there as long as the process keeps it.
LEMMA HandsStay ==
    ASSUME NEW w \in Worker, \A u \in Worker \ {w} : dlqExec'[u] = dlqExec[u]
    PROVE  InDlqHands \subseteq InDlqHands' \cup
               (IF dlqExec[w].pc = "persist" THEN dlqExec[w].violations ELSE {})
<1> SUFFICES ASSUME NEW u \in Worker, dlqExec[u].pc = "persist",
                    NEW x \in dlqExec[u].violations
             PROVE  x \in InDlqHands' \cup
                        (IF dlqExec[w].pc = "persist" THEN dlqExec[w].violations ELSE {})
  BY DEF InDlqHands
<1>1. CASE u = w BY <1>1
<1>2. CASE u # w
  <2>1. dlqExec'[u] = dlqExec[u] BY <1>2
  <2> QED BY <2>1 DEF InDlqHands
<1> QED BY <1>1, <1>2

\* What is pushed is listed afterwards, or counted among the losses.
LEMMA PushedIsAccounted ==
    ASSUME TypeOK, NEW w \in Worker, DlqPersist(w)
    PROVE  dlqExec[w].violations \cup Listed(dlqList) \cup LostSoFar
              \subseteq Listed(dlqList') \cup LostSoFar'
<1> DEFINE v == dlqExec[w].violations
<1>1. dlqList \in Seq(Violation) /\ v \in Violation
      /\ dlqLost \in [Loss -> SUBSET Unmapped]
  BY HandsType DEF TypeOK, DlqPersist
<1>6. /\ dlqList' = Trimmed(Pushed(v))
      /\ Lose("trimmed", Listed(Pushed(v)) \ Listed(Trimmed(Pushed(v))))
  BY DEF DlqPersist
<1> HIDE DEF v
<1>2. /\ Len(Pushed(v)) = Len(dlqList) + 1
      /\ Pushed(v)[1] = v
      /\ \A i \in 1..Len(dlqList) : Pushed(v)[i + 1] = dlqList[i]
      /\ DOMAIN Pushed(v) = 1..Len(dlqList) + 1
      /\ DOMAIN dlqList = 1..Len(dlqList) /\ Len(dlqList) \in Nat
  BY <1>1 DEF Pushed
<1>3. v \subseteq Listed(Pushed(v))
  <2>1. 1 \in DOMAIN Pushed(v) BY <1>2
  <2> QED BY <1>2, <2>1 DEF Listed
<1>4. Listed(dlqList) \subseteq Listed(Pushed(v))
  <2> SUFFICES ASSUME NEW i \in DOMAIN dlqList, NEW x \in dlqList[i]
               PROVE  x \in Listed(Pushed(v))
    BY DEF Listed
  <2>1. i + 1 \in DOMAIN Pushed(v) /\ Pushed(v)[i + 1] = dlqList[i] BY <1>2
  <2> QED BY <2>1 DEF Listed
<1>5. LostSoFar' = LostSoFar \cup (Listed(Pushed(v)) \ Listed(dlqList'))
  <2>1. LostSoFar' = LostSoFar \cup (Listed(Pushed(v)) \ Listed(Trimmed(Pushed(v))))
    BY <1>1, <1>6, LostGrows, Causes
  <2> QED BY <1>6, <2>1
<1> QED BY <1>3, <1>4, <1>5 DEF v

\* No step takes a violation out of all the places at once.
LEMMA AccountedGrows ==
    ASSUME TypeOK, [Next]_vars
    PROVE  Accounted \subseteq Accounted'
<1>0. /\ dlqQueue \in [Violation -> Nat] /\ dlqExec \in [Worker -> DlqExecution]
      /\ dlqLost \in [Loss -> SUBSET Unmapped]
  BY DEF TypeOK
<1>1. CASE UNCHANGED dlqVars
  BY <1>1 DEF dlqVars, Accounted, InDlqQueue, InDlqHands, LostSoFar
<1>2. ASSUME NEW w \in Worker, Route(w) PROVE Accounted \subseteq Accounted'
  <2>1. /\ dlqQueue' = [v \in Violation |->
                           IF v = Violations(w) THEN dlqQueue[v] + 1 ELSE dlqQueue[v]]
        /\ dlqList' = dlqList /\ dlqLost' = dlqLost /\ dlqExec' = dlqExec
    BY <1>2 DEF Route
  <2>2. \A v \in Violation : dlqQueue[v] > 0 => dlqQueue'[v] > 0 BY <1>0, <2>1
  <2>3. InDlqQueue \subseteq InDlqQueue' BY <2>2 DEF InDlqQueue
  <2> QED BY <2>1, <2>3 DEF Accounted, InDlqHands, LostSoFar
<1>3. ASSUME NEW w \in Worker, NEW v \in Violation, DlqReceive(w, v)
      PROVE  Accounted \subseteq Accounted'
  <2>1. /\ dlqExec[w].pc = "idle"
        /\ \A d \in Violation \ {v} : dlqQueue'[d] = dlqQueue[d]
        /\ \A u \in Worker \ {w} : dlqExec'[u] = dlqExec[u]
        /\ dlqExec'[w] = [pc |-> "persist", violations |-> v]
        /\ dlqList' = dlqList /\ dlqLost' = dlqLost
    BY <1>0, <1>3 DEF DlqReceive, Free
  <2>2. InDlqHands \subseteq InDlqHands' BY <2>1, HandsStay
  <2>3. v \subseteq InDlqHands' BY <2>1 DEF InDlqHands
  <2>4. InDlqQueue \subseteq InDlqQueue' \cup v
    <3> SUFFICES ASSUME NEW d \in Violation, dlqQueue[d] > 0, d # v
                 PROVE  d \subseteq InDlqQueue'
      BY DEF InDlqQueue
    <3>1. dlqQueue'[d] > 0 BY <2>1
    <3> QED BY <3>1 DEF InDlqQueue
  <2> QED BY <2>1, <2>2, <2>3, <2>4 DEF Accounted, LostSoFar
<1>4. ASSUME NEW w \in Worker, DlqPersist(w) PROVE Accounted \subseteq Accounted'
  <2>1. \A u \in Worker \ {w} : dlqExec'[u] = dlqExec[u] BY <1>0, <1>4 DEF DlqPersist
  <2>2. InDlqHands \subseteq InDlqHands' \cup dlqExec[w].violations
    BY <1>4, <2>1, HandsStay DEF DlqPersist
  <2>3. InDlqQueue' = InDlqQueue BY <1>4 DEF DlqPersist, InDlqQueue
  <2> QED BY <1>4, <2>2, <2>3, PushedIsAccounted DEF Accounted
<1>5. ASSUME NEW w \in Worker, DlqPersistFailed(w) PROVE Accounted \subseteq Accounted'
  <2>1. \A u \in Worker \ {w} : dlqExec'[u] = dlqExec[u]
    BY <1>0, <1>5 DEF DlqPersistFailed
  <2>2. InDlqHands \subseteq InDlqHands' \cup dlqExec[w].violations
    BY <1>5, <2>1, HandsStay DEF DlqPersistFailed
  <2>3. LostSoFar' = LostSoFar \cup dlqExec[w].violations
    BY <1>0, <1>5, LostGrows, Causes DEF DlqPersistFailed
  <2>4. InDlqQueue' = InDlqQueue /\ dlqList' = dlqList
    BY <1>5 DEF DlqPersistFailed, InDlqQueue
  <2> QED BY <2>2, <2>3, <2>4 DEF Accounted
<1>6. ASSUME NEW w \in Worker, DlqAck(w) PROVE Accounted \subseteq Accounted'
  <2>1. /\ \A u \in Worker \ {w} : dlqExec'[u] = dlqExec[u]
        /\ dlqExec[w].pc # "persist"
    BY <1>0, <1>6 DEF DlqAck
  <2>2. InDlqHands \subseteq InDlqHands' BY <2>1, HandsStay
  <2> QED BY <1>6, <2>2 DEF DlqAck, Accounted, InDlqQueue, LostSoFar
<1>7. ASSUME NEW w \in Worker, ProcessLost(w) PROVE Accounted \subseteq Accounted'
  <2> DEFINE v == IF dlqExec[w].pc = "persist" THEN dlqExec[w].violations ELSE {}
  <2>1. \A u \in Worker \ {w} : dlqExec'[u] = dlqExec[u] BY <1>0, <1>7 DEF ProcessLost
  <2>2. InDlqHands \subseteq InDlqHands' \cup v BY <2>1, HandsStay
  <2>3. Lose("killed", v) BY <1>7 DEF ProcessLost
  <2>5. InDlqQueue' = InDlqQueue /\ dlqList' = dlqList BY <1>7 DEF ProcessLost, InDlqQueue
  <2> HIDE DEF v
  <2>4. LostSoFar' = LostSoFar \cup v BY <1>0, <2>3, LostGrows, Causes
  <2> QED BY <2>2, <2>4, <2>5 DEF Accounted
<1>8. CASE WorkerCrash
  <2>1. /\ dlqQueue' = [v \in Violation |-> dlqQueue[v] + Cardinality(DlqDeliveries(v))]
        /\ dlqList' = dlqList /\ dlqLost' = dlqLost
    BY <1>8 DEF WorkerCrash
  <2>2. \A v \in Violation : dlqQueue[v] > 0 => dlqQueue'[v] > 0
    BY <1>0, <2>1, DlqCount
  <2>3. InDlqHands \subseteq InDlqQueue'
    <3> SUFFICES ASSUME NEW w \in Worker, dlqExec[w].pc = "persist"
                 PROVE  dlqExec[w].violations \subseteq InDlqQueue'
      BY DEF InDlqHands
    <3>1. PICK v \in Violation : v = dlqExec[w].violations BY HandsType
    <3>2. w \in DlqDeliveries(v) /\ DlqDeliveries(v) \subseteq Worker
      BY <3>1 DEF DlqDeliveries
    <3>3. IsFiniteSet(DlqDeliveries(v)) BY <3>2, FS_Subset
    <3>4. Cardinality(DlqDeliveries(v)) # 0 BY <3>2, <3>3, FS_EmptySet
    <3>5. dlqQueue'[v] > 0 BY <1>0, <2>1, <3>4, DlqCount
    <3> QED BY <3>1, <3>5 DEF InDlqQueue
  <2>4. InDlqQueue \subseteq InDlqQueue' BY <2>2 DEF InDlqQueue
  <2> QED BY <2>1, <2>3, <2>4 DEF Accounted, LostSoFar
<1>9. CASE /\ ~WorkerCrash
           /\ \A w \in Worker : ~Route(w) /\ ~ProcessLost(w) /\ ~DlqWork(w)
  <2>1. UNCHANGED dlqVars
    BY <1>9 DEF Next, DlqWork, vars, Tick, Publish, Receive, Discover, RegisterStation,
                LoadCaches, Fetch, WriteBatch, RecordSuccess, Ack, Fail,
                VisibilityTimeout
  <2> QED BY <1>1, <2>1
<1> QED BY <1>2, <1>3, <1>4, <1>5, <1>6, <1>7, <1>8, <1>9 DEF DlqWork

LEMMA DlqStep == DlqInv /\ [Next]_vars => DlqInv'
<1> SUFFICES ASSUME DlqInv, [Next]_vars PROVE DlqInv' OBVIOUS
<1> USE DEF At
<1>1. TypeOK /\ TypeOK' BY TypeStep DEF DlqInv
<1>2. Accounted \subseteq Accounted' BY <1>1, AccountedGrows
<1>3. RoutedAreAccounted'
  <2> SUFFICES ASSUME NEW w \in Worker, At(w, "write")'
               PROVE  Violations(w)' \subseteq Accounted'
    BY DEF RoutedAreAccounted
  <2>1. CASE ~Route(w)
    <3>1. At(w, "write") /\ exec'[w].batch = exec[w].batch BY <1>1, <2>1, StageStays
    <3>2. Violations(w)' = Violations(w) BY <3>1 DEF Violations, Rows
    <3> QED BY <1>2, <3>1, <3>2 DEF DlqInv, RoutedAreAccounted
  <2>2. CASE Route(w)
    <3>1. exec'[w].batch = exec[w].batch BY <1>1, <2>2 DEF Route, TypeOK, Execution
    <3>2. Violations(w)' = Violations(w) BY <3>1 DEF Violations, Rows
    <3>3. CASE Violations(w) = {} BY <3>2, <3>3
    <3>4. CASE Violations(w) # {}
      <4>3. Violations(w) \in SUBSET Unmapped BY DEF Violations
      <4>1. Violations(w) \in Violation BY <3>4, <4>3 DEF Violation
      <4>2. dlqQueue'[Violations(w)] > 0
        <5>1. dlqQueue'[Violations(w)] = dlqQueue[Violations(w)] + 1
          BY <2>2, <4>1 DEF Route
        <5> QED BY <1>1, <4>1, <5>1 DEF TypeOK
      <4> QED BY <3>2, <4>1, <4>2 DEF Accounted, InDlqQueue
    <3> QED BY <3>3, <3>4
  <2> QED BY <2>1, <2>2
<1>4. RunsAreAccounted'
  <2>1. \A r \in runs : r.violations \subseteq Accounted
    BY DEF DlqInv, RunsAreAccounted
  <2>2. \A r \in runs' : r.violations \subseteq Accounted'
    <3>1. CASE \A w \in Worker : ~WriteBatch(w)
      <4>1. runs' = runs
        <5>1. ASSUME NEW w \in Worker, DlqWork(w) PROVE runs' = runs
          BY <5>1, DlqWorkLeaves DEF storeVars
        <5> QED
          BY <3>1, <5>1
          DEF Next, DlqWork, vars, Tick, Publish, Receive, Discover, RegisterStation,
              LoadCaches, Fetch, Route, RecordSuccess, Ack, Fail, VisibilityTimeout,
              ProcessLost, WorkerCrash, storeVars
      <4> QED BY <1>2, <2>1, <4>1
    <3>2. CASE \E w \in Worker : WriteBatch(w)
      <4>1. PICK w \in Worker : WriteBatch(w) BY <3>2
      <4>2. Violations(w) \subseteq Accounted
        BY <4>1 DEF WriteBatch, DlqInv, RoutedAreAccounted
      <4>3. \A r \in runs' : r \in runs \/ r.violations = Violations(w)
        BY <4>1 DEF WriteBatch
      <4> QED BY <1>2, <2>1, <4>2, <4>3
    <3> QED BY <3>1, <3>2
  <2> QED BY <2>2 DEF RunsAreAccounted
<1> QED BY <1>1, <1>3, <1>4 DEF DlqInv

LEMMA DlqFollows == DlqInv => ViolationsAreAccountedFor
BY DEF DlqInv, RunsAreAccounted, Accounted, LostSoFar, ViolationsAreAccountedFor

LEMMA DlqInit == Init => DlqInv
<1> SUFFICES ASSUME Init PROVE DlqInv OBVIOUS
<1>1. \A w \in Worker : exec[w].pc = "idle" BY DEF Init, Idle
<1> QED
  BY <1>1, InitType
  DEF Init, DlqInv, RoutedAreAccounted, RunsAreAccounted, At

\* D-20: a violation of an execution that got through write_batch waits in the
\* dlq queue, is in the hands of a dlq_route, is in the Redis list, or was lost
\* to the trim, to a failed pipeline or with a killed process (ingest.py,
\* run_source and dlq_route; celery_app.py, task_acks_late).
THEOREM AccountedViolations == Spec => []ViolationsAreAccountedFor
<1>1. DlqInv => ViolationsAreAccountedFor BY DlqFollows
<1> QED BY DlqInit, <1>1, DlqStep, PTL DEF Spec

------------------------------------------------------------------------------
(***************************************************************************)
(* Counting.  A function into Nat counts things of several kinds; its      *)
(* units are these things one by one, so that the laws of Cardinality      *)
(* replace an induction over sums.                                         *)
(***************************************************************************)

Units(S, f) == UNION {{x} \X (1..f[x]) : x \in S}

LEMMA UnitsMembers ==
    ASSUME NEW S, NEW f, NEW z
    PROVE  z \in Units(S, f) <=> \E x \in S : \E i \in 1..f[x] : z = <<x, i>>
BY DEF Units

LEMMA UnitsGrow ==
    ASSUME NEW S, NEW f, NEW g, \A x \in S : f[x] \in Nat /\ g[x] \in Nat /\ g[x] <= f[x]
    PROVE  Units(S, g) \subseteq Units(S, f)
<1> SUFFICES ASSUME NEW z \in Units(S, g) PROVE z \in Units(S, f) OBVIOUS
<1>1. PICK x \in S : \E i \in 1..g[x] : z = <<x, i>> BY UnitsMembers
<1>2. \A i \in 1..g[x] : i \in 1..f[x] OBVIOUS
<1> QED BY <1>1, <1>2, UnitsMembers

LEMMA DisjointUnion ==
    ASSUME NEW S, NEW T, IsFiniteSet(S), IsFiniteSet(T), S \cap T = {}
    PROVE  /\ IsFiniteSet(S \cup T)
           /\ Cardinality(S \cup T) = Cardinality(S) + Cardinality(T)
<1>1. Cardinality(S) \in Nat /\ Cardinality(T) \in Nat BY FS_CardinalityType
<1>2. /\ IsFiniteSet(S \cup T)
      /\ Cardinality(S \cup T) = Cardinality(S) + Cardinality(T) - Cardinality(S \cap T)
  BY FS_Union
<1>3. Cardinality(S \cap T) = 0 BY FS_EmptySet
<1> QED BY <1>1, <1>2, <1>3

\* m things more of one kind.
LEMMA UnitsAdd ==
    ASSUME NEW S, NEW f \in [S -> Nat], NEW x \in S, NEW m \in Nat,
           NEW g, g[x] = f[x] + m, \A y \in S \ {x} : g[y] = f[y],
           IsFiniteSet(Units(S, f))
    PROVE  /\ IsFiniteSet(Units(S, g))
           /\ Cardinality(Units(S, g)) = Cardinality(Units(S, f)) + m
<1> DEFINE next == f[x] + 1 .. f[x] + m
           more == {x} \X next
<1>0. f[x] \in Nat OBVIOUS
<1>1. IsFiniteSet(more) /\ Cardinality(more) = m
  <2>1. IsFiniteSet({x}) /\ Cardinality({x}) = 1 BY FS_Singleton
  <2>2. IsFiniteSet(next) /\ Cardinality(next) = m
    <3>1. f[x] + 1 \in Int /\ f[x] + m \in Int BY <1>0
    <3>2. /\ IsFiniteSet(next)
          /\ Cardinality(next) = IF f[x] + 1 > f[x] + m THEN 0
                                 ELSE (f[x] + m) - (f[x] + 1) + 1
      BY <3>1, FS_Interval
    <3> HIDE DEF next
    <3> QED BY <1>0, <3>2
  <2> HIDE DEF next
  <2>3. IsFiniteSet(more) /\ Cardinality(more) = Cardinality({x}) * Cardinality(next)
    BY <2>1, <2>2, FS_Product
  <2> QED BY <2>1, <2>2, <2>3
<1>2. Units(S, g) = Units(S, f) \cup more
  <2>1. ASSUME NEW z PROVE z \in Units(S, g) <=> z \in Units(S, f) \cup more
    <3>1. z \in more <=> \E i \in next : z = <<x, i>> OBVIOUS
    <3>2. g[x] = f[x] + m /\ \A y \in S \ {x} : g[y] = f[y] OBVIOUS
    <3>3. \A i : i \in 1..g[x] <=> i \in 1..f[x] \/ i \in next BY <1>0, <3>2
    <3> HIDE DEF next, more
    <3>4. \A h : z \in Units(S, h) <=> \E y \in S : \E i \in 1..h[y] : z = <<y, i>>
      BY UnitsMembers
    <3>6. (\E y \in S : \E i \in 1..g[y] : z = <<y, i>>)
            <=> \/ \E y \in S \ {x} : \E i \in 1..f[y] : z = <<y, i>>
                \/ \E i \in 1..g[x] : z = <<x, i>>
      BY <3>2
    <3>7. (\E y \in S : \E i \in 1..f[y] : z = <<y, i>>)
            <=> \/ \E y \in S \ {x} : \E i \in 1..f[y] : z = <<y, i>>
                \/ \E i \in 1..f[x] : z = <<x, i>>
      OBVIOUS
    <3> QED BY <3>1, <3>3, <3>4, <3>6, <3>7
  <2> QED BY <2>1
<1>3. Units(S, f) \cap more = {}
  <2> SUFFICES ASSUME NEW z \in more, z \in Units(S, f) PROVE FALSE OBVIOUS
  <2>1. PICK i \in next : z = <<x, i>> OBVIOUS
  <2>2. PICK y \in S : \E j \in 1..f[y] : z = <<y, j>> BY UnitsMembers
  <2> QED BY <1>0, <2>1, <2>2
<1> HIDE DEF more
<1>4. Cardinality(Units(S, f)) \in Nat BY FS_CardinalityType
<1> QED BY <1>1, <1>2, <1>3, <1>4, DisjointUnion

\* One thing less.
LEMMA UnitsRemove ==
    ASSUME NEW S, NEW f \in [S -> Nat], NEW x \in S, f[x] > 0,
           NEW g \in [S -> Nat], g[x] = f[x] - 1, \A y \in S \ {x} : g[y] = f[y],
           IsFiniteSet(Units(S, f))
    PROVE  /\ IsFiniteSet(Units(S, g))
           /\ Cardinality(Units(S, f)) = Cardinality(Units(S, g)) + 1
<1>1. f[x] = g[x] + 1 /\ \A y \in S \ {x} : f[y] = g[y] OBVIOUS
<1>2. Units(S, g) \subseteq Units(S, f)
  <2>1. \A y \in S : f[y] \in Nat /\ g[y] \in Nat /\ g[y] <= f[y]
    OBVIOUS
  <2> QED BY <2>1, UnitsGrow
<1>3. IsFiniteSet(Units(S, g)) BY <1>2, FS_Subset
<1> QED BY <1>1, <1>3, UnitsAdd

\* The members of a finite set are added, each to its kind.
LEMMA UnitsOfMembers ==
    ASSUME NEW S, NEW f \in [S -> Nat], NEW T, IsFiniteSet(T), NEW kind \in [T -> S],
           NEW g, g = [x \in S |-> f[x] + Cardinality({t \in T : kind[t] = x})],
           IsFiniteSet(Units(S, f))
    PROVE  /\ IsFiniteSet(Units(S, g))
           /\ Cardinality(Units(S, g)) = Cardinality(Units(S, f)) + Cardinality(T)
<1> DEFINE Of(x)    == {t \in T : kind[t] = x}
           Size(x)  == Cardinality(Of(x))
           number   == [x \in S |-> CHOOSE b : b \in Bijection(Of(x), 1..Size(x))]
           place    == [t \in T |-> <<kind[t], f[kind[t]] + number[kind[t]][t]>>]
           more     == {z \in Units(S, g) : z \notin Units(S, f)}
<1>1. \A x \in S : Size(x) \in Nat /\ number[x] \in Bijection(Of(x), 1..Size(x))
  <2> SUFFICES ASSUME NEW x \in S
               PROVE  Size(x) \in Nat /\ number[x] \in Bijection(Of(x), 1..Size(x))
    OBVIOUS
  <2>1. IsFiniteSet(Of(x)) BY FS_Subset
  <2>2. Size(x) \in Nat /\ ExistsBijection(1..Size(x), Of(x)) BY <2>1, FS_CardinalityType
  <2>3. PICK b : b \in Bijection(1..Size(x), Of(x)) BY <2>2 DEF ExistsBijection
  <2>4. Inverse(b, 1..Size(x), Of(x)) \in Bijection(Of(x), 1..Size(x))
    BY <2>3, Fun_BijInverse
  <2> QED BY <2>2, <2>4
<1>2. ASSUME NEW x \in S
      PROVE  /\ f[x] \in Nat /\ g[x] = f[x] + Size(x) /\ g[x] \in Nat
             /\ number[x] \in [Of(x) -> 1..Size(x)]
             /\ \A s, t \in Of(x) : number[x][s] = number[x][t] => s = t
             /\ \A i \in 1..Size(x) : \E t \in Of(x) : number[x][t] = i
  <2>1. number[x] \in Bijection(Of(x), 1..Size(x)) /\ Size(x) \in Nat BY <1>1
  <2>2. g[x] = f[x] + Size(x) /\ f[x] \in Nat OBVIOUS
  <2> HIDE DEF Of, number, Size
  <2>3. /\ number[x] \in [Of(x) -> 1..Size(x)]
        /\ \A s, t \in Of(x) : number[x][s] = number[x][t] => s = t
        /\ \A i \in 1..Size(x) : \E t \in Of(x) : number[x][t] = i
    <3> DEFINE A == Of(x)  B == 1..Size(x)  F == number[x]
    <3>1. F \in Bijection(A, B) BY <2>1
    <3> HIDE DEF A, B, F
    <3>2. /\ F \in [A -> B]
          /\ \A a, b \in A : F[a] = F[b] => a = b
          /\ \A t \in B : \E s \in A : F[s] = t
      BY <3>1, Fun_BijectionProperties
    <3> QED BY <3>2 DEF A, B, F
  <2> QED BY <2>1, <2>2, <2>3
<1>3. ASSUME NEW t \in T
      PROVE  /\ kind[t] \in S /\ t \in Of(kind[t])
             /\ number[kind[t]][t] \in 1..Size(kind[t])
  <2>1. kind[t] \in S /\ t \in Of(kind[t]) OBVIOUS
  <2> HIDE DEF Of, number, Size
  <2>2. number[kind[t]] \in [Of(kind[t]) -> 1..Size(kind[t])] BY <1>2, <2>1
  <2> QED BY <2>1, <2>2
<1> HIDE DEF number, Size
<1>4. place \in [T -> more]
  <2> SUFFICES ASSUME NEW t \in T PROVE place[t] \in more OBVIOUS
  <2>1. place[t] = <<kind[t], f[kind[t]] + number[kind[t]][t]>> OBVIOUS
  <2> HIDE DEF place
  <2>5. /\ f[kind[t]] \in Nat /\ g[kind[t]] = f[kind[t]] + Size(kind[t])
        /\ number[kind[t]][t] \in 1..Size(kind[t]) /\ Size(kind[t]) \in Nat
    BY <1>1, <1>2, <1>3
  <2>2. f[kind[t]] + number[kind[t]][t] \in f[kind[t]] + 1 .. g[kind[t]] BY <2>5
  <2>3. place[t] \in Units(S, g)
    BY <1>3, <2>1, <2>2, UnitsMembers
  <2>4. place[t] \notin Units(S, f)
    <3> SUFFICES ASSUME place[t] \in Units(S, f) PROVE FALSE OBVIOUS
    <3>1. PICK x \in S : \E i \in 1..f[x] : place[t] = <<x, i>> BY UnitsMembers
    <3>2. f[kind[t]] + number[kind[t]][t] \in 1..f[kind[t]]
      <4>1. PICK i \in 1..f[x] : place[t] = <<x, i>> BY <3>1
      <4>2. x = kind[t] /\ i = f[kind[t]] + number[kind[t]][t] BY <2>1, <4>1
      <4> QED BY <4>1, <4>2
    <3> QED BY <2>5, <3>2
  <2> QED BY <2>3, <2>4
<1>5. \A s, t \in T : place[s] = place[t] => s = t
  <2> SUFFICES ASSUME NEW s \in T, NEW t \in T, place[s] = place[t] PROVE s = t OBVIOUS
  <2>1. kind[s] = kind[t]
        /\ f[kind[s]] + number[kind[s]][s] = f[kind[t]] + number[kind[t]][t]
    OBVIOUS
  <2>2. /\ number[kind[t]][s] \in Int /\ number[kind[t]][t] \in Int /\ f[kind[t]] \in Nat
        /\ s \in Of(kind[t]) /\ t \in Of(kind[t]) /\ kind[t] \in S
    <3>1. /\ number[kind[s]][s] \in 1..Size(kind[s]) /\ s \in Of(kind[s])
          /\ number[kind[t]][t] \in 1..Size(kind[t]) /\ t \in Of(kind[t]) /\ kind[t] \in S
      BY <1>3
    <3> QED BY <1>2, <2>1, <3>1
  <2>3. number[kind[t]][s] = number[kind[t]][t] BY <2>1, <2>2
  <2> HIDE DEF Of, place
  <2> QED BY <1>2, <2>2, <2>3
<1>6. \A z \in more : \E t \in T : place[t] = z
  <2> SUFFICES ASSUME NEW z \in more PROVE \E t \in T : place[t] = z OBVIOUS
  <2>1. PICK x \in S : \E i \in 1..g[x] : z = <<x, i>> BY UnitsMembers
  <2>2. PICK i \in 1..g[x] : z = <<x, i>> BY <2>1
  <2>3. ~ i \in 1..f[x] BY <2>2, UnitsMembers
  <2>8. f[x] \in Nat /\ g[x] = f[x] + Size(x) /\ Size(x) \in Nat BY <1>1, <1>2
  <2>4. i - f[x] \in 1..Size(x) BY <2>3, <2>8
  <2>5. PICK t \in Of(x) : number[x][t] = i - f[x] BY <1>2, <2>4
  <2>6. t \in T /\ kind[t] = x OBVIOUS
  <2>7. place[t] = <<x, i>>
    <3>1. f[x] + number[x][t] = i BY <2>5, <2>8
    <3> QED BY <2>6, <3>1
  <2> QED BY <2>2, <2>6, <2>7
<1> HIDE DEF place, more
<1>7. ExistsBijection(T, more)
  <2>1. place \in Bijection(T, more) BY <1>4, <1>5, <1>6, Fun_IsBij
  <2> QED BY <2>1 DEF ExistsBijection
<1>8. IsFiniteSet(more) /\ Cardinality(more) = Cardinality(T) BY <1>7, FS_Bijection
<1>9. Units(S, g) = Units(S, f) \cup more /\ Units(S, f) \cap more = {}
  <2>1. ASSUME NEW x \in S PROVE f[x] \in Nat /\ g[x] \in Nat /\ f[x] <= g[x]
    <3>1. f[x] \in Nat /\ g[x] = f[x] + Size(x) /\ Size(x) \in Nat BY <1>1, <1>2
    <3> QED BY <3>1
  <2>2. Units(S, f) \subseteq Units(S, g) BY <2>1, UnitsGrow
  <2> QED BY <2>2 DEF more
<1>10. Cardinality(Units(S, f)) \in Nat /\ Cardinality(T) \in Nat BY FS_CardinalityType
<1>11. /\ IsFiniteSet(Units(S, f) \cup more)
       /\ Cardinality(Units(S, f) \cup more) = Cardinality(Units(S, f)) + Cardinality(more)
  BY <1>8, <1>9, DisjointUnion
<1> HIDE DEF Of
<1> QED BY <1>8, <1>9, <1>11, Zenon

------------------------------------------------------------------------------
(***************************************************************************)
(* Messages.  An execution that has published its retry owes nothing any   *)
(* more, although the broker still tracks its delivery: the retry waits.   *)
(***************************************************************************)

Owing == {w \in Worker : exec[w].held /\ exec[w].pc # "retried"}

IdleHoldsNothing == \A w \in Worker : At(w, "idle") => ~exec[w].held

MessagesAreOwed ==
    /\ IsFiniteSet(Waiting)
    /\ dispatched <= Cardinality(Waiting) + Cardinality(Owing) + finished

MessageInv == TypeOK /\ IdleHoldsNothing /\ MessagesAreOwed

LEMMA WaitingUnits == Waiting = Units(Attempt, queued)
BY DEF Waiting, Units

LEMMA OwingFinite ==
    /\ IsFiniteSet(Owing) /\ Cardinality(Owing) \in Nat
    /\ IsFiniteSet(Holding) /\ Cardinality(Holding) \in Nat
    /\ Cardinality(Owing) <= Cardinality(Holding)
<1>1. Owing \subseteq Holding /\ Holding \subseteq Worker BY DEF Owing, Holding
<1>2. IsFiniteSet(Holding) BY <1>1, FS_Subset
<1> QED BY <1>1, <1>2, FS_Subset, FS_CardinalityType

\* What becomes of a single process: w, and no other, may owe more or less.
LEMMA OwingOfOne ==
    ASSUME exec \in [Worker -> Execution], exec' \in [Worker -> Execution],
           NEW w \in Worker, \A v \in Worker \ {w} : exec'[v] = exec[v]
    PROVE  /\ w \in Owing' => /\ Owing' = Owing \cup {w}
                              /\ Cardinality(Owing') <= Cardinality(Owing) + 1
                              /\ Cardinality(Owing) <= Cardinality(Owing')
                              /\ w \notin Owing =>
                                    Cardinality(Owing') = Cardinality(Owing) + 1
           /\ w \notin Owing' => /\ Owing' = Owing \ {w}
                                 /\ Cardinality(Owing) <= Cardinality(Owing') + 1
                                 /\ w \notin Owing => Owing' = Owing
<1>1. \A v \in Worker \ {w} : v \in Owing' <=> v \in Owing BY DEF Owing
<1>2. Owing \subseteq Worker /\ Owing' \subseteq Worker BY DEF Owing
<1>3. IsFiniteSet(Owing) /\ Cardinality(Owing) \in Nat BY OwingFinite
<1>4. CASE w \in Owing'
  <2>1. Owing' = Owing \cup {w} BY <1>1, <1>2, <1>4
  <2>2. Cardinality(Owing \cup {w}) = IF w \in Owing THEN Cardinality(Owing)
                                      ELSE Cardinality(Owing) + 1
    BY <1>3, FS_AddElement
  <2> QED BY <1>3, <1>4, <2>1, <2>2
<1>5. CASE w \notin Owing'
  <2>1. Owing' = Owing \ {w} BY <1>1, <1>2, <1>5
  <2>2. Cardinality(Owing \ {w}) = IF w \in Owing THEN Cardinality(Owing) - 1
                                   ELSE Cardinality(Owing)
    BY <1>3, FS_RemoveElement
  <2> QED BY <1>3, <1>5, <2>1, <2>2
<1> QED BY <1>4, <1>5

\* A step that leaves the broker alone and neither takes nor gives back a
\* delivery.
LEMMA BrokerAside ==
    ASSUME MessageInv, TypeOK', UNCHANGED brokerVars,
           \A v \in Worker : /\ exec'[v].held = exec[v].held
                             /\ exec'[v].pc = "retried" <=> exec[v].pc = "retried"
                             /\ exec'[v].pc = "idle" <=> exec[v].pc = "idle"
    PROVE  MessageInv'
<1>1. Owing' = Owing BY DEF Owing
<1>2. Waiting' = Waiting BY DEF brokerVars, Waiting
<1>3. MessagesAreOwed' BY <1>1, <1>2 DEF MessageInv, MessagesAreOwed, brokerVars
<1>4. IdleHoldsNothing' BY DEF MessageInv, IdleHoldsNothing, At
<1> QED BY <1>3, <1>4 DEF MessageInv

LEMMA MessageStep == MessageInv /\ [Next]_vars => MessageInv'
<1> SUFFICES ASSUME MessageInv, [Next]_vars PROVE MessageInv' OBVIOUS
<1> USE DEF At
<1>0. TypeOK /\ TypeOK' BY TypeStep DEF MessageInv
<1>t. /\ exec \in [Worker -> Execution] /\ exec' \in [Worker -> Execution]
      /\ queued \in [Attempt -> Nat] /\ queued' \in [Attempt -> Nat]
      /\ dispatched \in Nat /\ finished \in Nat
      /\ \A w \in Worker : exec[w].attempt \in Attempt /\ exec[w].held \in BOOLEAN
  BY <1>0 DEF TypeOK, Execution
<1>i. /\ IdleHoldsNothing
      /\ IsFiniteSet(Units(Attempt, queued))
      /\ dispatched <= Cardinality(Units(Attempt, queued)) + Cardinality(Owing) + finished
  BY WaitingUnits DEF MessageInv, MessagesAreOwed
<1>q. /\ queued \in [Attempt -> Nat] /\ queued' \in [Attempt -> Nat]
      /\ IsFiniteSet(Units(Attempt, queued))
  BY <1>t, <1>i
<1>c. /\ Cardinality(Units(Attempt, queued)) \in Nat
      /\ Cardinality(Owing) \in Nat /\ IsFiniteSet(Owing)
  BY <1>i, FS_CardinalityType, OwingFinite
<1>w. Waiting' = Units(Attempt, queued') BY DEF Waiting, Units
<1>o. Cardinality(Owing') \in Nat
  <2>1. Owing' \subseteq Worker BY DEF Owing
  <2> QED BY <2>1, FS_Subset, FS_CardinalityType
<1>1. CASE Tick
  <2>1. PICK n \in Nat : /\ queued' = [queued EXCEPT ![0] = @ + n]
                         /\ dispatched' = dispatched + n
    <3>1. PICK n \in (IF (clock + 1) % Cadence = 0 THEN 0..MaxFire ELSE {0}) :
             /\ queued' = [queued EXCEPT ![0] = @ + n]
             /\ dispatched' = dispatched + n
      BY <1>1 DEF Tick
    <3>2. n \in Nat OBVIOUS
    <3> QED BY <3>1, <3>2
  <2>2. 0 \in Attempt BY DEF Attempt
  <2>7. queued'[0] = queued[0] + n /\ \A y \in Attempt \ {0} : queued'[y] = queued[y]
    BY <1>t, <2>1, <2>2
  <2>3. /\ IsFiniteSet(Units(Attempt, queued'))
        /\ Cardinality(Units(Attempt, queued')) = Cardinality(Units(Attempt, queued)) + n
    BY <1>q, <2>2, <2>7, UnitsAdd
  <2>4. exec' = exec /\ finished' = finished BY <1>1 DEF Tick
  <2>5. Owing' = Owing /\ IdleHoldsNothing' BY <1>i, <2>4 DEF Owing, IdleHoldsNothing
  <2>6. MessagesAreOwed'
    BY <1>t, <1>i, <1>c, <1>w, <2>1, <2>3, <2>4, <2>5 DEF MessagesAreOwed
  <2> QED BY <1>0, <2>5, <2>6 DEF MessageInv
<1>2. CASE \E k \in Key : Publish(k)
  <2>1. UNCHANGED <<exec, brokerVars>> BY <1>2 DEF Publish
  <2> QED BY <1>0, <2>1, BrokerAside DEF brokerVars
<1>3. ASSUME NEW w \in Worker, NEW n \in Attempt, Receive(w, n) PROVE MessageInv'
  <2>1. /\ queued[n] > 0 /\ queued' = [queued EXCEPT ![n] = @ - 1]
        /\ UNCHANGED <<dispatched, finished>>
        /\ exec[w].pc = "idle"
    BY <1>3 DEF Receive, Free
  <2>2. /\ \A v \in Worker \ {w} : exec'[v] = exec[v]
        /\ exec'[w].held = TRUE /\ exec'[w].pc = "discover"
    BY <1>3, <1>t DEF Receive, Idle
  <2>3. w \in Owing' /\ w \notin Owing BY <1>i, <2>1, <2>2 DEF Owing, IdleHoldsNothing
  <2>4. Cardinality(Owing') = Cardinality(Owing) + 1 BY <1>t, <2>2, <2>3, OwingOfOne
  <2>5. /\ IsFiniteSet(Units(Attempt, queued'))
        /\ Cardinality(Units(Attempt, queued)) = Cardinality(Units(Attempt, queued')) + 1
    <3>1. /\ queued[n] > 0
          /\ queued'[n] = queued[n] - 1
          /\ \A y \in Attempt \ {n} : queued'[y] = queued[y]
      BY <1>t, <2>1
    <3> QED BY <1>q, <3>1, UnitsRemove
  <2>7. Cardinality(Units(Attempt, queued')) \in Nat BY <2>5, FS_CardinalityType
  <2>6. MessagesAreOwed' /\ IdleHoldsNothing'
    BY <1>t, <1>i, <1>c, <1>w, <2>1, <2>2, <2>4, <2>5, <2>7
    DEF MessagesAreOwed, IdleHoldsNothing
  <2> QED BY <1>0, <2>6 DEF MessageInv
<1>4. ASSUME NEW w \in Worker,
             \/ Discover(w) \/ LoadCaches(w) \/ Fetch(w) \/ Route(w)
             \/ WriteBatch(w) \/ RecordSuccess(w)
             \/ \E s \in Station : RegisterStation(w, s)
      PROVE  MessageInv'
  <2>1. UNCHANGED brokerVars
    BY <1>4 DEF Discover, LoadCaches, Fetch, Route, WriteBatch, RecordSuccess,
                RegisterStation
  <2>2. \A v \in Worker \ {w} : exec'[v] = exec[v]
    BY <1>4, <1>t DEF Discover, LoadCaches, Fetch, Route, WriteBatch, RecordSuccess,
                RegisterStation
  <2>3. /\ exec'[w].held = exec[w].held
        /\ exec'[w].pc \notin {"idle", "retried"} /\ exec[w].pc \notin {"idle", "retried"}
    BY <1>4, <1>t DEF Discover, LoadCaches, Fetch, Route, WriteBatch, RecordSuccess,
                RegisterStation, AfterWrite, Execution
  <2> QED BY <1>0, <2>1, <2>2, <2>3, BrokerAside
<1>5. ASSUME NEW w \in Worker, Ack(w) \/ ProcessLost(w) PROVE MessageInv'
  <2>1. /\ queued' = queued /\ dispatched' = dispatched
        /\ \A v \in Worker \ {w} : exec'[v] = exec[v]
        /\ exec'[w].held = FALSE
        /\ finished' = IF (At(w, "ack") \/ ProcessLost(w)) /\ exec[w].held
                       THEN finished + 1 ELSE finished
        /\ exec[w].pc # "retried" => At(w, "ack") \/ ProcessLost(w)
    BY <1>5, <1>t DEF Ack, ProcessLost, Idle
  <2>2. w \notin Owing' BY <2>1 DEF Owing
  <2>3. w \in Owing => finished' = finished + 1 BY <2>1 DEF Owing
  <2>4. /\ Cardinality(Owing) <= Cardinality(Owing') + 1
        /\ w \notin Owing => Owing' = Owing
    BY <1>t, <2>1, <2>2, OwingOfOne
  <2>5. finished <= finished' /\ finished' \in Nat BY <1>t, <2>1
  <2>6. MessagesAreOwed'
    BY <1>t, <1>i, <1>c, <1>o, <1>w, <2>1, <2>3, <2>4, <2>5 DEF MessagesAreOwed
  <2>7. IdleHoldsNothing' BY <1>i, <2>1 DEF IdleHoldsNothing
  <2> QED BY <1>0, <2>6, <2>7 DEF MessageInv
<1>6. ASSUME NEW w \in Worker, NEW n \in Attempt,
             queued' = [queued EXCEPT ![n] = @ + 1],
             UNCHANGED <<dispatched, finished>>,
             \A v \in Worker \ {w} : exec'[v] = exec[v],
             w \notin Owing', exec'[w].pc # "idle"
      PROVE  MessageInv'
  <2>1. Cardinality(Owing) <= Cardinality(Owing') + 1 BY <1>t, <1>6, OwingOfOne
  <2>2. /\ IsFiniteSet(Units(Attempt, queued'))
        /\ Cardinality(Units(Attempt, queued')) = Cardinality(Units(Attempt, queued)) + 1
    <3>1. /\ queued'[n] = queued[n] + 1
          /\ \A y \in Attempt \ {n} : queued'[y] = queued[y]
      BY <1>t, <1>6
    <3> QED BY <1>q, <3>1, UnitsAdd
  <2>3. MessagesAreOwed'
    BY <1>t, <1>i, <1>c, <1>o, <1>w, <1>6, <2>1, <2>2 DEF MessagesAreOwed
  <2>4. IdleHoldsNothing' BY <1>i, <1>6 DEF IdleHoldsNothing
  <2> QED BY <1>0, <2>3, <2>4 DEF MessageInv
<1>7. ASSUME NEW w \in Worker, Fail(w) PROVE MessageInv'
  <2>1. CASE exec[w].attempt < MaxRetries
    <3>1. /\ queued' = [queued EXCEPT ![NextAttempt(exec[w].attempt)] = @ + 1]
          /\ UNCHANGED <<dispatched, finished>>
          /\ \A v \in Worker \ {w} : exec'[v] = exec[v]
          /\ exec'[w].pc = "retried"
      BY <1>7, <1>t, <2>1 DEF Fail, Execution
    <3>2. NextAttempt(exec[w].attempt) \in Attempt
      BY <1>t, <2>1 DEF Attempt, NextAttempt
    <3>3. w \notin Owing' BY <3>1 DEF Owing
    <3> QED BY <1>6, <3>1, <3>2, <3>3
  <2>2. CASE ~(exec[w].attempt < MaxRetries)
    <3>1. /\ UNCHANGED brokerVars
          /\ exec' = [exec EXCEPT ![w].pc = "ack"]
          /\ exec[w].pc \notin {"idle", "retried"}
      BY <1>7, <2>2 DEF Fail, brokerVars
    <3>2. \A v \in Worker : /\ exec'[v].held = exec[v].held
                            /\ exec'[v].pc = IF v = w THEN "ack" ELSE exec[v].pc
      BY <1>t, <3>1 DEF Execution
    <3> QED BY <1>0, <3>1, <3>2, BrokerAside
  <2> QED BY <2>1, <2>2
<1>8. ASSUME NEW w \in Worker, VisibilityTimeout(w) PROVE MessageInv'
  <2>1. /\ queued' = [queued EXCEPT ![exec[w].attempt] = @ + 1]
        /\ UNCHANGED <<dispatched, finished>>
        /\ \A v \in Worker \ {w} : exec'[v] = exec[v]
        /\ exec'[w].held = FALSE /\ exec'[w].pc = exec[w].pc /\ exec[w].pc # "idle"
    BY <1>8, <1>t DEF VisibilityTimeout, Execution
  <2>2. w \notin Owing' BY <2>1 DEF Owing
  <2> QED BY <1>6, <1>t, <2>1, <2>2
<1>9. CASE WorkerCrash
  <2> DEFINE kind == [w \in Holding |-> exec[w].attempt]
  <2>1. /\ queued' = [n \in Attempt |-> queued[n] + Cardinality(HeldDeliveries(n))]
        /\ \A w \in Worker : exec'[w] = Idle
        /\ UNCHANGED <<dispatched, finished>>
    BY <1>9 DEF WorkerCrash
  <2>2. kind \in [Holding -> Attempt] /\ IsFiniteSet(Holding)
    BY <1>t, OwingFinite DEF Holding
  <2>3. \A n : HeldDeliveries(n) = {w \in Holding : kind[w] = n}
    BY DEF HeldDeliveries, Holding
  <2>4. queued' = [n \in Attempt |-> queued[n] + Cardinality({w \in Holding : kind[w] = n})]
    BY <2>1, <2>3
  <2> HIDE DEF kind
  <2>5. /\ IsFiniteSet(Units(Attempt, queued'))
        /\ Cardinality(Units(Attempt, queued'))
             = Cardinality(Units(Attempt, queued)) + Cardinality(Holding)
    BY <1>t, <1>i, <2>2, <2>4, UnitsOfMembers
  <2>6. Owing' = {} /\ IdleHoldsNothing' BY <2>1 DEF Owing, IdleHoldsNothing, Idle
  <2>7. Cardinality(Owing') = 0 BY <2>6, FS_EmptySet
  <2>8. MessagesAreOwed'
    BY <1>t, <1>i, <1>c, <1>w, <2>1, <2>5, <2>7, OwingFinite DEF MessagesAreOwed
  <2> QED BY <1>0, <2>6, <2>8 DEF MessageInv
<1>10. ASSUME NEW w \in Worker, DlqWork(w) PROVE MessageInv'
  <2>1. UNCHANGED <<exec, brokerVars>> BY <1>10, DlqWorkLeaves
  <2> QED BY <1>0, <2>1, BrokerAside DEF brokerVars
<1>11. CASE UNCHANGED vars BY <1>0, <1>11, BrokerAside DEF vars, brokerVars
<1> QED
  BY <1>1, <1>2, <1>3, <1>4, <1>5, <1>7, <1>8, <1>9, <1>10, <1>11 DEF Next, DlqWork

LEMMA MessageInit == Init => MessageInv
<1> SUFFICES ASSUME Init PROVE MessageInv OBVIOUS
<1>1. Waiting = {} /\ IdleHoldsNothing
  BY DEF Init, Waiting, Idle, IdleHoldsNothing, At
<1>2. IsFiniteSet(Waiting) /\ Cardinality(Waiting) = 0 BY <1>1, FS_EmptySet
<1>3. MessagesAreOwed BY <1>2, OwingFinite DEF Init, MessagesAreOwed
<1> QED BY <1>1, <1>3, InitType DEF MessageInv

LEMMA MessagesFollow == MessageInv => MessagesAreNotLost
<1> SUFFICES ASSUME MessageInv PROVE MessagesAreNotLost OBVIOUS
<1>1. Cardinality(Waiting) \in Nat BY FS_CardinalityType DEF MessageInv, MessagesAreOwed
<1> QED
  BY <1>1, OwingFinite
  DEF MessageInv, MessagesAreOwed, TypeOK, MessagesAreNotLost

\* Every message beat sent is queued, held by an execution or acknowledged: after
\* a success, after its last retry, or because its process was killed (celery_app.py, task_acks_late; ingest.py, autoretry_for).
THEOREM MessagesKept == Spec => []MessagesAreNotLost
BY MessageInit, MessageStep, MessagesFollow, PTL DEF Spec
=============================================================================
