---------------------------- MODULE BackfillProofs ----------------------------
(***************************************************************************)
(* Theorems about Backfill, for every value of its constants: what the     *)
(* command promises beside any number of workers and of other commands.    *)
(***************************************************************************)
EXTENDS Backfill, RunSourceProofs

USE SlotAssumption, WorkerAssumption, BoundAssumption, BackfillAssumption

------------------------------------------------------------------------------
(***************************************************************************)
(* The inductive invariant.  That of the workers goes on to hold; beside   *)
(* it, each command is sound: what it may still write is published, at     *)
(* least as recent as the table it was fetched against, and complete for   *)
(* its day.                                                                *)
(***************************************************************************)

\* What the fetch of a day reaches, for a command or for a window it wrote.
Reached(k, c) == InDay(k, c.day) /\ published[k] \in 1..c.at - 1 /\ k \notin c.lost

BatchIsPublished(c) == /\ \A k \in Key : c.batch[k] <= feed[k]
                       /\ c.cache \subseteq stations

BatchFollowsTable(c) == \A k \in Key : c.batch[k] > 0 => c.base[k] <= c.batch[k]

BatchIsComplete(c) ==
    c.pc = "write" => c.at > 0 /\ \A k \in Key : Reached(k, c) => c.batch[k] > 0

\* The loop stands at a day of the range, and only a transaction that is to be
\* reported has rows to report.
LoopIsWithinRange(c) ==
    /\ c.at <= clock
    /\ c.pc \in {"discover", "register"} => c.day = FirstDay
    /\ c.pc \in {"fetch", "write", "record"} => c.day <= LastDay
    /\ c.new > 0 => c.pc = "record"

Sound(c) == /\ BatchIsPublished(c)
            /\ BatchFollowsTable(c)
            /\ BatchIsComplete(c)
            /\ LoopIsWithinRange(c)

CommandsAreSound == \A p \in Cli : Sound(cli[p])

WrittenInThePast == \A d \in written : d.at <= clock

\* The source has published finitely many slots, so the table has finitely many
\* rows, whatever the set of slots.
FeedIsFinite == IsFiniteSet(Rows(feed))

\* Rows reported, or inserted by a transaction whose report is due.
Counted == [p \in Cli |-> claimed[p] + cli[p].new]

RowsAreCountedOnce ==
    /\ IsFiniteSet(Units(Cli, Counted))
    /\ Cardinality(Units(Cli, Counted)) <= Cardinality(Rows(table))

CliInv == /\ IInv
          /\ CliTypeOK
          /\ FeedIsFinite
          /\ CommandsAreSound
          /\ WrittenInThePast
          /\ WrittenDaysAreStored
          /\ RowsAreCountedOnce

LEMMA CommandFields ==
    ASSUME NEW c \in Command
    PROVE  /\ c.pc \in CliPC /\ c.day \in FirstDay..LastDay + 1 /\ c.day \in Nat
           /\ c.found \subseteq Station /\ c.cache \subseteq Station
           /\ c.at \in 0..MaxClock /\ c.lost \subseteq Key /\ c.new \in Nat
           /\ c.batch \in Revisions /\ c.base \in Revisions
           /\ c.batch \in [Key -> Nat] /\ c.base \in [Key -> Nat]
<1>1. Revisions \subseteq [Key -> Nat] BY DEF Revisions
<1> QED BY <1>1 DEF Command

\* The table has rows of the feed only: finitely many.
LEMMA RowsFinite ==
    ASSUME TypeOK, StoredRowsAreGenuine, FeedIsFinite
    PROVE  /\ Rows(table) \subseteq Rows(feed) /\ IsFiniteSet(Rows(table))
           /\ Cardinality(Rows(table)) \in Nat
<1>1. Rows(table) \subseteq Rows(feed)
  BY StoreType DEF StoredRowsAreGenuine, Rows
<1> QED BY <1>1, FS_Subset, FS_CardinalityType DEF FeedIsFinite

------------------------------------------------------------------------------
(***************************************************************************)
(* What happens behind a command's back: the feed and the registered       *)
(* stations grow, time passes, rows stay, and what is published now lies   *)
(* before no instant of a fetch.                                           *)
(***************************************************************************)

Background ==
    /\ \A k \in Key : feed[k] <= feed'[k]
    /\ stations \subseteq stations'
    /\ clock <= clock'
    /\ \A k \in Key : table[k] > 0 => table'[k] > 0
    /\ \A k \in Key, t \in 0..clock :
          published'[k] \in 1..t - 1 => published[k] \in 1..t - 1
    /\ FeedIsFinite'

LEMMA WorkersBackground ==
    ASSUME IInv, FeedIsFinite, [Next]_vars
    PROVE  Background
<1>1. TypeOK BY DEF IInv
<1>2. /\ feed \in [Key -> Nat] /\ clock \in Nat /\ table \in [Key -> Nat]
      /\ published \in [Key -> Nat]
  BY <1>1, StoreType
<1>3. CASE \E k \in Key : Publish(k)
  <2>1. PICK k \in Key : Publish(k) BY <1>3
  <2>2. /\ UNCHANGED <<stations, table, clock>>
        /\ feed' = [feed EXCEPT ![k] = @ + 1]
        /\ published' = IF feed[k] = 0 THEN [published EXCEPT ![k] = clock] ELSE published
    BY <2>1 DEF Publish, storeVars
  <2>3. Rows(feed') = Rows(feed) \cup {k} BY <1>2, <2>2 DEF Rows
  <2>4. IsFiniteSet(Rows(feed')) BY <2>3, FS_AddElement DEF FeedIsFinite
  <2>5. \A j \in Key : feed[j] <= feed'[j] BY <1>2, <2>2
  <2>6. \A j \in Key, t \in 0..clock :
          published'[j] \in 1..t - 1 => published[j] \in 1..t - 1
    BY <1>2, <2>2
  <2> QED BY <1>2, <2>2, <2>4, <2>5, <2>6 DEF Background, FeedIsFinite
<1>4. CASE \E w \in Worker : LoadCaches(w) \/ Fetch(w)
  <2>1. UNCHANGED <<feed, published, stations, table, clock>>
    BY <1>4 DEF LoadCaches, Fetch, feedVars, storeVars
  <2> QED BY <1>2, <2>1 DEF Background, FeedIsFinite
<1>5. CASE \E w \in Worker : WriteBatch(w)
  <2>1. PICK w \in Worker : WriteBatch(w) BY <1>5
  <2>2. UNCHANGED <<feed, published, stations, clock>> /\ table' = Upsert(w)
    BY <2>1 DEF WriteBatch, feedVars
  <2>3. \A k \in Key : table[k] > 0 => table'[k] > 0
    BY <2>2 DEF Upsert, Stored, NormalRows, Rows
  <2> QED BY <1>2, <2>2, <2>3 DEF Background, FeedIsFinite
<1>6. CASE /\ \A k \in Key : ~Publish(k)
           /\ \A w \in Worker : ~LoadCaches(w) /\ ~Fetch(w) /\ ~WriteBatch(w)
  <2>1. Aside BY <1>1, <1>6, AsideSteps
  <2> QED BY <1>2, <2>1 DEF Background, FeedIsFinite, Aside
<1> QED BY <1>3, <1>4, <1>5, <1>6

LEMMA SoundStays ==
    ASSUME NEW c \in Command, TypeOK, TypeOK', Background, Sound(c)
    PROVE  Sound(c)'
<1>1. /\ c.batch \in [Key -> Nat] /\ c.at \in Nat /\ c.new \in Nat /\ c.day \in Nat
  BY CommandFields
<1>2. /\ feed \in [Key -> Nat] /\ feed' \in [Key -> Nat]
      /\ clock \in Nat /\ clock' \in Nat
  BY DEF TypeOK, Revisions
<1>3. BatchIsPublished(c)'
  BY <1>1, <1>2 DEF Background, Sound, BatchIsPublished
<1>4. BatchFollowsTable(c)' BY DEF Sound, BatchFollowsTable
<1>5. LoopIsWithinRange(c)' BY <1>1, <1>2 DEF Background, Sound, LoopIsWithinRange
<1>6. BatchIsComplete(c)'
  <2>1. c.at \in 0..clock BY <1>1, <1>2 DEF Sound, LoopIsWithinRange
  <2>2. \A k \in Key : Reached(k, c)' => Reached(k, c)
    BY <2>1 DEF Background, Reached
  <2> QED BY <2>2 DEF Sound, BatchIsComplete
<1> QED BY <1>3, <1>4, <1>5, <1>6 DEF Sound

------------------------------------------------------------------------------
(***************************************************************************)
(* The parts of the invariant that a class of steps leaves alone.          *)
(***************************************************************************)

\* A step of the command that writes no row.
LEMMA WorkersAside ==
    ASSUME CliInv, UNCHANGED <<elsewhere, table>>, stations \subseteq stations',
           stations' \subseteq Station, lastSuccess' \in 0..MaxClock
    PROVE  IInv' /\ TypeOK' /\ Background
<1>1. IInv /\ TypeOK /\ FeedIsFinite BY DEF CliInv, IInv
<1>2. /\ UNCHANGED <<clock, exec, faults, queued, dispatched, finished, feed, published,
                     dlqQueue, dlqExec, dlqList, dlqLost, runs, table>>
  BY DEF elsewhere, brokerVars, feedVars, dlqVars
<1>3. TypeOK' BY <1>1, <1>2 DEF TypeOK
<1>4. /\ feed \in [Key -> Nat] /\ clock \in Nat BY <1>1, StoreType
<1>5. Background BY <1>1, <1>2, <1>4 DEF Background, FeedIsFinite
<1>6. \A v \in Worker : SameLocals(v) BY <1>2 DEF SameLocals, Fetching
<1>7. Aside BY <1>2, <1>4, <1>6 DEF Aside
<1> QED BY <1>1, <1>3, <1>5, <1>7, AsidePreserves

LEMMA SetStep ==
    ASSUME CliInv, TypeOK', Background, NEW p \in Cli, NEW c \in Command,
           Set(p, c), Sound(c)'
    PROVE  /\ cli' \in [Cli -> Command]
           /\ cli'[p] = c /\ \A q \in Cli \ {p} : cli'[q] = cli[q]
           /\ CommandsAreSound'
<1>1. cli \in [Cli -> Command] /\ cli' = [cli EXCEPT ![p] = c] /\ TypeOK
  BY DEF CliInv, CliTypeOK, Set, IInv
<1>2. /\ cli' \in [Cli -> Command]
      /\ cli'[p] = c /\ \A q \in Cli \ {p} : cli'[q] = cli[q]
  BY <1>1
<1>3. \A q \in Cli \ {p} : Sound(cli[q])'
  <2> SUFFICES ASSUME NEW q \in Cli \ {p} PROVE Sound(cli[q])' OBVIOUS
  <2>1. PICK d \in Command : d = cli[q] BY <1>1
  <2>2. Sound(d) BY <2>1 DEF CliInv, CommandsAreSound
  <2>3. Sound(d)' BY <1>1, <2>2, SoundStays
  <2>4. cli'[q] = d BY <1>2, <2>1
  <2> QED
    BY <2>3, <2>4
    DEF Sound, BatchIsPublished, BatchFollowsTable, BatchIsComplete, Reached,
        LoopIsWithinRange
<1>4. Sound(cli[p])'
  BY <1>2 DEF Sound, BatchIsPublished, BatchFollowsTable, BatchIsComplete, Reached,
              LoopIsWithinRange
<1> QED BY <1>2, <1>3, <1>4 DEF CommandsAreSound

\* Windows already written stay covered.
LEMMA WrittenAside ==
    ASSUME CliInv, TypeOK', Background, NEW d \in written
    PROVE  /\ d.at <= clock'
           /\ \A k \in Key \ Unmapped :
                 Reached(k, d)' /\ StationOf[k] \in d.known => table'[k] > 0
<1>1. d.at \in 1..MaxClock /\ d.at <= clock
  BY DEF CliInv, CliTypeOK, WrittenInThePast
<1>2. clock \in Nat /\ clock' \in Nat BY DEF CliInv, IInv, TypeOK
<1>3. d.at \in 0..clock BY <1>1, <1>2
<1>4. \A k \in Key : Reached(k, d)' => Reached(k, d) BY <1>3 DEF Background, Reached
<1>5. ASSUME NEW k \in Key \ Unmapped, Reached(k, d)', StationOf[k] \in d.known
      PROVE  table'[k] > 0
  <2>1. Reached(k, d) BY <1>4, <1>5
  <2>2. table[k] > 0
    BY <1>5, <2>1 DEF CliInv, WrittenDaysAreStored, Reached, InDay
  <2> QED BY <2>2 DEF Background
<1> QED BY <1>1, <1>2, <1>5 DEF Background

\* No row more is due or reported.
LEMMA CountAside ==
    ASSUME CliInv, CliTypeOK', TypeOK', StoredRowsAreGenuine', Background,
           \A q \in Cli : claimed'[q] + cli'[q].new <= claimed[q] + cli[q].new
    PROVE  RowsAreCountedOnce'
<1> DEFINE f == Counted
           g == [p \in Cli |-> claimed'[p] + cli'[p].new]
<1>1. /\ TypeOK /\ StoredRowsAreGenuine /\ FeedIsFinite /\ CliTypeOK
      /\ RowsAreCountedOnce /\ FeedIsFinite'
  BY DEF CliInv, IInv, Background
<1>2. \A q \in Cli : cli[q].new \in Nat /\ cli'[q].new \in Nat
                     /\ claimed[q] \in Nat /\ claimed'[q] \in Nat
  BY <1>1, CommandFields DEF CliTypeOK
<1>3. \A q \in Cli : f[q] \in Nat /\ g[q] \in Nat /\ g[q] <= f[q] BY <1>2 DEF Counted
<1>4. Counted' = g BY DEF Counted
<1> HIDE DEF f, g
<1>5. Units(Cli, g) \subseteq Units(Cli, f) BY <1>3, UnitsGrow
<1>6. /\ IsFiniteSet(Units(Cli, f))
      /\ Cardinality(Units(Cli, f)) <= Cardinality(Rows(table))
  BY <1>1 DEF RowsAreCountedOnce, f
<1>7. /\ IsFiniteSet(Units(Cli, g))
      /\ Cardinality(Units(Cli, g)) <= Cardinality(Units(Cli, f))
      /\ Cardinality(Units(Cli, g)) \in Nat /\ Cardinality(Units(Cli, f)) \in Nat
  BY <1>5, <1>6, FS_Subset, FS_CardinalityType
<1>8. /\ Cardinality(Rows(table)) \in Nat /\ IsFiniteSet(Rows(table'))
      /\ Cardinality(Rows(table')) \in Nat
  <2>1. Cardinality(Rows(table)) \in Nat BY <1>1, RowsFinite
  <2>2. Rows(table') \subseteq Rows(feed')
    <3> SUFFICES ASSUME TypeOK', StoredRowsAreGenuine' PROVE Rows(table') \subseteq Rows(feed')
      OBVIOUS
    <3>1. feed' \in [Key -> Nat] /\ table' \in [Key -> Nat] BY DEF TypeOK, Revisions
    <3> QED BY <3>1 DEF StoredRowsAreGenuine, Rows
  <2>3. IsFiniteSet(Rows(table')) BY <1>1, <2>2, FS_Subset DEF FeedIsFinite
  <2> QED BY <2>1, <2>3, FS_CardinalityType
<1>9. Rows(table) \subseteq Rows(table') BY DEF Background, Rows
<1>10. Cardinality(Rows(table)) <= Cardinality(Rows(table'))
  BY <1>8, <1>9, FS_Subset
<1>11. Cardinality(Units(Cli, g)) <= Cardinality(Rows(table'))
  BY <1>6, <1>7, <1>8, <1>10
<1> QED BY <1>4, <1>7, <1>11 DEF RowsAreCountedOnce

\* A step that writes no row and begins no report.
LEMMA CliAside ==
    ASSUME CliInv, UNCHANGED <<elsewhere, table, written>>, stations \subseteq stations',
           stations' \subseteq Station, lastSuccess' \in 0..MaxClock,
           NEW p \in Cli, NEW c \in Command, Set(p, c), Sound(c)',
           commands' \in [Cli -> 0..MaxCommands], claimed' \in [Cli -> Nat],
           claimed'[p] + c.new <= claimed[p] + cli[p].new,
           \A q \in Cli \ {p} : claimed'[q] = claimed[q]
    PROVE  CliInv'
<1>1. IInv' /\ TypeOK' /\ Background BY WorkersAside
<1>2. /\ cli' \in [Cli -> Command]
      /\ cli'[p] = c /\ \A q \in Cli \ {p} : cli'[q] = cli[q]
      /\ CommandsAreSound'
  BY <1>1, SetStep
<1>3. CliTypeOK' BY <1>2 DEF CliInv, CliTypeOK
<1>4. WrittenInThePast' /\ WrittenDaysAreStored'
  BY <1>1, WrittenAside DEF WrittenInThePast, WrittenDaysAreStored, Reached, InDay
<1>5. \A q \in Cli : claimed'[q] + cli'[q].new <= claimed[q] + cli[q].new
  <2>1. \A q \in Cli : claimed[q] \in Nat /\ cli[q].new \in Nat
    BY CommandFields DEF CliInv, CliTypeOK
  <2> QED BY <1>2, <2>1
<1>6. RowsAreCountedOnce' BY <1>1, <1>3, <1>5, CountAside DEF IInv
<1>7. FeedIsFinite' BY <1>1 DEF Background
<1> QED BY <1>1, <1>2, <1>3, <1>4, <1>6, <1>7 DEF CliInv

------------------------------------------------------------------------------
(***************************************************************************)
(* The steps one by one.                                                   *)
(***************************************************************************)

LEMMA CliFields ==
    ASSUME CliInv, NEW p \in Cli
    PROVE  /\ cli[p] \in Command /\ Sound(cli[p])
           /\ claimed[p] \in Nat /\ commands[p] \in 0..MaxCommands
           /\ stations \subseteq Station /\ lastSuccess \in 0..MaxClock
           /\ clock \in 1..MaxClock
           /\ claimed \in [Cli -> Nat] /\ commands \in [Cli -> 0..MaxCommands]
BY DEF CliInv, CliTypeOK, CommandsAreSound, IInv, TypeOK

LEMMA WorkerStep ==
    ASSUME CliInv, [Next]_vars, UNCHANGED <<cli, commands, history>>
    PROVE  CliInv'
<1>1. IInv' BY InvariantStep DEF CliInv
<1>2. TypeOK /\ TypeOK' /\ Background
  BY <1>1, WorkersBackground DEF CliInv, IInv
<1>3. UNCHANGED <<cli, commands, claimed, written>> BY DEF history
<1>4. CliTypeOK' BY <1>3 DEF CliInv, CliTypeOK
<1>5. CommandsAreSound'
  <2> SUFFICES ASSUME NEW q \in Cli PROVE Sound(cli[q])' BY DEF CommandsAreSound
  <2>1. PICK d \in Command : d = cli[q] BY CliFields
  <2>2. Sound(d) BY <2>1, CliFields
  <2>3. Sound(d)' BY <1>2, <2>2, SoundStays
  <2>4. cli'[q] = d BY <1>3, <2>1
  <2> QED
    BY <2>3, <2>4
    DEF Sound, BatchIsPublished, BatchFollowsTable, BatchIsComplete, Reached,
        LoopIsWithinRange
<1>6. WrittenInThePast' /\ WrittenDaysAreStored'
  BY <1>2, <1>3, WrittenAside DEF WrittenInThePast, WrittenDaysAreStored, Reached, InDay
<1>7. \A q \in Cli : claimed'[q] + cli'[q].new <= claimed[q] + cli[q].new
  <2>1. \A q \in Cli : claimed[q] \in Nat /\ cli[q].new \in Nat
    BY CommandFields, CliFields
  <2> QED BY <1>3, <2>1
<1>8. RowsAreCountedOnce' BY <1>1, <1>2, <1>4, <1>7, CountAside DEF IInv
<1> QED BY <1>1, <1>2, <1>4, <1>5, <1>6, <1>8 DEF CliInv, Background

LEMMA NoCommandType == NoCommand \in Command
BY DEF NoCommand, Command, CliPC, Nothing, Revisions

\* A command that holds no batch and no rows due is sound at the first day.
LEMMA EmptyIsSound ==
    ASSUME CliInv, UNCHANGED <<feed, clock, published>>, NEW c \in Command,
           c.batch = Nothing, c.cache = {}, c.at = 0, c.new = 0, c.day = FirstDay,
           c.pc # "write"
    PROVE  Sound(c)'
<1>1. feed \in [Key -> Nat] /\ clock \in Nat BY StoreType DEF CliInv, IInv
<1>2. FirstDay <= LastDay OBVIOUS
<1> QED
  BY <1>1, <1>2
  DEF Sound, BatchIsPublished, BatchFollowsTable, BatchIsComplete, LoopIsWithinRange,
      Nothing

LEMMA StartPreserves ==
    ASSUME CliInv, NEW p \in Cli, Start(p) \/ Interrupt(p)
    PROVE  CliInv'
<1>1. PICK c \in Command :
         /\ Set(p, c)
         /\ c.batch = Nothing /\ c.cache = {} /\ c.at = 0 /\ c.new = 0 /\ c.day = FirstDay
         /\ c.pc # "write"
  <2>1. "discover" \in CliPC BY DEF CliPC
  <2>2. CASE Start(p)
    BY <2>1, <2>2, NoCommandType DEF Start, NoCommand, Command
  <2>3. CASE Interrupt(p)
    BY <2>3, NoCommandType DEF Interrupt, NoCommand
  <2> QED BY <2>2, <2>3
<1>3. UNCHANGED <<vars, claimed, written>> BY DEF Start, Interrupt, history
<1>4. /\ UNCHANGED <<elsewhere, table, written, stations, lastSuccess, claimed>>
      /\ UNCHANGED <<feed, clock, published>>
  BY <1>3 DEF vars, elsewhere, brokerVars, feedVars, dlqVars, storeVars
<1>5. commands' \in [Cli -> 0..MaxCommands]
  <2>1. CASE Start(p) BY <2>1, CliFields DEF Start
  <2>2. CASE Interrupt(p) BY <2>2, CliFields DEF Interrupt
  <2> QED BY <2>1, <2>2
<1>6. Sound(c)' BY <1>1, <1>4, EmptyIsSound
<1>7. claimed[p] \in Nat /\ cli[p].new \in Nat BY CliFields, CommandFields
<1>8. claimed'[p] + c.new <= claimed[p] + cli[p].new BY <1>1, <1>4, <1>7
<1> QED BY <1>1, <1>4, <1>5, <1>6, <1>8, CliFields, CliAside

\* Steps that only move on: the batch is kept, no row is due.
LEMMA MovePreserves ==
    ASSUME CliInv, NEW p \in Cli, NEW c \in Command, Set(p, c),
           UNCHANGED <<elsewhere, table, lastSuccess, commands, history>>,
           stations \subseteq stations', stations' \subseteq Station,
           c.batch = cli[p].batch, c.base = cli[p].base, c.at = cli[p].at,
           c.new = 0 \/ (c.new = cli[p].new /\ c.pc = cli[p].pc),
           c.pc # "write",
           c.cache \subseteq stations',
           c.pc \in {"discover", "register"} => c.day = FirstDay,
           c.pc \in {"fetch", "record"} => c.day <= LastDay
    PROVE  CliInv'
<1>1. Sound(cli[p]) /\ cli[p] \in Command /\ claimed[p] \in Nat BY CliFields
<1>2. UNCHANGED <<feed, clock, published, claimed, written>>
  BY DEF elsewhere, feedVars, history
<1>3. cli[p].new \in Nat /\ c.new \in Nat /\ c.new <= cli[p].new
  BY <1>1, CommandFields
<1>4. Sound(c)'
  BY <1>1, <1>2
  DEF Sound, BatchIsPublished, BatchFollowsTable, BatchIsComplete, LoopIsWithinRange
<1>5. claimed'[p] + c.new <= claimed[p] + cli[p].new BY <1>1, <1>2, <1>3
<1> QED BY <1>2, <1>4, <1>5, CliFields, CliAside

LEMMA SetupPreserves ==
    ASSUME CliInv, NEW p \in Cli,
           \/ CliDiscover(p) \/ CliLoadCaches(p) \/ CliSetupFailed(p)
           \/ \E s \in Station : CliRegisterStation(p, s)
    PROVE  CliInv'
<1>1. /\ cli[p] \in Command /\ Sound(cli[p]) /\ stations \subseteq Station
  BY CliFields
<1>2. /\ cli[p].cache \subseteq stations /\ cli[p].day = FirstDay /\ cli[p].new = 0
      /\ FirstDay <= LastDay
  <2>1. cli[p].pc \in {"discover", "register"} /\ cli[p].new \in Nat
    BY <1>1, CommandFields
    DEF CliDiscover, CliLoadCaches, CliSetupFailed, CliRegisterStation, CliAt
  <2> QED BY <1>1, <2>1 DEF Sound, BatchIsPublished, LoopIsWithinRange
<1>3. "register" \in CliPC /\ "fetch" \in CliPC /\ "exit" \in CliPC BY DEF CliPC
<1>4. ASSUME UNCHANGED <<vars, commands, history>>
      PROVE  /\ UNCHANGED <<elsewhere, table, lastSuccess, commands, history>>
             /\ stations' = stations
  BY <1>4 DEF vars, elsewhere, storeVars
<1>5. CASE CliDiscover(p)
  <2>1. FeedStations \subseteq Station BY DEF FeedStations, Rows
  <2>2. PICK found \in SUBSET Station :
              Set(p, [cli[p] EXCEPT !.pc = "register", !.found = found])
    BY <1>5, <2>1 DEF CliDiscover
  <2> DEFINE b == [cli[p] EXCEPT !.pc = "register", !.found = found]
  <2>3. /\ b \in Command /\ b.pc = "register" /\ b.batch = cli[p].batch
        /\ b.base = cli[p].base /\ b.at = cli[p].at /\ b.new = cli[p].new
        /\ b.cache = cli[p].cache /\ b.day = cli[p].day
    BY <1>1, <1>3 DEF Command
  <2>5. Set(p, b) BY <2>2
  <2> HIDE DEF b
  <2>7. PICK c \in Command : c = b BY <2>3
  <2>4. /\ UNCHANGED <<elsewhere, table, lastSuccess, commands, history>>
        /\ stations' = stations
    BY <1>4, <1>5 DEF CliDiscover
  <2> QED BY <1>1, <1>2, <2>3, <2>4, <2>5, <2>7, MovePreserves
<1>6. CASE CliLoadCaches(p)
  <2> DEFINE b == [cli[p] EXCEPT !.pc = "fetch", !.cache = stations]
  <2>3. /\ b \in Command /\ b.pc = "fetch" /\ b.batch = cli[p].batch
        /\ b.base = cli[p].base /\ b.at = cli[p].at /\ b.new = cli[p].new
        /\ b.cache = stations /\ b.day = cli[p].day
    BY <1>1, <1>3 DEF Command
  <2>5. Set(p, b) BY <1>6 DEF CliLoadCaches
  <2> HIDE DEF b
  <2>7. PICK c \in Command : c = b BY <2>3
  <2>4. /\ UNCHANGED <<elsewhere, table, lastSuccess, commands, history>>
        /\ stations' = stations
    BY <1>4, <1>6 DEF CliLoadCaches
  <2> QED BY <1>1, <1>2, <2>3, <2>4, <2>5, <2>7, MovePreserves
<1>7. CASE CliSetupFailed(p)
  <2> DEFINE b == [cli[p] EXCEPT !.pc = "exit"]
  <2>3. /\ b \in Command /\ b.pc = "exit" /\ b.batch = cli[p].batch
        /\ b.base = cli[p].base /\ b.at = cli[p].at /\ b.new = cli[p].new
        /\ b.cache = cli[p].cache /\ b.day = cli[p].day
    BY <1>1, <1>3 DEF Command
  <2>5. Set(p, b) BY <1>7 DEF CliSetupFailed
  <2> HIDE DEF b
  <2>7. PICK c \in Command : c = b BY <2>3
  <2>4. /\ UNCHANGED <<elsewhere, table, lastSuccess, commands, history>>
        /\ stations' = stations
    BY <1>4, <1>7 DEF CliSetupFailed
  <2> QED BY <1>1, <1>2, <2>3, <2>4, <2>5, <2>7, MovePreserves
<1>8. ASSUME NEW s \in Station, CliRegisterStation(p, s) PROVE CliInv'
  <2> DEFINE b == [cli[p] EXCEPT !.found = @ \ {s}]
  <2>3. /\ b \in Command /\ b.pc = cli[p].pc /\ b.batch = cli[p].batch
        /\ b.base = cli[p].base /\ b.at = cli[p].at /\ b.new = cli[p].new
        /\ b.cache = cli[p].cache /\ b.day = cli[p].day
    BY <1>1, <1>3 DEF Command
  <2>6. b.pc = "register" BY <1>8, <2>3 DEF CliRegisterStation, CliAt
  <2>5. Set(p, b) BY <1>8 DEF CliRegisterStation
  <2> HIDE DEF b
  <2>7. PICK c \in Command : c = b BY <2>3
  <2>4. /\ UNCHANGED <<elsewhere, table, lastSuccess, commands, history>>
        /\ stations' = stations \cup {s}
    BY <1>8 DEF CliRegisterStation
  <2> QED BY <1>1, <1>2, <2>3, <2>4, <2>5, <2>6, <2>7, MovePreserves
<1> QED BY <1>5, <1>6, <1>7, <1>8

\* The loop goes on: the day that is over leaves nothing due.
LEMMA NextDayFields ==
    ASSUME NEW c \in Command, c.day <= LastDay
    PROVE  LET n == NextDay(c)
           IN  /\ n \in Command
               /\ n.pc = IF c.day < LastDay THEN "fetch" ELSE "exit"
               /\ n.day = c.day + 1 /\ n.new = 0
               /\ n.batch = c.batch /\ n.base = c.base /\ n.at = c.at
               /\ n.cache = c.cache /\ n.lost = c.lost
<1>1. "fetch" \in CliPC /\ "exit" \in CliPC BY DEF CliPC
<1>2. c.day + 1 \in FirstDay..LastDay + 1 BY CommandFields
<1> QED BY <1>1, <1>2 DEF NextDay, Command

LEMMA RecordPreserves ==
    ASSUME CliInv, NEW p \in Cli, CliRecord(p) \/ CliDayFailed(p)
    PROVE  CliInv'
<1>1. /\ cli[p] \in Command /\ Sound(cli[p]) /\ claimed[p] \in Nat /\ cli[p].new \in Nat
      /\ cli[p].day <= LastDay /\ cli[p].day \in Nat /\ LastDay \in Nat
  <2>1. cli[p].pc \in {"fetch", "write", "record"}
    BY DEF CliRecord, CliDayFailed, CliAt
  <2> QED BY <2>1, CliFields, CommandFields DEF Sound, LoopIsWithinRange
<1>2. PICK c \in Command : c = NextDay(cli[p]) BY <1>1, NextDayFields
<1>3. /\ c.pc = IF cli[p].day < LastDay THEN "fetch" ELSE "exit"
      /\ c.day = cli[p].day + 1 /\ c.new = 0
      /\ c.batch = cli[p].batch /\ c.base = cli[p].base /\ c.at = cli[p].at
      /\ c.cache = cli[p].cache
  BY <1>1, <1>2, NextDayFields
<1>4. Set(p, c) BY <1>2 DEF CliRecord, CliDayFailed, AfterFailure
<1>5. /\ UNCHANGED <<elsewhere, table, written>> /\ stations' = stations
      /\ commands' = commands /\ UNCHANGED <<feed, clock, published>>
      /\ lastSuccess' \in {clock, lastSuccess}
      /\ \/ claimed' = [claimed EXCEPT ![p] = @ + cli[p].new]
         \/ claimed' = claimed
  <2>1. CASE CliRecord(p) BY <2>1 DEF CliRecord, elsewhere, feedVars
  <2>2. CASE CliDayFailed(p)
    BY <2>2 DEF CliDayFailed, vars, history, elsewhere, storeVars, feedVars
  <2> QED BY <2>1, <2>2
<1>6. Sound(c)'
  BY <1>1, <1>3, <1>5
  DEF Sound, BatchIsPublished, BatchFollowsTable, BatchIsComplete, LoopIsWithinRange
<1>7. /\ claimed' \in [Cli -> Nat] /\ claimed'[p] + c.new <= claimed[p] + cli[p].new
      /\ \A q \in Cli \ {p} : claimed'[q] = claimed[q]
  BY <1>1, <1>3, <1>5, CliFields
<1>8. lastSuccess' \in 0..MaxClock BY <1>5, CliFields
<1> QED BY <1>4, <1>5, <1>6, <1>7, <1>8, CliFields, CliAside

\* The batch of a day holds what has been published of it and is not out of
\* reach; the table is not ahead of it.
LEMMA CliFetchPreserves ==
    ASSUME CliInv, NEW p \in Cli, CliFetch(p)
    PROVE  CliInv'
<1>1. /\ cli[p] \in Command /\ Sound(cli[p]) /\ claimed[p] \in Nat /\ cli[p].new \in Nat
      /\ cli[p].day <= LastDay /\ cli[p].new = 0 /\ clock \in 1..MaxClock
  <2>1. cli[p].pc = "fetch" BY DEF CliFetch, CliAt
  <2> QED BY <2>1, CliFields, CommandFields DEF Sound, LoopIsWithinRange
<1>2. PICK lost \in SUBSET Key :
         Set(p, [cli[p] EXCEPT
                    !.pc = "write", !.at = clock, !.lost = lost, !.base = table,
                    !.batch = [k \in Key |-> IF k \in lost THEN 0
                                             ELSE FetchedOf(cli[p].day)[k]]])
  <2>1. Losses(cli[p].day) \subseteq SUBSET Key BY DEF Losses
  <2> QED BY <2>1 DEF CliFetch
<1> DEFINE batch == [k \in Key |-> IF k \in lost THEN 0 ELSE FetchedOf(cli[p].day)[k]]
           b == [cli[p] EXCEPT !.pc = "write", !.at = clock, !.lost = lost,
                               !.base = table, !.batch = batch]
<1>3. /\ \A k \in Key : batch[k] \in {0, feed[k]}
      /\ \A k \in Key : InDay(k, cli[p].day) /\ k \notin lost => batch[k] = feed[k]
      /\ batch \in Revisions
  <2>1. feed \in [Key -> 0..MaxRevision] /\ 0 \in 0..MaxRevision
    BY DEF CliInv, IInv, TypeOK, Revisions
  <2> QED BY <2>1 DEF FetchedOf, Revisions
<1> HIDE DEF batch
<1>4. table \in Revisions BY DEF CliInv, IInv, TypeOK
<1>5. /\ b \in Command /\ b.pc = "write" /\ b.at = clock /\ b.lost = lost
      /\ b.base = table /\ b.batch = batch /\ b.day = cli[p].day
      /\ b.cache = cli[p].cache /\ b.new = cli[p].new
  <2>1. "write" \in CliPC /\ clock \in 0..MaxClock BY <1>1 DEF CliPC
  <2> QED BY <1>1, <1>3, <1>4, <2>1 DEF Command
<1>6. Set(p, b) BY <1>2 DEF batch
<1> HIDE DEF b
<1>7. PICK c \in Command : c = b BY <1>5
<1>8. /\ UNCHANGED <<elsewhere, table, written>> /\ stations' = stations
      /\ commands' = commands /\ claimed' = claimed /\ lastSuccess' = lastSuccess
      /\ UNCHANGED <<feed, clock, published>>
  BY DEF CliFetch, vars, history, elsewhere, storeVars, feedVars
<1>9. /\ feed \in [Key -> Nat] /\ table \in [Key -> Nat] /\ published \in [Key -> Nat]
      /\ \A k \in Key : table[k] <= feed[k]
      /\ \A k \in Key : published[k] > 0 => feed[k] > 0
  <2>1. feed \in [Key -> Nat] /\ table \in [Key -> Nat] /\ published \in [Key -> Nat]
    BY StoreType DEF CliInv, IInv
  <2> QED BY <2>1 DEF CliInv, IInv, WindowsArePast, StoredRowsAreGenuine, Rows
<1>10. Sound(c)'
  <2>1. BatchIsPublished(c)'
    BY <1>1, <1>3, <1>5, <1>7, <1>8, <1>9 DEF Sound, BatchIsPublished
  <2>2. BatchFollowsTable(c)' BY <1>3, <1>5, <1>7, <1>9 DEF BatchFollowsTable
  <2>3. LoopIsWithinRange(c)' BY <1>1, <1>5, <1>7, <1>8 DEF LoopIsWithinRange
  <2>4. BatchIsComplete(c)'
    <3>1. c.at > 0 BY <1>1, <1>5, <1>7
    <3>2. ASSUME NEW k \in Key, Reached(k, c)' PROVE c.batch[k] > 0
      <4>1. InDay(k, cli[p].day) /\ k \notin lost /\ published[k] > 0
        BY <1>5, <1>7, <1>8, <1>9, <3>2 DEF Reached
      <4> QED BY <4>1, <1>3, <1>5, <1>7, <1>9
    <3> QED BY <3>1, <3>2 DEF BatchIsComplete
  <2> QED BY <2>1, <2>2, <2>3, <2>4 DEF Sound
<1>11. claimed'[p] + c.new <= claimed[p] + cli[p].new BY <1>1, <1>5, <1>7, <1>8
<1>12. Set(p, c) BY <1>6, <1>7
<1> QED BY <1>8, <1>10, <1>11, <1>12, CliFields, CliAside

\* The transaction: rows of the batch replace or join those of the table, and
\* the ones that join are the ones it will report.
LEMMA CliWritePreserves ==
    ASSUME CliInv, NEW p \in Cli, CliWrite(p)
    PROVE  CliInv'
<1> DEFINE joining == {k \in CliStored(p) : table[k] = 0}
           m == Cardinality(joining)
           window == [day |-> cli[p].day, at |-> cli[p].at,
                      known |-> cli[p].cache, lost |-> cli[p].lost]
<1>1. /\ IInv /\ TypeOK /\ CliTypeOK /\ FeedIsFinite /\ StoredRowsAreGenuine
      /\ RowsAreCountedOnce
  BY DEF CliInv, IInv
<1>2. /\ cli[p] \in Command /\ Sound(cli[p]) /\ claimed[p] \in Nat
      /\ cli[p].new = 0 /\ cli[p].day <= LastDay /\ cli[p].day \in FirstDay..LastDay
      /\ cli[p].at \in 1..MaxClock /\ cli[p].at <= clock
      /\ \A k \in Key : Reached(k, cli[p]) => cli[p].batch[k] > 0
  <2>1. cli[p].pc = "write" BY DEF CliWrite, CliAt
  <2> QED
    BY <2>1, CliFields, CommandFields DEF Sound, LoopIsWithinRange, BatchIsComplete
<1>3. /\ UNCHANGED <<clock, exec, faults, queued, dispatched, finished, feed, published,
                     dlqQueue, dlqExec, dlqList, dlqLost, runs, stations, lastSuccess>>
      /\ UNCHANGED <<commands, claimed>>
      /\ table' = CliUpsert(p) /\ written' = written \cup {window}
  BY DEF CliWrite, elsewhere, brokerVars, feedVars, dlqVars
<1>4. /\ feed \in [Key -> Nat] /\ table \in [Key -> Nat] /\ clock \in Nat
      /\ cli[p].batch \in [Key -> Nat] /\ cli[p].batch \in Revisions
      /\ \A k \in Key : cli[p].batch[k] <= feed[k]
      /\ cli[p].cache \subseteq stations
  BY <1>1, <1>2, StoreType, CommandFields DEF Sound, BatchIsPublished
<1>5. \A k \in CliStored(p) : /\ k \in Key \ Unmapped /\ cli[p].batch[k] > 0
                              /\ StationOf[k] \in cli[p].cache
  BY DEF CliStored, Rows
<1>6. \A k \in Key : table'[k] = IF k \in CliStored(p) THEN cli[p].batch[k] ELSE table[k]
  BY <1>3 DEF CliUpsert
<1>7. table' \in Revisions
  <2>1. table \in [Key -> 0..MaxRevision] /\ cli[p].batch \in [Key -> 0..MaxRevision]
    BY <1>1, <1>4 DEF TypeOK, Revisions
  <2> QED BY <1>3, <2>1 DEF CliUpsert, Revisions
<1>8. TypeOK' BY <1>1, <1>3, <1>7 DEF TypeOK
<1>9. IInv'
  <2>1. BatchesArePublished' /\ BatchesFollowTable' /\ WindowsArePast'
    BY <1>1, <1>3 DEF IInv, BatchesArePublished, BatchesFollowTable, WindowsArePast
  <2>2. BatchesAreComplete' BY <1>1, <1>3 DEF IInv, BatchesAreComplete, Fetching, Covered
  <2>3. RunsAreStored'
    BY <1>1, <1>3, <1>5, <1>6 DEF IInv, RunsAreStored, Covered
  <2>4. StoredRowsAreGenuine'
    BY <1>1, <1>3, <1>4, <1>5, <1>6 DEF StoredRowsAreGenuine, Rows
  <2> QED BY <1>8, <2>1, <2>2, <2>3, <2>4 DEF IInv
<1>10. Background
  BY <1>1, <1>3, <1>4, <1>5, <1>6 DEF Background, FeedIsFinite
<1>11. /\ joining \subseteq Rows(feed) /\ IsFiniteSet(joining) /\ m \in Nat
  <2>1. joining \subseteq Rows(feed) BY <1>4, <1>5 DEF Rows
  <2> HIDE DEF joining
  <2> QED BY <1>1, <2>1, FS_Subset, FS_CardinalityType DEF FeedIsFinite
<1>12. PICK c \in Command :
          /\ Set(p, c)
          /\ c.pc # "write" /\ c.new = m
          /\ c.batch = cli[p].batch /\ c.base = cli[p].base /\ c.at = cli[p].at
          /\ c.cache = cli[p].cache
          /\ c.pc \notin {"discover", "register"}
          /\ c.pc \in {"fetch", "record"} => c.day <= LastDay
          /\ c.new > 0 => c.pc = "record"
  <2>1. CASE Rows(cli[p].batch) = {}
    <3>1. Set(p, NextDay(cli[p])) BY <2>1 DEF CliWrite
    <3>2. joining = {} BY <2>1 DEF CliStored
    <3>3. m = 0 BY <3>2, FS_EmptySet
    <3>4. cli[p].day \in Nat /\ LastDay \in Nat BY <1>2
    <3> HIDE DEF joining, m
    <3> QED BY <1>2, <3>1, <3>3, <3>4, NextDayFields
  <2>2. CASE Rows(cli[p].batch) # {}
    <3>1. Set(p, [cli[p] EXCEPT !.pc = "record", !.new = m])
      BY <2>2 DEF CliWrite, Inserted
    <3>2. "record" \in CliPC BY DEF CliPC
    <3> DEFINE b == [cli[p] EXCEPT !.pc = "record", !.new = m]
    <3> HIDE DEF joining, m
    <3>3. /\ b \in Command /\ b.pc = "record" /\ b.new = m
          /\ b.batch = cli[p].batch /\ b.base = cli[p].base /\ b.at = cli[p].at
          /\ b.cache = cli[p].cache /\ b.day = cli[p].day
      BY <1>2, <1>11, <3>2 DEF Command
    <3>4. Set(p, b) BY <3>1
    <3> HIDE DEF b
    <3> QED BY <1>2, <3>3, <3>4
  <2> QED BY <2>1, <2>2
<1> HIDE DEF joining, m
<1>13. Sound(c)'
  BY <1>2, <1>3, <1>12
  DEF Sound, BatchIsPublished, BatchFollowsTable, BatchIsComplete, LoopIsWithinRange
<1>14. /\ cli' \in [Cli -> Command]
       /\ cli'[p] = c /\ \A q \in Cli \ {p} : cli'[q] = cli[q]
       /\ CommandsAreSound'
  BY <1>8, <1>10, <1>12, <1>13, SetStep
<1>15. CliTypeOK'
  <2>1. window \in [day: Day, at: 1..MaxClock, known: SUBSET Station, lost: SUBSET Key]
    BY <1>2, CommandFields DEF Day
  <2> QED BY <1>1, <1>3, <1>14, <2>1 DEF CliTypeOK
<1>16. /\ window.at = cli[p].at /\ window.day = cli[p].day
       /\ window.known = cli[p].cache /\ window.lost = cli[p].lost
  OBVIOUS
<1> HIDE DEF window
<1>17. WrittenInThePast'
  BY <1>2, <1>3, <1>8, <1>10, <1>16, WrittenAside DEF WrittenInThePast
<1>18. WrittenDaysAreStored'
  <2> SUFFICES ASSUME NEW d \in written', NEW k \in Key \ Unmapped,
                      Reached(k, d)', StationOf[k] \in d.known
               PROVE  table'[k] > 0
    BY DEF WrittenDaysAreStored, Reached, InDay
  <2>1. CASE d \in written BY <1>8, <1>10, <2>1, WrittenAside
  <2>2. CASE d = window
    <3>1. Reached(k, cli[p]) BY <1>3, <1>16, <2>2 DEF Reached
    <3>2. cli[p].batch[k] > 0 BY <1>2, <3>1
    <3>3. k \in CliStored(p) BY <1>16, <2>2, <3>2 DEF CliStored, Rows
    <3> QED BY <1>6, <3>2, <3>3
  <2> QED BY <1>3, <2>1, <2>2
<1>19. RowsAreCountedOnce'
  <2>1. /\ Counted \in [Cli -> Nat]
        /\ Counted'[p] = Counted[p] + m /\ \A q \in Cli \ {p} : Counted'[q] = Counted[q]
    <3>1. \A q \in Cli : claimed[q] \in Nat /\ cli[q].new \in Nat
      BY CliFields, CommandFields
    <3> QED BY <1>2, <1>3, <1>11, <1>12, <1>14, <3>1 DEF Counted
  <2>2. /\ IsFiniteSet(Units(Cli, Counted'))
        /\ Cardinality(Units(Cli, Counted')) = Cardinality(Units(Cli, Counted)) + m
    BY <1>1, <1>11, <2>1, UnitsAdd DEF RowsAreCountedOnce
  <2>3. Rows(table') = Rows(table) \cup joining /\ Rows(table) \cap joining = {}
    BY <1>4, <1>5, <1>6 DEF Rows, joining
  <2>4. IsFiniteSet(Rows(table)) /\ Cardinality(Rows(table)) \in Nat BY <1>1, RowsFinite
  <2>5. Cardinality(Rows(table')) = Cardinality(Rows(table)) + m
    BY <1>11, <2>3, <2>4, DisjointUnion DEF m
  <2>6. Cardinality(Units(Cli, Counted)) \in Nat
        /\ Cardinality(Units(Cli, Counted)) <= Cardinality(Rows(table))
    BY <1>1, FS_CardinalityType DEF RowsAreCountedOnce
  <2>7. Units(Cli, Counted)' = Units(Cli, Counted') BY DEF Units
  <2> QED BY <1>11, <2>2, <2>4, <2>5, <2>6, <2>7 DEF RowsAreCountedOnce, Units, Rows
<1> QED BY <1>9, <1>10, <1>14, <1>15, <1>17, <1>18, <1>19 DEF CliInv, Background

LEMMA CliInitInvariant == BackfillInit => CliInv
<1> SUFFICES ASSUME BackfillInit PROVE CliInv OBVIOUS
<1>1. /\ Init /\ cli = [p \in Cli |-> NoCommand] /\ commands = [p \in Cli |-> 0]
      /\ claimed = [p \in Cli |-> 0] /\ written = {}
  BY DEF BackfillInit
<1>2. IInv BY <1>1, InitInvariant
<1>3. CliTypeOK BY <1>1, NoCommandType DEF CliTypeOK
<1>4. Rows(feed) = {} /\ Rows(table) = {} BY <1>1 DEF Init, Rows, Nothing
<1>5. FeedIsFinite BY <1>4, FS_EmptySet DEF FeedIsFinite
<1>6. CommandsAreSound
  <2>1. clock = 1 /\ feed = Nothing BY <1>1 DEF Init
  <2> QED
    BY <1>1, <2>1
    DEF CommandsAreSound, Sound, BatchIsPublished, BatchFollowsTable, BatchIsComplete,
        LoopIsWithinRange, NoCommand, Nothing
<1>7. WrittenInThePast /\ WrittenDaysAreStored
  BY <1>1 DEF WrittenInThePast, WrittenDaysAreStored
<1>8. RowsAreCountedOnce
  <2>1. \A p \in Cli : Counted[p] = 0 BY <1>1 DEF Counted, NoCommand
  <2>2. Units(Cli, Counted) = {} BY <2>1 DEF Units
  <2> QED BY <1>4, <2>2, FS_EmptySet DEF RowsAreCountedOnce
<1> QED BY <1>2, <1>3, <1>5, <1>6, <1>7, <1>8 DEF CliInv

LEMMA CliInvariantStep == CliInv /\ [BackfillNext]_allVars => CliInv'
<1> SUFFICES ASSUME CliInv, [BackfillNext]_allVars PROVE CliInv' OBVIOUS
<1>1. CASE Next /\ UNCHANGED <<cli, commands, history>> BY <1>1, WorkerStep
<1>2. CASE UNCHANGED allVars
  <2>1. UNCHANGED vars /\ UNCHANGED <<cli, commands, history>> BY <1>2 DEF allVars
  <2> QED BY <2>1, WorkerStep
<1>3. ASSUME NEW p \in Cli, Start(p) \/ Interrupt(p) PROVE CliInv'
  BY <1>3, StartPreserves
<1>4. ASSUME NEW p \in Cli, CliStep(p) PROVE CliInv'
  BY <1>4, SetupPreserves, CliFetchPreserves, CliWritePreserves, RecordPreserves
  DEF CliStep
<1> QED BY <1>1, <1>2, <1>3, <1>4 DEF BackfillNext

\* The inductive invariant holds in every reachable state.
THEOREM CliInvariant == BackfillSpec => []CliInv
BY CliInitInvariant, CliInvariantStep, PTL DEF BackfillSpec

------------------------------------------------------------------------------
(***************************************************************************)
(* What follows from the invariant.                                        *)
(***************************************************************************)

\* The loop of a command never leaves its range by more than a day, and every
\* report is a number (backfill.py, the loop of _run_backfill).
THEOREM CliTypeCorrect == BackfillSpec => []CliTypeOK
<1>1. CliInv => CliTypeOK BY DEF CliInv
<1> QED BY CliInvariant, <1>1, PTL

\* A day whose transaction committed is in the hypertable, slots of midnight
\* included, and stays there (backfill.py, the daily windows).
THEOREM WrittenDays == BackfillSpec => []WrittenDaysAreStored
<1>1. CliInv => WrittenDaysAreStored BY DEF CliInv
<1> QED BY CliInvariant, <1>1, PTL

\* All reports of all commands together never exceed the rows there are
\* (writer.py, count(*) FILTER (WHERE xmax = 0)).
THEOREM ReportsOnce == BackfillSpec => []ReportsCountRowsOnce
<1>1. ASSUME CliInv PROVE ReportsCountRowsOnce
  <2>1. /\ TypeOK /\ StoredRowsAreGenuine /\ FeedIsFinite /\ RowsAreCountedOnce
    BY <1>1 DEF CliInv, IInv
  <2>2. \A q \in Cli : claimed[q] \in Nat /\ cli[q].new \in Nat
    BY <1>1, CliFields, CommandFields
  <2>3. \A q \in Cli : Counted[q] \in Nat /\ claimed[q] \in Nat /\ claimed[q] <= Counted[q]
    BY <2>2 DEF Counted
  <2>4. Units(Cli, claimed) \subseteq Units(Cli, Counted) BY <2>3, UnitsGrow
  <2>5. /\ Cardinality(Units(Cli, claimed)) <= Cardinality(Units(Cli, Counted))
        /\ Cardinality(Units(Cli, claimed)) \in Nat
        /\ Cardinality(Units(Cli, Counted)) \in Nat
        /\ Cardinality(Units(Cli, Counted)) <= Cardinality(Rows(table))
    BY <2>1, <2>4, FS_Subset, FS_CardinalityType DEF RowsAreCountedOnce
  <2>6. Cardinality(Rows(table)) \in Nat BY <2>1, RowsFinite
  <2>7. Claims = Units(Cli, claimed) BY DEF Claims, Units
  <2> QED BY <2>5, <2>6, <2>7 DEF ReportsCountRowsOnce
<1> QED BY CliInvariant, <1>1, PTL

\* What the executions of run_source were shown to promise holds beside the
\* command, too: both properties of the hypertable.
THEOREM GenuineRowsBesideBackfill == BackfillSpec => []StoredRowsAreGenuine
<1>1. CliInv => StoredRowsAreGenuine BY DEF CliInv, IInv
<1> QED BY CliInvariant, <1>1, PTL

\* The overlap window of run_source, beside the command.
THEOREM CoveredSlotsBesideBackfill == BackfillSpec => []CoveredSlotsAreStored
<1>1. CliInv => CoveredSlotsAreStored
  BY DEF CliInv, IInv, RunsAreStored, Covered, CoveredSlotsAreStored
<1> QED BY CliInvariant, <1>1, PTL

\* The only steps of the command that change the table are its transactions.
LEMMA TableChangesBesideBackfill ==
    ASSUME CliInv, [BackfillNext]_allVars, table' # table
    PROVE  \/ \E w \in Worker : /\ WriteBatch(w) /\ feed' = feed
                                /\ table' = Upsert(w)
           \/ \E p \in Cli : /\ CliWrite(p) /\ feed' = feed
                             /\ table' = CliUpsert(p)
<1>1. CASE [Next]_vars BY <1>1, TableChanges DEF CliInv
<1>2. ASSUME NEW p \in Cli, Start(p) \/ Interrupt(p) PROVE table' = table
  BY <1>2 DEF Start, Interrupt, vars, storeVars
<1>3. ASSUME NEW p \in Cli, CliStep(p), ~CliWrite(p) PROVE table' = table
  BY <1>3 DEF CliStep, CliDiscover, CliLoadCaches, CliSetupFailed, CliRegisterStation,
              CliFetch, CliRecord, CliDayFailed, vars, storeVars
<1>4. ASSUME NEW p \in Cli, CliWrite(p) PROVE feed' = feed /\ table' = CliUpsert(p)
  BY <1>4 DEF CliWrite, elsewhere, feedVars
<1> QED BY <1>1, <1>2, <1>3, <1>4 DEF BackfillNext, allVars

\* A stored revision gives way to an older one only when the writer, execution
\* or command, fetched before the newer one was committed (writer.py, ON
\* CONFLICT DO UPDATE without a guard).
THEOREM LostUpdates == BackfillSpec => OnlyOverlapLosesUpdates
<1>1. ASSUME CliInv, [BackfillNext]_allVars
      PROVE  [\A k \in Key : table'[k] < table[k] =>
                 \/ \E w \in Worker : WriteBatch(w) /\ exec[w].base[k] < table[k]
                 \/ \E p \in Cli : CliWrite(p) /\ cli[p].base[k] < table[k]]_allVars
  <2>1. TypeOK BY <1>1 DEF CliInv, IInv
  <2> SUFFICES ASSUME NEW k \in Key, table'[k] < table[k]
               PROVE  \/ \E w \in Worker : WriteBatch(w) /\ exec[w].base[k] < table[k]
                      \/ \E p \in Cli : CliWrite(p) /\ cli[p].base[k] < table[k]
    OBVIOUS
  <2>2. table \in [Key -> Nat] BY <2>1, StoreType
  <2>3. table' # table BY <2>2
  <2>4. ASSUME NEW w \in Worker, WriteBatch(w), table' = Upsert(w)
        PROVE  exec[w].base[k] < table[k]
    <3>1. exec[w].batch \in [Key -> Nat] /\ exec[w].base \in [Key -> Nat]
      BY <2>1, LocalsType
    <3>2. k \in Stored(w) /\ table'[k] = exec[w].batch[k] BY <2>2, <2>4 DEF Upsert
    <3>3. exec[w].batch[k] > 0 BY <3>2 DEF Stored, NormalRows, Rows
    <3>4. exec[w].base[k] <= exec[w].batch[k]
      BY <1>1, <3>3 DEF CliInv, IInv, BatchesFollowTable
    <3> QED BY <2>2, <3>1, <3>2, <3>4
  <2>5. ASSUME NEW p \in Cli, CliWrite(p), table' = CliUpsert(p)
        PROVE  cli[p].base[k] < table[k]
    <3>1. cli[p].batch \in [Key -> Nat] /\ cli[p].base \in [Key -> Nat] /\ Sound(cli[p])
      BY <1>1, CliFields, CommandFields
    <3>2. k \in CliStored(p) /\ table'[k] = cli[p].batch[k] BY <2>2, <2>5 DEF CliUpsert
    <3>3. cli[p].batch[k] > 0 BY <3>2 DEF CliStored, Rows
    <3>4. cli[p].base[k] <= cli[p].batch[k] BY <3>1, <3>3 DEF Sound, BatchFollowsTable
    <3> QED BY <2>2, <3>1, <3>2, <3>4
  <2> QED BY <1>1, <2>3, <2>4, <2>5, TableChangesBesideBackfill
<1> QED BY CliInvariant, <1>1, PTL DEF BackfillSpec, OnlyOverlapLosesUpdates

\* With the command, too, the hypertable is a mirror of the feed in the sense of
\* SourceMirror: a day's transaction maps to one commit.
THEOREM MirrorsBesideBackfill == BackfillSpec => MirrorsSource
<1>1. BackfillInit => Mirror!MirrorInit
  BY DEF BackfillInit, Init, Mirror!MirrorInit, Mirror!Nothing, Nothing
<1>2. ASSUME CliInv, [BackfillNext]_allVars
      PROVE  [Mirror!MirrorNext]_(Mirror!mirrorVars)
  <2>1. TypeOK /\ feed \in [Key -> Nat] BY <1>2, StoreType DEF CliInv, IInv
  <2>2. ASSUME NEW S \in SUBSET Key, NEW b \in Revisions, feed' = feed,
               \A k \in Key : b[k] <= feed[k], \A k \in S : b[k] > 0,
               table' = [k \in Key |-> IF k \in S THEN b[k] ELSE table[k]]
        PROVE  Mirror!MirrorNext
    <3> DEFINE batch == [k \in Key |-> IF k \in S THEN b[k] ELSE 0]
    <3>1. batch \in [Key -> 0..MaxRevision] BY DEF Revisions
    <3>2. \A k \in Key : batch[k] <= feed[k] BY <2>1, <2>2
    <3>3. table' = [k \in Key |-> IF batch[k] = 0 THEN table[k] ELSE batch[k]]
      BY <2>2 DEF Revisions
    <3>4. Mirror!Commit(batch) BY <2>2, <3>2, <3>3 DEF Mirror!Commit
    <3> QED BY <3>1, <3>4 DEF Mirror!MirrorNext
  <2>3. CASE table' # table
    <3>1. ASSUME NEW w \in Worker, feed' = feed, table' = Upsert(w)
          PROVE  Mirror!MirrorNext
      <4>1. /\ exec[w].batch \in Revisions
            /\ Stored(w) \subseteq Key /\ \A k \in Stored(w) : exec[w].batch[k] > 0
            /\ \A k \in Key : exec[w].batch[k] <= feed[k]
        BY <1>2, <2>1
        DEF TypeOK, Execution, Stored, NormalRows, Rows, CliInv, IInv, BatchesArePublished
      <4> QED BY <2>2, <3>1, <4>1 DEF Upsert
    <3>2. ASSUME NEW p \in Cli, feed' = feed, table' = CliUpsert(p)
          PROVE  Mirror!MirrorNext
      <4>1. /\ cli[p].batch \in Revisions
            /\ CliStored(p) \subseteq Key /\ \A k \in CliStored(p) : cli[p].batch[k] > 0
            /\ \A k \in Key : cli[p].batch[k] <= feed[k]
        BY <1>2, CliFields, CommandFields DEF CliStored, Rows, Sound, BatchIsPublished
      <4> QED BY <2>2, <3>2, <4>1 DEF CliUpsert
    <3> QED BY <1>2, <2>3, <3>1, <3>2, TableChangesBesideBackfill
  <2>4. CASE table' = table /\ \E k \in Key : Publish(k)
    <3>1. PICK k \in Key : Publish(k) BY <2>4
    <3>2. Mirror!Revise(k) BY <2>4, <3>1 DEF Publish, Mirror!Revise
    <3> QED BY <3>2 DEF Mirror!MirrorNext
  <2>5. CASE table' = table /\ \A k \in Key : ~Publish(k)
    <3>1. CASE [Next]_vars
      <4>1. ASSUME NEW w \in Worker, LoadCaches(w) \/ Fetch(w) \/ WriteBatch(w)
            PROVE  feed' = feed
        BY <4>1 DEF LoadCaches, Fetch, WriteBatch, feedVars
      <4>2. feed' = feed BY <2>1, <2>5, <3>1, <4>1, AsideSteps DEF Aside
      <4> QED BY <2>5, <4>2 DEF Mirror!mirrorVars
    <3>2. ASSUME NEW p \in Cli, Start(p) \/ Interrupt(p) \/ CliStep(p)
          PROVE  feed' = feed
      BY <3>2 DEF Start, Interrupt, CliStep, CliDiscover, CliLoadCaches, CliSetupFailed,
                  CliRegisterStation, CliFetch, CliWrite, CliRecord, CliDayFailed,
                  elsewhere, vars, feedVars
    <3> QED BY <1>2, <2>5, <3>1, <3>2 DEF BackfillNext, allVars, Mirror!mirrorVars
  <2> QED BY <2>3, <2>4, <2>5
<1> QED BY CliInvariant, <1>1, <1>2, PTL DEF BackfillSpec, MirrorsSource, Mirror!MirrorSpec

------------------------------------------------------------------------------
(***************************************************************************)
(* The queues beside the command.                                          *)
(***************************************************************************)

\* A command neither takes nor sends a message, and routes nothing.
LEMMA CommandsLeaveQueues ==
    ASSUME NEW p \in Cli, Start(p) \/ CliStep(p) \/ Interrupt(p)
    PROVE  UNCHANGED <<exec, brokerVars, dlqVars, runs>>
BY DEF CliStep, Start, Interrupt, CliDiscover, CliRegisterStation, CliLoadCaches,
       CliSetupFailed, CliFetch, CliWrite, CliRecord, CliDayFailed, elsewhere, vars, storeVars

LEMMA QueuesStep ==
    ASSUME CliInv, CliInv', [BackfillNext]_allVars, DlqInv, MessageInv
    PROVE  DlqInv' /\ MessageInv'
<1>1. CASE [Next]_vars BY <1>1, DlqStep, MessageStep
<1>2. ASSUME NEW p \in Cli, Start(p) \/ CliStep(p) \/ Interrupt(p)
      PROVE  DlqInv' /\ MessageInv'
  <2>1. UNCHANGED <<exec, brokerVars, dlqVars, runs>> BY <1>2, CommandsLeaveQueues
  <2>2. TypeOK' BY DEF CliInv, IInv
  <2>3. DlqInv'
    BY <2>1, <2>2
    DEF DlqInv, RoutedAreAccounted, RunsAreAccounted, Accounted, InDlqQueue, InDlqHands,
        LostSoFar, dlqVars, At, Violations
  <2>4. MessageInv' BY <2>1, <2>2, BrokerAside
  <2> QED BY <2>3, <2>4
<1> QED BY <1>1, <1>2 DEF BackfillNext, allVars

LEMMA QueuesInvariant == BackfillSpec => [](DlqInv /\ MessageInv)
<1>1. BackfillInit => DlqInv /\ MessageInv BY DlqInit, MessageInit DEF BackfillInit
<1>2. /\ CliInv /\ CliInv' /\ [BackfillNext]_allVars /\ DlqInv /\ MessageInv
      => DlqInv' /\ MessageInv'
  BY QueuesStep
<1> QED BY CliInvariant, <1>1, <1>2, PTL DEF BackfillSpec

\* The dead letters of run_source are accounted for beside the command, too, which
\* registers stations and so changes what an execution writes (ingest.py,
\* dlq_route; backfill.py, _ensure_metadata).
THEOREM AccountedBesideBackfill == BackfillSpec => []ViolationsAreAccountedFor
<1>1. DlqInv => ViolationsAreAccountedFor BY DlqFollows
<1> QED BY QueuesInvariant, <1>1, PTL

\* The command takes no message of the workers (celery_app.py, task_acks_late).
THEOREM MessagesKeptBesideBackfill == BackfillSpec => []MessagesAreNotLost
BY QueuesInvariant, MessagesFollow, PTL
=============================================================================
