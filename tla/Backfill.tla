------------------------------- MODULE Backfill -------------------------------
(***************************************************************************)
(* The command `climatepulse backfill`, beside the workers of RunSource:   *)
(* it registers metadata like an execution does, then fetches and writes   *)
(* one daily window after the other, through the same IdempotentWriter     *)
(* into the same tables, and reports per day the rows it inserted.  An     *)
(* operator runs it again after errors, or twice at the same time.         *)
(*                                                                         *)
(* Unlike run_source the command sends no violations to the dlq queue:     *)
(* the writer skips their rows, because their code has no variable.        *)
(***************************************************************************)
EXTENDS RunSource

CONSTANTS
    Cli,                \* processes of the command
    DayLength,          \* instants of a day
    FirstDay, LastDay,  \* --from and --to, both included
    Archived,           \* days older than STORICO_THRESHOLD_DAYS
    MonthLength,        \* instants of a month, one archive file each
    MaxCommands         \* bound: how often a process runs the command

ASSUME BackfillAssumption ==
    /\ IsFiniteSet(Cli)
    /\ DayLength \in Nat \ {0}
    /\ FirstDay \in Nat /\ LastDay \in Nat /\ FirstDay <= LastDay
    /\ Archived \subseteq Nat
    /\ MonthLength \in Nat \ {0}
    /\ MaxCommands \in Nat

VARIABLES
    cli,        \* cli[p]: the command process p runs, or ran last
    commands    \* commands[p]: how often p started it

\* History: claimed[p] adds up the rows p reported as new; written says what
\* the transactions of the command covered.
VARIABLES claimed, written

history == <<claimed, written>>
allVars == <<vars, cli, commands, history>>

Day == FirstDay..LastDay

CliPC == {"idle", "discover", "register", "fetch", "write", "record", "exit"}

\* at: instant of the day's fetch.  lost: slots it could not see.  new: rows its
\* transaction inserted.
Command == [pc: CliPC, day: FirstDay..LastDay + 1, found: SUBSET Station,
            cache: SUBSET Station, at: 0..MaxClock, lost: SUBSET Key,
            batch: Revisions, base: Revisions, new: Nat]

NoCommand == [pc |-> "idle", day |-> FirstDay, found |-> {}, cache |-> {},
              at |-> 0, lost |-> {}, batch |-> Nothing, base |-> Nothing,
              new |-> 0]

CliTypeOK ==
    /\ cli \in [Cli -> Command]
    /\ commands \in [Cli -> 0..MaxCommands]
    /\ claimed \in [Cli -> Nat]
    /\ written \subseteq [day: Day, at: 1..MaxClock,
                         known: SUBSET Station, lost: SUBSET Key]

BackfillInit ==
    /\ Init
    /\ cli = [p \in Cli |-> NoCommand]
    /\ commands = [p \in Cli |-> 0]
    /\ claimed = [p \in Cli |-> 0]
    /\ written = {}

------------------------------------------------------------------------------
CliAt(p, label) == cli[p].pc = label

\* Set(p, c): p's command becomes c.
Set(p, command) == cli' = [cli EXCEPT ![p] = command]

\* What the command never touches.
elsewhere == <<clock, exec, faults, brokerVars, feedVars, dlqVars, runs>>

\* The operator runs the command, for the first time or again.
Start(p) ==
    /\ cli[p].pc \in {"idle", "exit"}
    /\ commands[p] < MaxCommands
    /\ commands' = [commands EXCEPT ![p] = @ + 1]
    /\ Set(p, [NoCommand EXCEPT !.pc = "discover"])
    /\ UNCHANGED <<vars, history>>

\* Exceptions of discover_stations are caught: no station is found.
CliDiscover(p) ==
    /\ CliAt(p, "discover")
    /\ \E found \in SUBSET FeedStations :
          Set(p, [cli[p] EXCEPT !.pc = "register", !.found = found])
    /\ UNCHANGED <<vars, commands, history>>

CliRegisterStation(p, s) ==
    /\ CliAt(p, "register")
    /\ s \in cli[p].found
    /\ stations' = stations \cup {s}
    /\ Set(p, [cli[p] EXCEPT !.found = @ \ {s}])
    /\ UNCHANGED <<elsewhere, table, lastSuccess, commands, history>>

CliLoadCaches(p) ==
    /\ CliAt(p, "register")
    /\ cli[p].found = {}
    /\ Set(p, [cli[p] EXCEPT !.pc = "fetch", !.cache = stations])
    /\ UNCHANGED <<vars, commands, history>>

\* Any other exception before the first day ends the command; the stations
\* upserted before it stay.
CliSetupFailed(p) ==
    /\ cli[p].pc \in {"discover", "register"}
    /\ Set(p, [cli[p] EXCEPT !.pc = "exit"])
    /\ UNCHANGED <<vars, commands, history>>

\* Ctrl-C.
Interrupt(p) ==
    /\ cli[p].pc \notin {"idle", "exit"}
    /\ Set(p, NoCommand)
    /\ UNCHANGED <<vars, commands, history>>

------------------------------------------------------------------------------
\* Variant: a half-open day.
InHalfOpenDay(k, d) == TimeOf[k] \in d * DayLength + 1 .. (d + 1) * DayLength

\* FetchWindow [day 00:00, next day 00:00], both bounds included: the slot at
\* midnight belongs to two days.
InDay(k, d) == TimeOf[k] \in d * DayLength .. (d + 1) * DayLength

\* Variant: a cached first body instead of the current content.
FirstContentOf(d) == [k \in Key |-> IF InDay(k, d) /\ feed[k] > 0 THEN 1 ELSE 0]

\* What the source has published of the day by now.
FetchedOf(d) == [k \in Key |-> IF InDay(k, d) THEN feed[k] ELSE 0]

Month(k) == TimeOf[k] \div MonthLength

\* The slots a fetch may not get to see.  Old days come from the monthly
\* archives, and one that is not there (404) or cannot be decompressed is
\* skipped without an error; other days come from the realtime feed, which need
\* not go back that far.
Losses(d) ==
    IF d \in Archived
    THEN {{k \in Key : Month(k) \in months} : months \in SUBSET {Month(k) : k \in Key}}
    ELSE {{k \in Key : TimeOf[k] < oldest} : oldest \in 0..MaxClock + 1}

\* adapter.fetch for the day.
CliFetch(p) ==
    /\ CliAt(p, "fetch")
    /\ \E lost \in Losses(cli[p].day) :
          Set(p, [cli[p] EXCEPT
                     !.pc = "write", !.at = clock, !.lost = lost, !.base = table,
                     !.batch = [k \in Key |-> IF k \in lost THEN 0
                                              ELSE FetchedOf(cli[p].day)[k]]])
    /\ UNCHANGED <<vars, commands, history>>

\* Rows of unknown codes and of unknown stations are skipped.
CliStored(p) == {k \in Rows(cli[p].batch) : /\ k \notin Unmapped
                                            /\ StationOf[k] \in cli[p].cache}

\* Variant: the day is deleted and inserted again.
CliReplaced(p) == [k \in Key |-> IF k \in CliStored(p) THEN cli[p].batch[k]
                                ELSE IF InDay(k, cli[p].day) THEN 0 ELSE table[k]]

CliUpsert(p) == [k \in Key |-> IF k \in CliStored(p) THEN cli[p].batch[k] ELSE table[k]]

\* Variant: every row of the COPY counts.
Copied(p) == Cardinality(CliStored(p))

\* count(*) FILTER (WHERE xmax = 0): the rows that were not there before.
Inserted(p) == Cardinality({k \in CliStored(p) : table[k] = 0})

\* Variant: the loop ends one day late.
PastLastDay(c) ==
    [c EXCEPT !.pc = IF c.day <= LastDay THEN "fetch" ELSE "exit",
              !.day = @ + 1, !.new = 0]

\* The loop goes on with the next day, or the command ends.
NextDay(c) ==
    [c EXCEPT !.pc = IF c.day < LastDay THEN "fetch" ELSE "exit",
              !.day = @ + 1, !.new = 0]

\* Variant: the handler of a failed day does not advance current_day.
SameDay(c) == [c EXCEPT !.pc = "fetch"]

\* The handler prints ERROR and advances the day like a success does.
AfterFailure(c) == NextDay(c)

\* write_batch: the transaction.  A batch without any observation returns
\* before it, and the day is over.
CliWrite(p) ==
    /\ CliAt(p, "write")
    /\ table' = CliUpsert(p)
    /\ Set(p, IF Rows(cli[p].batch) = {}
              THEN NextDay(cli[p])
              ELSE [cli[p] EXCEPT !.pc = "record", !.new = Inserted(p)])
    /\ written' = written \cup
          {[day |-> cli[p].day, at |-> cli[p].at,
            known |-> cli[p].cache, lost |-> cli[p].lost]}
    /\ UNCHANGED <<elsewhere, stations, lastSuccess, commands, claimed>>

\* record_success, and the day's report of the rows inserted.
CliRecord(p) ==
    /\ CliAt(p, "record")
    /\ lastSuccess' = clock
    /\ claimed' = [claimed EXCEPT ![p] = @ + cli[p].new]
    /\ Set(p, NextDay(cli[p]))
    /\ UNCHANGED <<elsewhere, stations, table, commands, written>>

\* An exception of fetch, of the transaction or of record_success: the day
\* prints ERROR, its rows are not counted, and the loop goes on.
CliDayFailed(p) ==
    /\ cli[p].pc \in {"fetch", "write", "record"}
    /\ Set(p, AfterFailure(cli[p]))
    /\ UNCHANGED <<vars, commands, history>>

------------------------------------------------------------------------------
CliStep(p) ==
    \/ CliDiscover(p) \/ CliLoadCaches(p) \/ CliSetupFailed(p)
    \/ \E s \in Station : CliRegisterStation(p, s)
    \/ CliFetch(p) \/ CliWrite(p) \/ CliRecord(p) \/ CliDayFailed(p)

BackfillNext ==
    \/ Next /\ UNCHANGED <<cli, commands, history>>
    \/ \E p \in Cli : \/ Start(p)
                      \/ CliStep(p)
                      \/ Interrupt(p)

BackfillSpec == BackfillInit /\ [][BackfillNext]_allVars

\* A command that runs goes on; whether it is started is the operator's choice.
FairBackfillSpec == BackfillSpec /\ \A p \in Cli : WF_allVars(CliStep(p))

------------------------------------------------------------------------------
\* The closed daily windows leave no gap at midnight: what a day's transaction
\* covered is in the hypertable and stays there, whatever executions of
\* run_source and other commands do: every slot of the day that was published
\* before the day's fetch, of a station and a code the command knew, in the
\* realtime feed or in an archive it could read.
WrittenDaysAreStored ==
    \A d \in written, k \in Key \ Unmapped :
        /\ TimeOf[k] \in d.day * DayLength .. (d.day + 1) * DayLength
        /\ published[k] \in 1..d.at - 1
        /\ StationOf[k] \in d.known
        /\ k \notin d.lost
        => table[k] > 0

\* The rows that the commands reported as new, one by one.
Claims == UNION {{p} \X (1..claimed[p]) : p \in Cli}

\* The consecutive days of a command overlap at midnight, commands are run
\* again and race with each other and with the workers, yet no row is ever
\* reported as new twice: the reports of all commands together never exceed
\* the rows of the table (quickstart, "Re-run": 0 rows persisted).
ReportsCountRowsOnce == Cardinality(Claims) <= Cardinality(Rows(table))

\* An older value replaces a newer one only when the writer, command or worker,
\* fetched the feed before the newer value was committed.
OnlyOverlapLosesUpdates ==
    [][\A k \in Key : table'[k] < table[k] =>
          \/ \E w \in Worker : WriteBatch(w) /\ exec[w].base[k] < table[k]
          \/ \E p \in Cli : CliWrite(p) /\ cli[p].base[k] < table[k]]_allVars

\* A command ends, although each of its days may fail: the loop goes on.
CommandsEnd == \A p \in Cli : [](CliAt(p, "discover") => <>(cli[p].pc \in {"idle", "exit"}))
=============================================================================
