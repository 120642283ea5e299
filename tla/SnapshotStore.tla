---------------------------- MODULE SnapshotStore ----------------------------
(***************************************************************************)
(* The volume on which failed fetches are documented: write_jsonld,        *)
(* read_latest and rotate of SnapshotStore, and the daily Celery task      *)
(* rotate_snapshots, which Celery may deliver twice.  Worker processes     *)
(* write and rotate the same directory without any lock.                   *)
(*                                                                         *)
(* A file is named by the second of the failure.  One directory is the     *)
(* hard case: that of one URL, or of several whose names agree in their    *)
(* first 64 characters once '/' and '.' are '_'.  A document is abstracted *)
(* to who wrote it, whichever URL it was.                                  *)
(***************************************************************************)
EXTENDS Integers, FiniteSets

CONSTANTS
    Process,        \* processes that write snapshots
    Author,         \* what a document is about: the caller whose fetch failed
    Rotation,       \* executions of rotate_snapshots
    MaxAge,         \* max_age_days, in clock instants (seconds)
    WriteTime,      \* bound: how long a write_jsonld takes
    Start,          \* the first instant; files of earlier ones may be there
    MaxClock,       \* bound: the last instant
    MaxFaults       \* bound: writes that fail, processes that die

ASSUME StoreAssumption ==
    /\ MaxAge \in Nat \ {0}
    /\ WriteTime \in 0..MaxAge
    /\ MaxClock \in Nat
    /\ Start \in 0..MaxClock
    /\ MaxFaults \in Nat

VARIABLES
    clock,
    files,      \* files[n]: the file named by second n
    writer,     \* writer[p]: the write_jsonld that process p is in
    rotation,   \* rotation[r]: progress of an execution of rotate
    faults

storeVars == <<clock, files, writer, rotation, faults>>

Name == 0..MaxClock

\* What a file holds: one document; nothing yet, because its writer truncated
\* it; the overlay of two documents of different length; or what an earlier
\* life of the system left.
Content == Author \cup {"empty", "mixed", "earlier"}
NoFile  == [mtime |-> -1, content |-> "empty"]
File    == [mtime: Name, content: Content] \cup {NoFile}

Present == {n \in Name : files[n] # NoFile}

\* name: computed from observed_at.  A writer is "named" until it opens, and so
\* truncates, the file, and "opened" until its text is written.
Silent == [pc |-> "idle", author |-> "nobody", name |-> 0]
Write  == [pc: {"idle", "named", "opened"}, author: Author \cup {"nobody"}, name: Name]

Asleep == [pc |-> "idle", cutoff |-> 0, todo |-> {}, file |-> 0]
Walk   == [pc: {"idle", "walk", "unlink", "done"}, cutoff: -MaxAge..MaxClock,
           todo: SUBSET Name, file: Name]

StoreTypeOK ==
    /\ clock \in Name
    /\ files \in [Name -> File]
    /\ writer \in [Process -> Write]
    /\ rotation \in [Rotation -> Walk]
    /\ faults \in 0..MaxFaults

StoreInit ==
    /\ clock = Start
    /\ \E earlier \in SUBSET (0..Start - 1) :
          files = [n \in Name |-> IF n \in earlier
                                 THEN [mtime |-> n, content |-> "earlier"] ELSE NoFile]
    /\ writer = [p \in Process |-> Silent]
    /\ rotation = [r \in Rotation |-> Asleep]
    /\ faults = 0

\* Time passes, but no write takes longer than WriteTime.
StoreTick ==
    /\ clock < MaxClock
    /\ \A p \in Process : writer[p].pc # "idle" => clock < writer[p].name + WriteTime
    /\ clock' = clock + 1
    /\ UNCHANGED <<files, writer, rotation, faults>>

------------------------------------------------------------------------------
\* Variant: names without seconds.
CoarseName == 2 * (clock \div 2)

\* strftime("%Y-%m-%dT%H:%M:%SZ") of the moment of the failure.
NameNow == clock

\* write_jsonld begins: the name is fixed.
NameSnapshot(p, a) ==
    /\ writer[p].pc = "idle"
    /\ writer' = [writer EXCEPT ![p] = [pc |-> "named", author |-> a, name |-> NameNow]]

\* write_text opens the file, which creates or truncates it.
OpenSnapshot(p) ==
    /\ writer[p].pc = "named"
    /\ files' = [files EXCEPT ![writer[p].name] = [mtime |-> clock, content |-> "empty"]]
    /\ writer' = [writer EXCEPT ![p].pc = "opened"]

\* The text replaces what is there from the start of the file: over a document
\* that another process wrote in the meantime it leaves the rest of a longer
\* one.  A file that was unlinked in the meantime stays away.
Overlay(p) ==
    LET there == files[writer[p].name].content
    IN IF there \in {"empty", writer[p].author} THEN {writer[p].author}
                                               ELSE {writer[p].author, "mixed"}

WriteSnapshot(p) ==
    /\ writer[p].pc = "opened"
    /\ \E content \in Overlay(p) :
          files' = IF writer[p].name \in Present
                   THEN [files EXCEPT ![writer[p].name] =
                            [mtime |-> clock, content |-> content]]
                   ELSE files
    /\ writer' = [writer EXCEPT ![p] = Silent]

\* The volume is full: the file stays as it is.
AbandonSnapshot(p) ==
    /\ writer[p].pc # "idle"
    /\ faults < MaxFaults
    /\ faults' = faults + 1
    /\ writer' = [writer EXCEPT ![p] = Silent]

------------------------------------------------------------------------------
\* Variant: a cutoff that is an instant late.
CutoffOneLate == clock - MaxAge + 1

\* time.time() - max_age_days * 86400.
Cutoff == clock - MaxAge

\* rotate_snapshots: the cutoff, then the files of the tree one by one.  rglob
\* lists lazily; a file it meets that was not there at the start is young.  An
\* execution that finds no file changes nothing.
RotateBegin(r) ==
    /\ rotation[r].pc = "idle"
    /\ Present # {}
    /\ rotation' = [rotation EXCEPT ![r] =
          [pc |-> "walk", cutoff |-> Cutoff, todo |-> Present, file |-> 0]]
    /\ UNCHANGED <<clock, files, writer, faults>>

Walking(r) == rotation[r].pc = "walk"

\* The loop goes on after file n.
Passed(r, n) == [rotation[r] EXCEPT !.pc = "walk", !.todo = @ \ {n}]

\* Variant: the exception of a vanished file ends the loop.
LoopBroken(r, n) == [rotation[r] EXCEPT !.pc = "walk", !.todo = {}]

\* FileNotFoundError: another execution was faster.
Vanished(r, n) == Passed(r, n)

\* stat: a file that is old is about to be unlinked.
RotateStat(r) ==
    /\ Walking(r)
    /\ \E n \in rotation[r].todo :
          rotation' = [rotation EXCEPT ![r] =
             IF n \notin Present THEN Vanished(r, n)
             ELSE IF files[n].mtime < rotation[r].cutoff
                  THEN [@ EXCEPT !.pc = "unlink", !.file = n]
                  ELSE Passed(r, n)]
    /\ UNCHANGED <<clock, files, writer, faults>>

\* unlink, by name.
RotateUnlink(r) ==
    /\ rotation[r].pc = "unlink"
    /\ LET n == rotation[r].file
       IN /\ rotation' = [rotation EXCEPT ![r] =
                IF n \in Present THEN Passed(r, n) ELSE Vanished(r, n)]
          /\ files' = [files EXCEPT ![n] = NoFile]
    /\ UNCHANGED <<clock, writer, faults>>

RotateEnd(r) ==
    /\ Walking(r)
    /\ rotation[r].todo = {}
    /\ rotation' = [rotation EXCEPT ![r] = [Asleep EXCEPT !.pc = "done"]]
    /\ UNCHANGED <<clock, files, writer, faults>>

\* The process of the execution dies.
RotateDies(r) ==
    /\ rotation[r].pc \in {"walk", "unlink"}
    /\ faults < MaxFaults
    /\ faults' = faults + 1
    /\ rotation' = [rotation EXCEPT ![r] = [Asleep EXCEPT !.pc = "done"]]
    /\ UNCHANGED <<clock, files, writer>>

Rotate(r) == RotateBegin(r) \/ RotateStat(r) \/ RotateUnlink(r)
             \/ RotateEnd(r) \/ RotateDies(r)

------------------------------------------------------------------------------
\* Between stat and unlink a file of the same name could be written anew; yet
\* rotation removes no file that was modified within the retention of D-17,
\* counted from the moment of the removal.
RotationKeepsFresh ==
    [][\A n \in Present : files'[n] = NoFile => files[n].mtime < clock - MaxAge]_storeVars

\* An execution of rotate that gets to its end leaves no file behind that was
\* too old when it began, although another execution unlinks files between its
\* listing, stat and unlink.
RotationSweepsAll ==
    [][\A r \in Rotation :
          RotateEnd(r) => \A n \in Present : files[n].mtime >= rotation[r].cutoff]_storeVars
=============================================================================
