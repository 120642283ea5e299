--------------------------- MODULE PoliteFetchProofs ---------------------------
(***************************************************************************)
(* Theorems about PoliteFetch and the SnapshotStore it extends, for any    *)
(* number of processes, callers and rotations and every limit and period.  *)
(***************************************************************************)
EXTENDS PoliteFetch, FiniteSetTheorems, TLAPS

USE StoreAssumption, FetchAssumption

------------------------------------------------------------------------------
(***************************************************************************)
(* The inductive invariant, the part about the volume.  A file is not      *)
(* older than its name says, and a write is over soon; therefore a file    *)
(* that a rotation has found old has no writer any more.                   *)
(***************************************************************************)

Writing(p) == writer[p].pc # "idle"

FilesAreDated == \A n \in Present : n <= files[n].mtime /\ files[n].mtime <= clock

WritesAreYoung ==
    \A p \in Process : Writing(p) =>
        writer[p].name <= clock /\ clock <= writer[p].name + WriteTime

OpenedArePresent ==
    \A p \in Process : writer[p].pc = "opened" => writer[p].name \in Present

\* What an execution of rotate has not passed yet holds all that is old.
RotationsLookBack ==
    \A r \in Rotation : rotation[r].pc \in {"walk", "unlink"} =>
        /\ rotation[r].cutoff <= clock - MaxAge
        /\ \A n \in Present : files[n].mtime < rotation[r].cutoff => n \in rotation[r].todo

UnlinkedAreOld ==
    \A r \in Rotation : rotation[r].pc = "unlink" =>
        /\ rotation[r].file < rotation[r].cutoff
        /\ rotation[r].file \in Present =>
              files[rotation[r].file].mtime < rotation[r].cutoff

(***************************************************************************)
(* The part about the calls: a failed call and the write of its process    *)
(* belong together.                                                        *)
(***************************************************************************)

CallsMatchWrites ==
    /\ \A c \in Caller : call[c].pc = "failed" =>
          /\ Writing(ClientOf[c])
          /\ writer[ClientOf[c]].author = c
          /\ writer[ClientOf[c]].name = call[c].after
    /\ \A p \in Process : Writing(p) =>
          \E c \in Caller : /\ ClientOf[c] = p /\ call[c].pc = "failed"
                            /\ writer[p].author = c /\ writer[p].name = call[c].after

AttemptsAreBounded ==
    \A c \in Caller : /\ call[c].pc = "send" => call[c].attempt < MaxAttempts
                      /\ call[c].pc = "stamped" => call[c].after \in Name

FailuresArePast == \A f \in failures : f.at <= clock

FailedAreListed ==
    \A c \in Caller : call[c].pc = "failed" => Failure(c, call[c].after, FALSE) \in failures

\* Unless another caller failed in the same second, a file that was opened and
\* not written yet is empty or holds an older document of its writer.
OverlaysAreKnown ==
    \A p \in Process :
        (/\ writer[p].pc = "opened"
         /\ \A f \in failures : f.at = writer[p].name => f.by = writer[p].author)
        => files[writer[p].name].content \in {"empty", writer[p].author}

(***************************************************************************)
(* The part about the tokens.                                              *)
(***************************************************************************)

OrderedAreGranted == \A c \in Caller, t \in Name : ordered[c][t] <= granted[c][t]

TokensAreFinite == IsFiniteSet(TokensOf(granted, Caller, 0, MaxClock))

StoreInv == /\ FilesAreDated
            /\ WritesAreYoung
            /\ OpenedArePresent
            /\ RotationsLookBack
            /\ UnlinkedAreOld

CallInv == /\ CallsMatchWrites
           /\ AttemptsAreBounded
           /\ FailuresArePast
           /\ FailedAreListed
           /\ OverlaysAreKnown
           /\ FailuresAreDocumented

TokenInv == OrderedAreGranted /\ TokensAreFinite /\ TokensWithinRate

PoliteInv == PoliteTypeOK /\ StoreInv /\ CallInv /\ TokenInv

------------------------------------------------------------------------------
(***************************************************************************)
(* Type correctness.                                                       *)
(***************************************************************************)

LEMMA StoreTypes ==
    ASSUME StoreTypeOK
    PROVE  /\ clock \in Nat /\ clock \in Name /\ faults \in 0..MaxFaults
           /\ files \in [Name -> File] /\ writer \in [Process -> Write]
           /\ rotation \in [Rotation -> Walk]
           /\ \A p \in Process : /\ writer[p].pc \in {"idle", "named", "opened"}
                                 /\ writer[p].name \in Name /\ writer[p].name \in Nat
           /\ \A n \in Present : /\ n \in Name /\ files[n].mtime \in Name
                                 /\ files[n].mtime \in Nat /\ files[n].content \in Content
           /\ \A r \in Rotation : /\ rotation[r].cutoff \in Int
                                  /\ rotation[r].todo \subseteq Name
                                  /\ rotation[r].file \in Name /\ rotation[r].file \in Nat
<1>1. /\ clock \in Name /\ Name \subseteq Nat /\ faults \in 0..MaxFaults
      /\ files \in [Name -> File] /\ writer \in [Process -> Write]
      /\ rotation \in [Rotation -> Walk]
  BY DEF StoreTypeOK, Name
<1>2. \A p \in Process : writer[p].pc \in {"idle", "named", "opened"}
                         /\ writer[p].name \in Name
  BY <1>1 DEF Write
<1>3. \A r \in Rotation : /\ rotation[r].cutoff \in Int
                          /\ rotation[r].todo \subseteq Name
                          /\ rotation[r].file \in Name
  BY <1>1 DEF Walk
<1>4. \A n \in Present : n \in Name /\ files[n].mtime \in Name /\ files[n].content \in Content
  BY <1>1 DEF Present, File
<1> QED BY <1>1, <1>2, <1>3, <1>4

LEMMA CallTypes ==
    ASSUME PoliteTypeOK, NEW c \in Caller
    PROVE  /\ call[c] \in Call /\ call \in [Caller -> Call]
           /\ call[c].attempt \in 0..MaxAttempts /\ call[c].after \in Nat
           /\ ClientOf[c] \in Process
BY DEF PoliteTypeOK, Call, Caller

LEMMA FailureType ==
    ASSUME NEW c \in Caller, NEW t \in Name, NEW b \in BOOLEAN
    PROVE  Failure(c, t, b) \in [by: Caller, at: Name, written: BOOLEAN]
BY DEF Failure

LEMMA NoCallType == NoCall \in Call
BY DEF NoCall, Call

LEMMA SilentType == Silent \in Write
BY DEF Silent, Write, Name

LEMMA AsleepType == Asleep \in Walk /\ [Asleep EXCEPT !.pc = "done"] \in Walk
BY DEF Asleep, Walk, Name

\* A write in hand is that of a failed call of the process.
LEMMA AuthorType ==
    ASSUME PoliteTypeOK, CallsMatchWrites, NEW p \in Process, Writing(p)
    PROVE  writer[p].author \in Author
BY DEF CallsMatchWrites, Caller

\* The steps that change nothing on the volume.
FetchStep(c) == \/ Begin(c) \/ LimiterReady(c) \/ LimiterFailed(c)
                \/ StampToken(c) \/ AcquireToken(c) \/ TokenRefused(c)
                \/ Send(c) \/ Answered(c) \/ Retry(c)

LEMMA FetchStepType ==
    ASSUME PoliteTypeOK, AttemptsAreBounded, NEW c \in Caller, FetchStep(c)
    PROVE  PoliteTypeOK' /\ UNCHANGED <<storeVars, failures>>
<1>1. UNCHANGED storeVars /\ UNCHANGED failures
  BY DEF FetchStep, Begin, LimiterReady, LimiterFailed, StampToken, AcquireToken, TokenRefused,
         Send, Answered, Retry
<1>2. StoreTypeOK'
  BY <1>1 DEF PoliteTypeOK, StoreTypeOK, storeVars
<1>3. /\ call \in [Caller -> Call] /\ call[c].attempt \in 0..MaxAttempts
      /\ clock \in Name /\ NoCall \in Call /\ ClientOf[c] \in Process
      /\ limiter \in [Process -> BOOLEAN] /\ calls \in 0..MaxCalls
      /\ granted \in Tokens /\ ordered \in Tokens /\ sent \in [Name -> Nat]
  BY CallTypes, NoCallType DEF PoliteTypeOK, StoreTypeOK
<1>4. ASSUME NEW label \in {"init", "acquire"}, Goto(c, label) PROVE call' \in [Caller -> Call]
  BY <1>3, <1>4 DEF Goto, Call
<1>5. CASE Begin(c)
  <2>1. calls' \in 0..MaxCalls BY <1>3, <1>5 DEF Begin
  <2>2. call' \in [Caller -> Call] BY <1>4, <1>5 DEF Begin
  <2> QED BY <1>2, <1>5, <2>1, <2>2 DEF Begin, PoliteTypeOK, bucketVars
<1>6. CASE LimiterReady(c)
  <2>1. call' \in [Caller -> Call] BY <1>4, <1>6 DEF LimiterReady
  <2> QED BY <1>2, <1>3, <1>6, <2>1 DEF LimiterReady, PoliteTypeOK, bucketVars
<1>7. CASE LimiterFailed(c) \/ Answered(c)
  <2>1. call' \in [Caller -> Call] BY <1>3, <1>7 DEF LimiterFailed, Answered
  <2> QED BY <1>2, <1>7, <2>1 DEF LimiterFailed, Answered, PoliteTypeOK, bucketVars
<1>8. CASE AcquireToken(c)
  <2>1. [pc |-> "send", attempt |-> 0, after |-> clock] \in Call
    BY <1>3 DEF Call, Name
  <2>2. call' \in [Caller -> Call] BY <1>3, <1>8, <2>1 DEF AcquireToken
  <2>3. call[c].after \in Name
    BY <1>8 DEF AcquireToken, Running, AttemptsAreBounded
  <2>4. \A tokens \in Tokens : Given(tokens, c, call[c].after) \in Tokens
    BY <2>3 DEF Given, Tokens
  <2>5. granted' \in Tokens /\ ordered' \in Tokens BY <1>3, <1>8, <2>4 DEF AcquireToken
  <2> QED BY <1>2, <1>8, <2>2, <2>5 DEF AcquireToken, PoliteTypeOK
<1>9. CASE Send(c)
  <2>1. call[c].attempt + 1 \in 0..MaxAttempts
    BY <1>3, <1>9 DEF Send, Running, AttemptsAreBounded
  <2>2. call' = [call EXCEPT ![c].pc = "await", ![c].attempt = call[c].attempt + 1]
    BY <1>9 DEF Send
  <2>3. call' \in [Caller -> Call] BY <1>3, <2>1, <2>2 DEF Call
  <2>4. sent' \in [Name -> Nat] BY <1>3, <1>9 DEF Send
  <2> QED BY <1>2, <1>9, <2>3, <2>4 DEF Send, PoliteTypeOK, bucketVars
<1>10. CASE Retry(c)
  <2>1. clock + Backoff \in 0..MaxClock + Backoff BY <1>3 DEF Name
  <2>2. call' \in [Caller -> Call] BY <1>3, <1>10, <2>1 DEF Retry, Call
  <2> QED BY <1>2, <1>10, <2>2 DEF Retry, PoliteTypeOK, bucketVars
<1>11. CASE StampToken(c)
  <2>1. clock \in 0..MaxClock + Backoff BY <1>3 DEF Name
  <2>2. call' \in [Caller -> Call] BY <1>3, <1>11, <2>1 DEF StampToken, Call
  <2> QED BY <1>2, <1>11, <2>2 DEF StampToken, PoliteTypeOK, bucketVars
<1>12. CASE TokenRefused(c)
  <2>1. call' \in [Caller -> Call] BY <1>4, <1>12 DEF TokenRefused
  <2> QED BY <1>2, <1>12, <2>1 DEF TokenRefused, PoliteTypeOK, bucketVars
<1> QED BY <1>1, <1>5, <1>6, <1>7, <1>8, <1>9, <1>10, <1>11, <1>12 DEF FetchStep

------------------------------------------------------------------------------
(***************************************************************************)
(* Rotation: what it takes away is old, and has no writer.                 *)
(***************************************************************************)

OnlyOldGoes ==
    \A n \in Name :
        \/ files'[n] = files[n]
        \/ /\ files'[n] = NoFile /\ n < clock - MaxAge
           /\ n \in Present => files[n].mtime < clock - MaxAge

\* The names that are written lie within the retention.
LEMMA WritersAreRecent ==
    ASSUME StoreTypeOK, WritesAreYoung, NEW p \in Process, Writing(p)
    PROVE  writer[p].name \in Name /\ ~(writer[p].name < clock - MaxAge)
BY StoreTypes DEF WritesAreYoung

LEMMA RotateCase ==
    ASSUME StoreTypeOK, StoreInv, NEW r \in Rotation, NEW w \in Walk,
           rotation' = [rotation EXCEPT ![r] = w], UNCHANGED <<clock, writer>>,
           files' \in [Name -> File], faults' \in 0..MaxFaults, OnlyOldGoes,
           w.pc \in {"walk", "unlink"} =>
              /\ w.cutoff <= clock - MaxAge
              /\ \A n \in Present : files'[n] # NoFile /\ files[n].mtime < w.cutoff
                                    => n \in w.todo,
           w.pc = "unlink" =>
              /\ w.file < w.cutoff
              /\ w.file \in Present => files[w.file].mtime < w.cutoff
    PROVE  StoreTypeOK' /\ StoreInv'
<1> USE DEF StoreInv
<1>1. StoreTypeOK' BY StoreTypes DEF StoreTypeOK
<1>2. /\ rotation'[r] = w /\ \A q \in Rotation \ {r} : rotation'[q] = rotation[q]
      /\ clock' = clock /\ writer' = writer
  BY StoreTypes
<1>3. \A n \in Present' : n \in Present /\ files'[n] = files[n]
  BY DEF Present, OnlyOldGoes
<1>4. FilesAreDated' BY <1>2, <1>3 DEF FilesAreDated
<1>5. WritesAreYoung' BY <1>2 DEF WritesAreYoung, Writing
<1>6. OpenedArePresent'
  <2> SUFFICES ASSUME NEW p \in Process, writer[p].pc = "opened"
               PROVE  writer[p].name \in Present'
    BY <1>2 DEF OpenedArePresent
  <2>1. writer[p].name \in Present BY DEF OpenedArePresent
  <2>2. writer[p].name \in Name /\ ~(writer[p].name < clock - MaxAge)
    BY WritersAreRecent DEF Writing
  <2> QED BY <2>1, <2>2 DEF OnlyOldGoes, Present
<1>7. RotationsLookBack' BY <1>2, <1>3 DEF RotationsLookBack, Present
<1>8. UnlinkedAreOld' BY <1>2, <1>3 DEF UnlinkedAreOld
<1> QED BY <1>1, <1>4, <1>5, <1>6, <1>7, <1>8

LEMMA RotatePreserves ==
    ASSUME StoreTypeOK, StoreInv, NEW r \in Rotation, Rotate(r)
    PROVE  /\ StoreTypeOK' /\ StoreInv'
           /\ UNCHANGED <<clock, writer>> /\ OnlyOldGoes
<1> USE DEF StoreInv
<1>1. /\ clock \in Nat /\ clock \in Name /\ faults \in 0..MaxFaults
      /\ files \in [Name -> File] /\ rotation \in [Rotation -> Walk]
      /\ rotation[r].todo \subseteq Name /\ rotation[r].cutoff \in Int
      /\ rotation[r].file \in Nat /\ rotation[r] \in Walk
      /\ Present \subseteq Name
      /\ \A n \in Present : files[n].mtime \in Nat /\ n \in Nat /\ n <= files[n].mtime
  <2>1. Present \subseteq Name BY DEF Present
  <2> QED BY StoreTypes, <2>1 DEF FilesAreDated, Name
<1>2. UNCHANGED <<clock, writer>>
  BY DEF Rotate, RotateBegin, RotateStat, RotateUnlink, RotateEnd, RotateDies
<1>3. ASSUME files' = files
      PROVE  OnlyOldGoes /\ files' \in [Name -> File] /\ \A n \in Present : files'[n] # NoFile
  BY <1>1, <1>3 DEF OnlyOldGoes, Present
<1>4. CASE RotateBegin(r)
  <2> DEFINE b == [pc |-> "walk", cutoff |-> Cutoff, todo |-> Present, file |-> 0]
  <2>1. Cutoff \in -MaxAge..MaxClock /\ Cutoff = clock - MaxAge /\ 0 \in Name
    BY <1>1 DEF Cutoff, Name
  <2>2. b \in Walk /\ b.pc = "walk" /\ b.cutoff = clock - MaxAge /\ b.todo = Present
    BY <1>1, <2>1 DEF Walk
  <2>3. rotation' = [rotation EXCEPT ![r] = b] /\ files' = files /\ faults' = faults
    BY <1>4 DEF RotateBegin
  <2> HIDE DEF b
  <2>4. PICK w \in Walk : w = b BY <2>2
  <2>5. /\ rotation' = [rotation EXCEPT ![r] = w] /\ w.pc # "unlink"
        /\ w.cutoff <= clock - MaxAge /\ \A n \in Present : n \in w.todo
    BY <1>1, <2>2, <2>3, <2>4
  <2>6. files' \in [Name -> File] /\ faults' \in 0..MaxFaults /\ OnlyOldGoes
    BY <1>1, <1>3, <2>3
  <2> QED BY <1>2, <2>5, <2>6, RotateCase
<1>5. CASE RotateStat(r)
  <2>1. PICK n \in rotation[r].todo :
           rotation' = [rotation EXCEPT ![r] =
              IF n \notin Present THEN Vanished(r, n)
              ELSE IF files[n].mtime < rotation[r].cutoff
                   THEN [rotation[r] EXCEPT !.pc = "unlink", !.file = n]
                   ELSE Passed(r, n)]
    BY <1>5 DEF RotateStat
  <2>2. /\ files' = files /\ faults' = faults /\ rotation[r].pc = "walk" /\ n \in Name
    BY <1>1, <1>5 DEF RotateStat, Walking
  <2>3. /\ rotation[r].cutoff <= clock - MaxAge
        /\ \A m \in Present : files[m].mtime < rotation[r].cutoff => m \in rotation[r].todo
    BY <2>2 DEF RotationsLookBack
  <2>4. CASE n \in Present /\ files[n].mtime < rotation[r].cutoff
    <3> DEFINE b == [rotation[r] EXCEPT !.pc = "unlink", !.file = n]
    <3>1. /\ b \in Walk /\ b.pc = "unlink" /\ b.cutoff = rotation[r].cutoff
          /\ b.todo = rotation[r].todo /\ b.file = n
      BY <1>1, <2>2 DEF Walk
    <3>2. rotation' = [rotation EXCEPT ![r] = b] BY <2>1, <2>4
    <3>3. n < rotation[r].cutoff BY <1>1, <2>4
    <3> HIDE DEF b
    <3>4. PICK w \in Walk : w = b BY <3>1
    <3> QED BY <1>1, <1>2, <1>3, <2>2, <2>3, <2>4, <3>1, <3>2, <3>3, <3>4, RotateCase
  <2>5. CASE ~(n \in Present /\ files[n].mtime < rotation[r].cutoff)
    <3> DEFINE b == Passed(r, n)
    <3>1. /\ b \in Walk /\ b.pc = "walk" /\ b.cutoff = rotation[r].cutoff
          /\ b.todo = rotation[r].todo \ {n}
      BY <1>1 DEF Walk, Passed
    <3>2. rotation' = [rotation EXCEPT ![r] = b] BY <2>1, <2>5 DEF Vanished
    <3> HIDE DEF b
    <3>4. PICK w \in Walk : w = b BY <3>1
    <3> QED BY <1>1, <1>2, <1>3, <2>2, <2>3, <2>5, <3>1, <3>2, <3>4, RotateCase
  <2> QED BY <2>4, <2>5
<1>6. CASE RotateUnlink(r)
  <2> DEFINE n == rotation[r].file
             b == Passed(r, n)
  <2>1. /\ rotation[r].pc = "unlink" /\ n \in Name
        /\ rotation' = [rotation EXCEPT ![r] = b]
        /\ files' = [files EXCEPT ![n] = NoFile] /\ faults' = faults
    BY <1>6, StoreTypes DEF RotateUnlink, Vanished
  <2>2. /\ b \in Walk /\ b.pc = "walk" /\ b.cutoff = rotation[r].cutoff
        /\ b.todo = rotation[r].todo \ {n}
    BY <1>1 DEF Walk, Passed
  <2> HIDE DEF b, n
  <2>3. /\ rotation[r].cutoff <= clock - MaxAge
        /\ \A m \in Present : files[m].mtime < rotation[r].cutoff => m \in rotation[r].todo
        /\ n < rotation[r].cutoff
        /\ n \in Present => files[n].mtime < rotation[r].cutoff
    BY <2>1 DEF RotationsLookBack, UnlinkedAreOld, n
  <2>4. /\ files'[n] = NoFile /\ \A m \in Name \ {n} : files'[m] = files[m]
        /\ files' \in [Name -> File]
    BY <1>1, <2>1 DEF File
  <2>5. OnlyOldGoes
    <3>1. n < clock - MaxAge /\ (n \in Present => files[n].mtime < clock - MaxAge)
      BY <1>1, <2>1, <2>3 DEF Name
    <3> QED BY <2>4, <3>1 DEF OnlyOldGoes
  <2>6. PICK w \in Walk : w = b BY <2>2
  <2> QED BY <1>1, <1>2, <2>1, <2>2, <2>3, <2>4, <2>5, <2>6, RotateCase
<1>7. CASE RotateEnd(r) \/ RotateDies(r)
  <2> DEFINE b == [Asleep EXCEPT !.pc = "done"]
  <2>1. b \in Walk /\ b.pc = "done" BY AsleepType DEF Asleep
  <2>2. /\ rotation' = [rotation EXCEPT ![r] = b] /\ files' = files
        /\ faults' \in 0..MaxFaults
    BY <1>1, <1>7 DEF RotateEnd, RotateDies
  <2> HIDE DEF b
  <2>3. PICK w \in Walk : w = b BY <2>1
  <2> QED BY <1>1, <1>2, <1>3, <2>1, <2>2, <2>3, RotateCase
<1> QED BY <1>4, <1>5, <1>6, <1>7 DEF Rotate

------------------------------------------------------------------------------
(***************************************************************************)
(* Writing: a step of a writer touches no file but the one that it names,  *)
(* whose name is too young for any rotation.                               *)
(***************************************************************************)

LEMMA WriteCase ==
    ASSUME StoreTypeOK, StoreInv, NEW p \in Process, NEW w \in Write,
           writer' = [writer EXCEPT ![p] = w], UNCHANGED <<clock, rotation>>,
           files' \in [Name -> File], faults' \in 0..MaxFaults,
           \A n \in Name : \/ files'[n] = files[n]
                           \/ Writing(p) /\ n = writer[p].name /\ files'[n].mtime = clock,
           w.pc # "idle" => w.name <= clock /\ clock <= w.name + WriteTime,
           w.pc = "opened" => files'[w.name] # NoFile
    PROVE  StoreTypeOK' /\ StoreInv'
<1> USE DEF StoreInv
<1>1. StoreTypeOK' BY StoreTypes DEF StoreTypeOK
<1>2. /\ writer'[p] = w /\ \A q \in Process \ {p} : writer'[q] = writer[q]
      /\ clock' = clock /\ rotation' = rotation
      /\ clock \in Nat /\ w.name \in Name
      /\ \A q \in Process : writer[q].name \in Name
      /\ \A r \in Rotation : rotation[r].cutoff \in Int /\ rotation[r].file \in Nat
  BY StoreTypes DEF Write
<1>3. Present \subseteq Present'
  BY <1>2 DEF Present, NoFile
<1>4. \A n \in Present' : /\ n \in Name /\ n \in Nat
                          /\ \/ n \in Present /\ files'[n] = files[n]
                             \/ Writing(p) /\ n = writer[p].name /\ files'[n].mtime = clock
  BY DEF Present, Name
<1>5. FilesAreDated'
  BY <1>2, <1>4 DEF FilesAreDated, WritesAreYoung
<1>6. WritesAreYoung' BY <1>2 DEF WritesAreYoung, Writing
<1>7. OpenedArePresent'
  <2> SUFFICES ASSUME NEW q \in Process, writer'[q].pc = "opened"
               PROVE  writer'[q].name \in Present'
    BY DEF OpenedArePresent
  <2>1. CASE q = p BY <1>2, <2>1 DEF Present
  <2>2. CASE q # p BY <1>2, <1>3, <2>2 DEF OpenedArePresent
  <2> QED BY <2>1, <2>2
<1>8. RotationsLookBack'
  <2> SUFFICES ASSUME NEW r \in Rotation, rotation[r].pc \in {"walk", "unlink"}
               PROVE  /\ rotation[r].cutoff <= clock - MaxAge
                      /\ \A n \in Present' : files'[n].mtime < rotation[r].cutoff
                                                => n \in rotation[r].todo
    BY <1>2 DEF RotationsLookBack
  <2>1. /\ rotation[r].cutoff <= clock - MaxAge
        /\ \A n \in Present : files[n].mtime < rotation[r].cutoff => n \in rotation[r].todo
    BY DEF RotationsLookBack
  <2>2. ~(clock < rotation[r].cutoff) BY <1>2, <2>1
  <2> QED BY <1>4, <2>1, <2>2
<1>9. UnlinkedAreOld'
  <2> SUFFICES ASSUME NEW r \in Rotation, rotation[r].pc = "unlink"
               PROVE  /\ rotation[r].file < rotation[r].cutoff
                      /\ rotation[r].file \in Present' =>
                            files'[rotation[r].file].mtime < rotation[r].cutoff
    BY <1>2 DEF UnlinkedAreOld
  <2>1. /\ rotation[r].file < rotation[r].cutoff
        /\ rotation[r].cutoff <= clock - MaxAge
        /\ rotation[r].file \in Present =>
              files[rotation[r].file].mtime < rotation[r].cutoff
    BY DEF UnlinkedAreOld, RotationsLookBack
  <2>2. rotation[r].file < clock - MaxAge BY <1>2, <2>1
  <2>3. Writing(p) => rotation[r].file # writer[p].name BY <2>2, WritersAreRecent
  <2> QED BY <1>4, <2>1, <2>3
<1> QED BY <1>1, <1>5, <1>6, <1>7, <1>8, <1>9

\* A failed call creates or truncates its file.
LEMMA OpenCase ==
    ASSUME PoliteTypeOK, StoreInv, CallsMatchWrites, NEW c \in Caller, Open(c)
    PROVE  /\ StoreTypeOK' /\ StoreInv'
           /\ files'[call[c].after].content = "empty" /\ files'[call[c].after] # NoFile
           /\ \A n \in Name \ {call[c].after} : files'[n] = files[n]
<1> DEFINE p == ClientOf[c]
           b == [writer[p] EXCEPT !.pc = "opened"]
           f == [mtime |-> clock, content |-> "empty"]
<1>1. /\ p \in Process /\ writer[p].pc = "named" /\ writer[p].name = call[c].after
      /\ files' = [files EXCEPT ![writer[p].name] = f]
      /\ writer' = [writer EXCEPT ![p] = b] /\ UNCHANGED <<clock, rotation>>
      /\ faults' = faults
  BY CallTypes DEF Open, OpenSnapshot, CallsMatchWrites
<1>2. /\ writer[p] \in Write /\ writer[p].name \in Name /\ files \in [Name -> File]
      /\ faults \in 0..MaxFaults /\ clock \in Name /\ clock \in Nat /\ StoreTypeOK
  BY <1>1, StoreTypes DEF PoliteTypeOK
<1>3. b \in Write /\ b.pc = "opened" /\ b.name = writer[p].name
  BY <1>2 DEF Write
<1>4. f \in File /\ f.mtime = clock /\ f.content = "empty" /\ f # NoFile
  BY <1>2 DEF File, Content, NoFile
<1> HIDE DEF p, b, f
<1>5. /\ files'[writer[p].name] = f /\ files' \in [Name -> File]
      /\ \A n \in Name \ {writer[p].name} : files'[n] = files[n]
  BY <1>1, <1>2, <1>4
<1>6. writer[p].name <= clock /\ clock <= writer[p].name + WriteTime /\ Writing(p)
  BY <1>1 DEF StoreInv, WritesAreYoung, Writing
<1>7. PICK w \in Write : w = b BY <1>3
<1>8. \A n \in Name : \/ files'[n] = files[n]
                      \/ Writing(p) /\ n = writer[p].name /\ files'[n].mtime = clock
  BY <1>4, <1>5, <1>6
<1>9. /\ writer' = [writer EXCEPT ![p] = w] /\ faults' \in 0..MaxFaults
      /\ w.name <= clock /\ clock <= w.name + WriteTime /\ files'[w.name] # NoFile
  BY <1>1, <1>2, <1>3, <1>4, <1>5, <1>6, <1>7
<1>10. StoreTypeOK' /\ StoreInv'
  BY <1>1, <1>2, <1>5, <1>8, <1>9, WriteCase
<1> QED BY <1>1, <1>4, <1>5, <1>10

\* A failed call writes its file; unless another call failed in the same second,
\* what it leaves is its own document.
LEMMA RaiseCase ==
    ASSUME PoliteTypeOK, StoreInv, CallsMatchWrites, OverlaysAreKnown, NEW c \in Caller, Raise(c)
    PROVE  /\ StoreTypeOK' /\ StoreInv'
           /\ files'[call[c].after] # NoFile
           /\ \A n \in Name \ {call[c].after} : files'[n] = files[n]
           /\ (\A g \in failures : g.at = call[c].after => g.by = c)
              => files'[call[c].after].content = c
<1> DEFINE p == ClientOf[c]
           n == writer[p].name
<1>1. /\ p \in Process /\ writer[p].pc = "opened" /\ writer[p].name = call[c].after
      /\ writer[p].author = c
      /\ writer' = [writer EXCEPT ![p] = Silent] /\ UNCHANGED <<clock, rotation>>
      /\ faults' = faults /\ WriteSnapshot(p)
  BY CallTypes DEF Raise, WriteSnapshot, CallsMatchWrites
<1>2. /\ n \in Name /\ files \in [Name -> File] /\ n \in Present
      /\ faults \in 0..MaxFaults /\ clock \in Name /\ clock \in Nat /\ StoreTypeOK
  BY <1>1, StoreTypes DEF PoliteTypeOK, StoreInv, OpenedArePresent
<1>3. PICK content \in Overlay(p) :
         files' = [files EXCEPT ![n] = [mtime |-> clock, content |-> content]]
  BY <1>1, <1>2 DEF WriteSnapshot
<1> DEFINE f == [mtime |-> clock, content |-> content]
<1>4. content \in {c, "mixed"} BY <1>1 DEF Overlay
<1>5. f \in File /\ f.mtime = clock /\ f.content = content /\ f # NoFile
  BY <1>2, <1>4 DEF File, Content, NoFile, Caller
<1>6. files' = [files EXCEPT ![n] = f] BY <1>3
<1>7. (\A g \in failures : g.at = call[c].after => g.by = c) => content = c
  <2> SUFFICES ASSUME \A g \in failures : g.at = call[c].after => g.by = c
               PROVE  content = c
    OBVIOUS
  <2>1. files[n].content \in {"empty", c} BY <1>1 DEF OverlaysAreKnown
  <2> QED BY <1>1, <2>1 DEF Overlay
<1> HIDE DEF p, n, f
<1>8. /\ files'[n] = f /\ files' \in [Name -> File]
      /\ \A m \in Name \ {n} : files'[m] = files[m]
  BY <1>2, <1>5, <1>6
<1>9. n = call[c].after /\ n = writer[p].name /\ Writing(p) BY <1>1 DEF n, Writing
<1>10. PICK w \in Write : w = Silent BY SilentType
<1>11. /\ writer' = [writer EXCEPT ![p] = w] /\ faults' \in 0..MaxFaults
       /\ w.pc = "idle"
  BY <1>1, <1>2, <1>10 DEF Silent
<1>12. \A m \in Name : \/ files'[m] = files[m]
                       \/ Writing(p) /\ m = writer[p].name /\ files'[m].mtime = clock
  BY <1>5, <1>8, <1>9
<1>13. StoreTypeOK' /\ StoreInv'
  BY <1>1, <1>2, <1>8, <1>11, <1>12, WriteCase
<1> QED BY <1>5, <1>7, <1>8, <1>9, <1>13

\* The steps that change the writer of a process and no file.
LEMMA WriterCase ==
    ASSUME StoreTypeOK, StoreInv, NEW p \in Process, NEW w \in Write,
           writer' = [writer EXCEPT ![p] = w], UNCHANGED <<clock, rotation>>,
           files' = files, faults' \in 0..MaxFaults,
           w.pc \in {"idle", "named"}, w.pc = "named" => w.name = clock
    PROVE  StoreTypeOK' /\ StoreInv'
<1>1. clock \in Nat /\ files \in [Name -> File] BY StoreTypes
<1>2. w.pc # "idle" => w.name <= clock /\ clock <= w.name + WriteTime
  BY <1>1
<1>3. w.pc # "opened" /\ files' \in [Name -> File]
      /\ \A n \in Name : files'[n] = files[n]
  BY <1>1
<1> QED BY <1>2, <1>3, WriteCase

LEMMA FailCase ==
    ASSUME PoliteTypeOK, StoreInv, NEW c \in Caller, Fail(c)
    PROVE  StoreTypeOK' /\ StoreInv'
<1> DEFINE p == ClientOf[c]
           b == [pc |-> "named", author |-> c, name |-> NameNow]
<1>1. /\ p \in Process /\ writer' = [writer EXCEPT ![p] = b]
      /\ UNCHANGED <<clock, rotation>> /\ files' = files /\ faults' = faults
  BY CallTypes DEF Fail, NameSnapshot
<1>2. faults \in 0..MaxFaults /\ clock \in Name /\ StoreTypeOK
  BY StoreTypes DEF PoliteTypeOK
<1>3. b \in Write /\ b.pc = "named" /\ b.name = clock
  BY <1>2 DEF Write, NameNow, Caller
<1> HIDE DEF p, b
<1>4. PICK w \in Write : w = b BY <1>3
<1>5. /\ writer' = [writer EXCEPT ![p] = w] /\ faults' \in 0..MaxFaults
      /\ w.pc = "named" /\ w.name = clock
  BY <1>1, <1>2, <1>3, <1>4
<1> QED BY <1>1, <1>2, <1>5, WriterCase

LEMMA SilenceCase ==
    ASSUME StoreTypeOK, StoreInv, NEW p \in Process, writer' = [writer EXCEPT ![p] = Silent],
           UNCHANGED <<clock, rotation>>, files' = files,
           faults < MaxFaults, faults' = faults + 1
    PROVE  StoreTypeOK' /\ StoreInv'
<1>1. faults' \in 0..MaxFaults BY StoreTypes
<1>2. PICK w \in Write : w = Silent BY SilentType
<1>3. writer' = [writer EXCEPT ![p] = w] /\ w.pc = "idle" BY <1>2 DEF Silent
<1> QED BY <1>1, <1>3, WriterCase

------------------------------------------------------------------------------
(***************************************************************************)
(* Calls and their documents.                                              *)
(***************************************************************************)

\* A step that leaves the calls alone, and no file within the retention.
LEMMA AsideKeepsCalls ==
    ASSUME PoliteTypeOK, WritesAreYoung, CallInv,
           UNCHANGED <<writer, call, failures>>, clock' \in Nat, clock <= clock',
           OnlyOldGoes
    PROVE  CallInv'
<1> USE DEF CallInv
<1>1. /\ writer' = writer /\ call' = call /\ failures' = failures
      /\ clock \in Nat /\ failures \subseteq [by: Caller, at: Name, written: BOOLEAN]
      /\ StoreTypeOK /\ \A f \in failures : f.at \in Name /\ f.at \in Nat
  BY StoreTypes DEF PoliteTypeOK, Name
<1>2. CallsMatchWrites' BY <1>1 DEF CallsMatchWrites, Writing
<1>3. AttemptsAreBounded' BY <1>1 DEF AttemptsAreBounded
<1>4. FailuresArePast' BY <1>1 DEF FailuresArePast
<1>5. FailedAreListed' BY <1>1 DEF FailedAreListed
<1>6. OverlaysAreKnown'
  <2> SUFFICES ASSUME NEW p \in Process, writer[p].pc = "opened",
                      \A f \in failures : f.at = writer[p].name => f.by = writer[p].author
               PROVE  files'[writer[p].name].content \in {"empty", writer[p].author}
    BY <1>1 DEF OverlaysAreKnown
  <2>1. writer[p].name \in Name /\ ~(writer[p].name < clock - MaxAge)
    BY <1>1, WritersAreRecent DEF Writing
  <2>2. files'[writer[p].name] = files[writer[p].name] BY <2>1 DEF OnlyOldGoes
  <2>3. files[writer[p].name].content \in {"empty", writer[p].author}
    BY DEF OverlaysAreKnown
  <2> QED BY <2>2, <2>3
<1>7. FailuresAreDocumented'
  <2> SUFFICES ASSUME NEW f \in failures, f.written, clock' <= f.at + MaxAge
               PROVE  /\ files'[f.at] # NoFile
                      /\ (\A g \in failures \ {f} : g.at # f.at)
                         => files'[f.at].content = f.by
    BY <1>1 DEF FailuresAreDocumented
  <2>1. clock <= f.at + MaxAge /\ ~(f.at < clock - MaxAge) BY <1>1
  <2>2. files'[f.at] = files[f.at] BY <1>1, <2>1 DEF OnlyOldGoes
  <2>3. /\ files[f.at] # NoFile
        /\ (\A g \in failures \ {f} : g.at # f.at) => files[f.at].content = f.by
    BY <2>1 DEF FailuresAreDocumented
  <2> QED BY <2>2, <2>3
<1> QED BY <1>2, <1>3, <1>4, <1>5, <1>6, <1>7

LEMMA FetchStepKeepsCalls ==
    ASSUME PoliteTypeOK, CallInv, NEW c \in Caller, FetchStep(c)
    PROVE  CallInv'
<1> USE DEF CallInv
<1>1. UNCHANGED <<storeVars, failures>> BY FetchStepType
<1>2. clock' = clock /\ files' = files /\ writer' = writer /\ failures' = failures
  BY <1>1 DEF storeVars
<1>3. /\ call[c].pc # "failed" /\ call'[c].pc # "failed"
      /\ \A d \in Caller \ {c} : call'[d] = call[d]
      /\ call'[c].pc = "send" => call'[c].attempt < MaxAttempts
      /\ call'[c].pc = "stamped" => call'[c].after \in Name
  <2>1. call \in [Caller -> Call] /\ call[c] \in Call /\ call[c].attempt \in Nat
    BY CallTypes
  <2>2. CASE Begin(c) \/ LimiterReady(c) \/ TokenRefused(c)
    BY <2>1, <2>2 DEF Begin, LimiterReady, TokenRefused, Running, Goto, Call
  <2>3. CASE LimiterFailed(c) \/ Answered(c)
    BY <2>1, <2>3 DEF LimiterFailed, Answered, Running, NoCall
  <2>4. CASE AcquireToken(c)
    BY <2>1, <2>4 DEF AcquireToken, Running
  <2>5. CASE Send(c)
    BY <2>1, <2>5 DEF Send, Running, Call
  <2>6. CASE Retry(c)
    BY <2>1, <2>6 DEF Retry, Running, Call
  <2>7. CASE StampToken(c)
    <3>1. clock \in Name BY StoreTypes DEF PoliteTypeOK
    <3> QED BY <2>1, <2>7, <3>1 DEF StampToken, Running, Call
  <2> QED BY <2>2, <2>3, <2>4, <2>5, <2>6, <2>7 DEF FetchStep
<1>4. CallsMatchWrites' BY <1>2, <1>3 DEF CallsMatchWrites, Writing
<1>5. AttemptsAreBounded' BY <1>3 DEF AttemptsAreBounded
<1>6. FailuresArePast' BY <1>2 DEF FailuresArePast
<1>7. FailedAreListed' BY <1>2, <1>3 DEF FailedAreListed
<1>8. OverlaysAreKnown' BY <1>2 DEF OverlaysAreKnown
<1>9. FailuresAreDocumented' BY <1>2 DEF FailuresAreDocumented
<1> QED BY <1>4, <1>5, <1>6, <1>7, <1>8, <1>9

LEMMA FailKeepsCalls ==
    ASSUME PoliteTypeOK, CallInv, NEW c \in Caller, Fail(c)
    PROVE  CallInv'
<1> USE DEF CallInv
<1> DEFINE p == ClientOf[c]
           f == Failure(c, clock, FALSE)
<1>1. /\ clock' = clock /\ files' = files /\ failures' = failures \cup {f}
      /\ call \in [Caller -> Call] /\ writer \in [Process -> Write]
      /\ clock \in Nat /\ p \in Process
      /\ ~Writing(p)
      /\ call' = [call EXCEPT ![c].pc = "failed", ![c].after = clock]
      /\ writer' = [writer EXCEPT ![p] = [pc |-> "named", author |-> c, name |-> clock]]
  BY StoreTypes, CallTypes DEF PoliteTypeOK, Fail, NameSnapshot, NameNow, Writing
<1>2. /\ call'[c].pc = "failed" /\ call'[c].after = clock
      /\ \A d \in Caller \ {c} : call'[d] = call[d]
  BY <1>1 DEF Call
<1>3. /\ writer'[p].pc = "named" /\ writer'[p].author = c /\ writer'[p].name = clock
      /\ \A q \in Process \ {p} : writer'[q] = writer[q]
  BY <1>1
<1>4. f.by = c /\ f.at = clock /\ ~f.written BY DEF Failure
<1> HIDE DEF p, f
<1>5. p = ClientOf[c] /\ f = Failure(c, clock, FALSE) BY DEF p, f
<1>6. \A d \in Caller \ {c} : call[d].pc = "failed" => ClientOf[d] # p
  BY <1>1 DEF CallsMatchWrites
<1>7. CallsMatchWrites'
  BY <1>2, <1>3, <1>5, <1>6, CallTypes DEF CallsMatchWrites, Writing
<1>8. AttemptsAreBounded' BY <1>2 DEF AttemptsAreBounded
<1>9. FailuresArePast' BY <1>1, <1>4 DEF FailuresArePast
<1>10. FailedAreListed'
  <2> SUFFICES ASSUME NEW d \in Caller, call'[d].pc = "failed"
               PROVE  Failure(d, call'[d].after, FALSE) \in failures'
    BY DEF FailedAreListed
  <2>1. CASE d = c BY <1>1, <1>2, <1>5, <2>1
  <2>2. CASE d # c
    <3>1. call'[d] = call[d] BY <1>2, <2>2
    <3>2. Failure(d, call[d].after, FALSE) \in failures BY <3>1 DEF FailedAreListed
    <3>3. Failure(d, call'[d].after, FALSE) = Failure(d, call[d].after, FALSE) BY <3>1
    <3>4. failures \subseteq failures' BY <1>1
    <3> QED BY <3>2, <3>3, <3>4
  <2> QED BY <2>1, <2>2
<1>11. OverlaysAreKnown' BY <1>1, <1>3 DEF OverlaysAreKnown
<1>12. FailuresAreDocumented' BY <1>1, <1>4 DEF FailuresAreDocumented
<1> QED BY <1>7, <1>8, <1>9, <1>10, <1>11, <1>12

\* Two failed calls do not write in one process at a time.
LEMMA OneFailedCall ==
    ASSUME CallsMatchWrites, NEW c \in Caller, NEW d \in Caller,
           call[c].pc = "failed", call[d].pc = "failed", ClientOf[c] = ClientOf[d]
    PROVE  c = d
BY DEF CallsMatchWrites

LEMMA FailureOf ==
    ASSUME PoliteTypeOK, NEW f \in failures
    PROVE  f.by \in Caller /\ f.at \in Name /\ f.written \in BOOLEAN
           /\ f = Failure(f.by, f.at, f.written)
BY DEF PoliteTypeOK, Failure

LEMMA OpenKeepsCalls ==
    ASSUME PoliteTypeOK, StoreInv, CallInv, NEW c \in Caller, Open(c)
    PROVE  CallInv'
<1> USE DEF CallInv
<1> DEFINE p == ClientOf[c]
           n == call[c].after
<1>1. /\ clock' = clock /\ failures' = failures /\ call' = call
      /\ writer \in [Process -> Write] /\ p \in Process
      /\ writer' = [writer EXCEPT ![p].pc = "opened"]
      /\ call[c].pc = "failed" /\ writer[p].pc = "named"
  BY StoreTypes, CallTypes DEF PoliteTypeOK, Open, OpenSnapshot, fetchVars
<1>2. /\ writer'[p].pc = "opened" /\ writer'[p].author = writer[p].author
      /\ writer'[p].name = writer[p].name
      /\ \A q \in Process \ {p} : writer'[q] = writer[q]
  BY <1>1 DEF Write
<1>3. /\ files'[n].content = "empty" /\ files'[n] # NoFile
      /\ \A m \in Name \ {n} : files'[m] = files[m]
  BY OpenCase
<1>4. writer[p].name = n /\ writer[p].author = c /\ Failure(c, n, FALSE) \in failures
  BY <1>1 DEF CallsMatchWrites, FailedAreListed
<1> HIDE DEF p, n
<1>5. CallsMatchWrites' BY <1>1, <1>2 DEF CallsMatchWrites, Writing
<1>6. AttemptsAreBounded' BY <1>1 DEF AttemptsAreBounded
<1>7. FailuresArePast' BY <1>1 DEF FailuresArePast
<1>8. FailedAreListed' BY <1>1 DEF FailedAreListed
<1>9. OverlaysAreKnown'
  <2> SUFFICES ASSUME NEW q \in Process, writer'[q].pc = "opened",
                      \A f \in failures : f.at = writer'[q].name => f.by = writer'[q].author
               PROVE  files'[writer'[q].name].content \in {"empty", writer'[q].author}
    BY <1>1 DEF OverlaysAreKnown
  <2>1. CASE writer'[q].name = n BY <1>3, <2>1
  <2>2. CASE writer'[q].name # n
    <3>1. q # p BY <1>2, <1>4, <2>2
    <3>2. writer'[q] = writer[q] /\ writer[q].name \in Name BY <1>1, <1>2, <3>1, StoreTypes DEF PoliteTypeOK
    <3> QED BY <1>3, <2>2, <3>2 DEF OverlaysAreKnown
  <2> QED BY <2>1, <2>2
<1>10. FailuresAreDocumented'
  <2> SUFFICES ASSUME NEW f \in failures, f.written, clock <= f.at + MaxAge
               PROVE  /\ files'[f.at] # NoFile
                      /\ (\A g \in failures \ {f} : g.at # f.at)
                         => files'[f.at].content = f.by
    BY <1>1 DEF FailuresAreDocumented
  <2>1. CASE f.at = n
    <3>1. /\ Failure(c, n, FALSE) # f /\ Failure(c, n, FALSE).at = f.at
      BY <2>1 DEF Failure
    <3> QED BY <1>3, <1>4, <2>1, <3>1
  <2>2. CASE f.at # n
    BY <1>3, <2>2, FailureOf DEF FailuresAreDocumented
  <2> QED BY <2>1, <2>2
<1> QED BY <1>5, <1>6, <1>7, <1>8, <1>9, <1>10

\* The end of a write, with a document or without: the writer and its call are
\* gone, and the other calls and writers are as they were.
LEMMA EndedWrite ==
    ASSUME PoliteTypeOK, CallsMatchWrites, AttemptsAreBounded,
           NEW c \in Caller, call[c].pc = "failed",
           writer' = [writer EXCEPT ![ClientOf[c]] = Silent],
           call' = [call EXCEPT ![c] = NoCall]
    PROVE  /\ CallsMatchWrites' /\ AttemptsAreBounded'
           /\ writer'[ClientOf[c]].pc = "idle" /\ call'[c].pc = "idle"
           /\ \A q \in Process \ {ClientOf[c]} : writer'[q] = writer[q]
           /\ \A d \in Caller \ {c} : call'[d] = call[d]
<1>1. /\ writer \in [Process -> Write] /\ call \in [Caller -> Call] /\ ClientOf[c] \in Process
  BY CallTypes, StoreTypes DEF PoliteTypeOK
<1>2. /\ writer'[ClientOf[c]].pc = "idle"
      /\ \A q \in Process \ {ClientOf[c]} : writer'[q] = writer[q]
  BY <1>1 DEF Silent
<1>3. call'[c].pc = "idle" /\ \A d \in Caller \ {c} : call'[d] = call[d]
  BY <1>1 DEF NoCall
<1>4. \A d \in Caller \ {c} : call[d].pc = "failed" => ClientOf[d] # ClientOf[c]
  BY OneFailedCall
<1>5. CallsMatchWrites'
  <2>1. ASSUME NEW d \in Caller, call'[d].pc = "failed"
        PROVE  /\ Writing(ClientOf[d])'
               /\ writer'[ClientOf[d]].author = d
               /\ writer'[ClientOf[d]].name = call'[d].after
    <3>1. d # c /\ call'[d] = call[d] BY <1>3, <2>1
    <3>2. ClientOf[d] # ClientOf[c] /\ ClientOf[d] \in Process
      BY <1>4, <2>1, <3>1, CallTypes
    <3>3. writer'[ClientOf[d]] = writer[ClientOf[d]] BY <1>2, <3>2
    <3> QED BY <2>1, <3>1, <3>3 DEF CallsMatchWrites, Writing
  <2>2. ASSUME NEW q \in Process, Writing(q)'
        PROVE  \E d \in Caller : /\ ClientOf[d] = q /\ call'[d].pc = "failed"
                                 /\ writer'[q].author = d /\ writer'[q].name = call'[d].after
    <3>1. q # ClientOf[c] /\ writer'[q] = writer[q] BY <1>2, <2>2 DEF Writing
    <3>2. PICK d \in Caller : /\ ClientOf[d] = q /\ call[d].pc = "failed"
                              /\ writer[q].author = d /\ writer[q].name = call[d].after
      BY <2>2, <3>1 DEF CallsMatchWrites, Writing
    <3>3. call'[d] = call[d] BY <1>3, <3>1, <3>2
    <3> QED BY <3>1, <3>2, <3>3
  <2> QED BY <2>1, <2>2 DEF CallsMatchWrites
<1>6. AttemptsAreBounded' BY <1>3 DEF AttemptsAreBounded
<1> QED BY <1>2, <1>3, <1>5, <1>6

LEMMA RaiseKeepsCalls ==
    ASSUME PoliteTypeOK, StoreInv, CallInv, NEW c \in Caller, Raise(c)
    PROVE  CallInv'
<1> USE DEF CallInv
<1> DEFINE p == ClientOf[c]
           n == call[c].after
           f0 == Failure(c, n, FALSE)
           f1 == Failure(c, n, TRUE)
<1>1. /\ clock' = clock /\ failures' = (failures \ {f0}) \cup {f1}
      /\ writer' = [writer EXCEPT ![p] = Silent] /\ call' = [call EXCEPT ![c] = NoCall]
      /\ call[c].pc = "failed" /\ p \in Process /\ writer[p].pc = "opened"
      /\ clock \in Nat
  BY StoreTypes, CallTypes DEF PoliteTypeOK, Raise, WriteSnapshot
<1>2. /\ CallsMatchWrites' /\ AttemptsAreBounded'
      /\ writer'[p].pc = "idle" /\ call'[c].pc = "idle"
      /\ \A q \in Process \ {p} : writer'[q] = writer[q]
      /\ \A d \in Caller \ {c} : call'[d] = call[d]
  BY <1>1, EndedWrite
<1>3. /\ files'[n] # NoFile
      /\ \A m \in Name \ {n} : files'[m] = files[m]
      /\ (\A g \in failures : g.at = n => g.by = c) => files'[n].content = c
  BY RaiseCase
<1>4. /\ f0 \in failures /\ n \in Nat /\ n <= clock
      /\ f0.by = c /\ f0.at = n /\ ~f0.written
      /\ f1.by = c /\ f1.at = n /\ f1.written
  BY <1>1, CallTypes DEF FailedAreListed, Failure, FailuresArePast
<1>5. \A f \in failures : f.by = c /\ f.at = n => f \in {f0, f1}
  BY FailureOf
<1>6. \A d \in Caller \ {c} : Failure(d, call[d].after, FALSE) # f0 BY DEF Failure
<1> HIDE DEF p, n, f0, f1
<1>7. FailuresArePast' BY <1>1, <1>4 DEF FailuresArePast
<1>8. FailedAreListed' BY <1>1, <1>2, <1>6 DEF FailedAreListed, Failure
<1>9. OverlaysAreKnown'
  <2> SUFFICES ASSUME NEW q \in Process, writer'[q].pc = "opened",
                      \A f \in failures' : f.at = writer'[q].name => f.by = writer'[q].author
               PROVE  files'[writer'[q].name].content \in {"empty", writer'[q].author}
    BY DEF OverlaysAreKnown
  <2>1. q # p /\ writer'[q] = writer[q] /\ writer[q].name \in Name
    BY <1>2, StoreTypes DEF PoliteTypeOK
  <2>2. writer[q].author # c
    BY <1>1, <2>1 DEF CallsMatchWrites, Writing, p
  <2>3. writer[q].name # n BY <1>1, <1>4, <2>1, <2>2
  <2>4. \A f \in failures : f.at = writer[q].name => f.by = writer[q].author
    BY <1>1, <1>4, <2>1, <2>3
  <2> QED BY <1>3, <2>1, <2>3, <2>4 DEF OverlaysAreKnown
<1>10. FailuresAreDocumented'
  <2> SUFFICES ASSUME NEW f \in failures', f.written, clock <= f.at + MaxAge
               PROVE  /\ files'[f.at] # NoFile
                      /\ (\A g \in failures' \ {f} : g.at # f.at)
                         => files'[f.at].content = f.by
    BY <1>1 DEF FailuresAreDocumented
  <2>1. CASE f = f1
    <3> SUFFICES ASSUME \A g \in failures' \ {f} : g.at # f.at
                 PROVE  files'[n].content = c
      BY <1>3, <1>4, <2>1
    <3>1. \A g \in failures : g.at = n => g.by = c
      BY <1>1, <1>4, <2>1
    <3> QED BY <1>3, <3>1
  <2>2. CASE f # f1 /\ f.at = n
    BY <1>1, <1>3, <1>4, <2>2
  <2>3. CASE f # f1 /\ f.at # n
    <3>1. f \in failures /\ f.at \in Name BY <1>1, <2>3, FailureOf
    <3>2. files'[f.at] = files[f.at] BY <1>3, <2>3, <3>1
    <3>3. (\A g \in failures' \ {f} : g.at # f.at) => \A g \in failures \ {f} : g.at # f.at
      BY <1>1, <1>4, <2>3
    <3> QED BY <3>1, <3>2, <3>3 DEF FailuresAreDocumented
  <2> QED BY <2>1, <2>2, <2>3
<1> QED BY <1>2, <1>7, <1>8, <1>9, <1>10

\* A failed call that gives up its document.
LEMMA AbandonKeepsCalls ==
    ASSUME PoliteTypeOK, CallInv, NEW c \in Caller, RaiseUndocumented(c)
    PROVE  CallInv'
<1> USE DEF CallInv
<1>1. /\ clock' = clock /\ files' = files /\ failures' = failures
      /\ writer' = [writer EXCEPT ![ClientOf[c]] = Silent]
      /\ call' = [call EXCEPT ![c] = NoCall] /\ call[c].pc = "failed"
  BY DEF RaiseUndocumented, AbandonSnapshot
<1>2. /\ CallsMatchWrites' /\ AttemptsAreBounded'
      /\ writer'[ClientOf[c]].pc = "idle" /\ call'[c].pc = "idle"
      /\ \A q \in Process \ {ClientOf[c]} : writer'[q] = writer[q]
      /\ \A d \in Caller \ {c} : call'[d] = call[d]
  BY <1>1, EndedWrite
<1>3. FailuresArePast' BY <1>1 DEF FailuresArePast
<1>4. FailedAreListed' BY <1>1, <1>2 DEF FailedAreListed, Failure
<1>5. OverlaysAreKnown' BY <1>1, <1>2 DEF OverlaysAreKnown
<1>6. FailuresAreDocumented' BY <1>1 DEF FailuresAreDocumented
<1> QED BY <1>2, <1>3, <1>4, <1>5, <1>6

\* The death of a process takes its calls and its write together.
LEMMA CrashKeepsCalls ==
    ASSUME PoliteTypeOK, CallInv, NEW p \in Process, Crash(p)
    PROVE  CallInv'
<1> USE DEF CallInv
<1>1. /\ clock' = clock /\ files' = files /\ failures' = failures
      /\ writer' = [writer EXCEPT ![p] = Silent]
      /\ call' = [c \in Caller |-> IF ClientOf[c] = p THEN NoCall ELSE call[c]]
      /\ writer \in [Process -> Write]
  BY StoreTypes DEF PoliteTypeOK, Crash
<1>2. writer'[p].pc = "idle" /\ \A q \in Process \ {p} : writer'[q] = writer[q]
  BY <1>1 DEF Silent
<1>3. \A c \in Caller : \/ ClientOf[c] = p /\ call'[c].pc = "idle"
                        \/ ClientOf[c] # p /\ call'[c] = call[c]
  BY <1>1 DEF NoCall
<1>4. CallsMatchWrites' BY <1>2, <1>3, CallTypes DEF CallsMatchWrites, Writing
<1>5. AttemptsAreBounded' BY <1>3 DEF AttemptsAreBounded
<1>6. FailuresArePast' BY <1>1 DEF FailuresArePast
<1>7. FailedAreListed' BY <1>1, <1>3 DEF FailedAreListed
<1>8. OverlaysAreKnown' BY <1>1, <1>2 DEF OverlaysAreKnown
<1>9. FailuresAreDocumented' BY <1>1 DEF FailuresAreDocumented
<1> QED BY <1>4, <1>5, <1>6, <1>7, <1>8, <1>9

------------------------------------------------------------------------------
(***************************************************************************)
(* Tokens.                                                                 *)
(***************************************************************************)

LEMMA TokenOf ==
    ASSUME NEW given, NEW x, NEW first, NEW last
    PROVE  x \in TokensOf(given, Caller, first, last) <=>
              \E c \in Caller, t \in (first..last) \cap Name :
                 \E i \in 1..given[c][t] : x = <<<<c, t>>, i>>
<1>1. x \in TokensOf(given, Caller, first, last) <=>
         \E c \in Caller, t \in (first..last) \cap Name :
            x \in {<<c, t>>} \X (1..given[c][t])
  <2> DEFINE T == {{<<c, t>>} \X (1..given[c][t]) :
                      c \in Caller, t \in (first..last) \cap Name}
  <2>1. TokensOf(given, Caller, first, last) = UNION T BY DEF TokensOf
  <2>2. \A S : S \in T <=> \E c \in Caller, t \in (first..last) \cap Name :
                              S = {<<c, t>>} \X (1..given[c][t])
    OBVIOUS
  <2>3. ASSUME NEW S \in T, x \in S
        PROVE  \E c \in Caller, t \in (first..last) \cap Name :
                  x \in {<<c, t>>} \X (1..given[c][t])
    BY <2>2, <2>3
  <2>4. ASSUME NEW c \in Caller, NEW t \in (first..last) \cap Name,
               x \in {<<c, t>>} \X (1..given[c][t])
        PROVE  \E S \in T : x \in S
    <3>1. {<<c, t>>} \X (1..given[c][t]) \in T BY <2>2
    <3> HIDE DEF T
    <3> QED BY <2>4, <3>1
  <2> QED BY <2>1, <2>3, <2>4
<1>2. \A y, S : x \in {y} \X S <=> \E i \in S : x = <<y, i>>
  OBVIOUS
<1> QED BY <1>1, <1>2

LEMMA TokensWithin ==
    ASSUME OrderedAreGranted, PoliteTypeOK, NEW first \in Int, NEW last \in Int
    PROVE  /\ TokensOf(granted, Caller, first, last) \subseteq TokensOf(granted, Caller, 0, MaxClock)
           /\ TokensOf(ordered, Caller, first, last) \subseteq TokensOf(granted, Caller, first, last)
<1>1. ASSUME NEW x \in TokensOf(granted, Caller, first, last)
      PROVE  x \in TokensOf(granted, Caller, 0, MaxClock)
  <2>1. PICK c \in Caller, t \in (first..last) \cap Name :
           \E i \in 1..granted[c][t] : x = <<<<c, t>>, i>>
    BY TokenOf
  <2>2. t \in (0..MaxClock) \cap Name BY DEF Name
  <2> QED BY <2>1, <2>2, TokenOf
<1>2. ASSUME NEW x \in TokensOf(ordered, Caller, first, last)
      PROVE  x \in TokensOf(granted, Caller, first, last)
  <2>1. PICK c \in Caller, t \in (first..last) \cap Name :
           \E i \in 1..ordered[c][t] : x = <<<<c, t>>, i>>
    BY TokenOf
  <2>2. /\ ordered[c][t] \in Nat /\ granted[c][t] \in Nat
        /\ ordered[c][t] <= granted[c][t]
    BY DEF PoliteTypeOK, Tokens, OrderedAreGranted
  <2>3. \E i \in 1..granted[c][t] : x = <<<<c, t>>, i>> BY <2>1, <2>2
  <2> QED BY <2>1, <2>3, TokenOf
<1> QED BY <1>1, <1>2

LEMMA AsideKeepsTokens ==
    ASSUME TokenInv, UNCHANGED bucketVars
    PROVE  TokenInv'
<1> USE DEF TokenInv
<1>0. granted' = granted /\ ordered' = ordered BY DEF bucketVars
<1>1. OrderedAreGranted' BY <1>0 DEF OrderedAreGranted
<1>2. TokensAreFinite' BY <1>0 DEF TokensAreFinite, TokensOf
<1>3. TokensWithinRate'
  <2> SUFFICES ASSUME NEW t \in Name
               PROVE  Cardinality(TokensOf(ordered, Caller, t, t + Period)') <= Limit
    BY DEF TokensWithinRate
  <2>1. TokensOf(ordered, Caller, t, t + Period)' = TokensOf(ordered, Caller, t, t + Period)
    BY <1>0 DEF TokensOf
  <2> QED BY <2>1 DEF TokensWithinRate
<1> QED BY <1>1, <1>2, <1>3

\* A token that is given adds itself to the tokens, in the windows of its stamp.
LEMMA TokenAdded ==
    ASSUME NEW tokens \in Tokens, NEW more \in Tokens, NEW c \in Caller, NEW stamp \in Name,
           more = Given(tokens, c, stamp), NEW first \in Int, NEW last \in Int
    PROVE  /\ TokensOf(more, Caller, first, last)
                 \subseteq TokensOf(tokens, Caller, first, last)
                           \cup {<<<<c, stamp>>, tokens[c][stamp] + 1>>}
           /\ stamp \notin first..last =>
                 TokensOf(more, Caller, first, last) \subseteq TokensOf(tokens, Caller, first, last)
<1> DEFINE new == <<<<c, stamp>>, tokens[c][stamp] + 1>>
<1>1. /\ more[c][stamp] = tokens[c][stamp] + 1 /\ tokens[c][stamp] \in Nat
      /\ \A d \in Caller, t \in Name : d # c \/ t # stamp => more[d][t] = tokens[d][t]
  BY DEF Given, Tokens
<1> SUFFICES ASSUME NEW x \in TokensOf(more, Caller, first, last)
             PROVE  \/ x \in TokensOf(tokens, Caller, first, last)
                    \/ x = new /\ stamp \in first..last
  OBVIOUS
<1>2. PICK d \in Caller, t \in (first..last) \cap Name :
         \E i \in 1..more[d][t] : x = <<<<d, t>>, i>>
  BY TokenOf
<1>3. PICK i \in 1..more[d][t] : x = <<<<d, t>>, i>> BY <1>2
<1>4. CASE i \in 1..tokens[d][t]
  <2>1. \E j \in 1..tokens[d][t] : x = <<<<d, t>>, j>> BY <1>3, <1>4
  <2> QED BY <2>1, TokenOf
<1>5. CASE i \notin 1..tokens[d][t]
  <2>1. d = c /\ t = stamp BY <1>1, <1>3, <1>5
  <2>2. i = tokens[c][stamp] + 1 BY <1>1, <1>3, <1>5, <2>1
  <2> QED BY <1>3, <2>1, <2>2
<1> QED BY <1>4, <1>5

\* The bucket counts the tokens of the period before the stamp; a token that
\* comes in order shares its windows with no other.
LEMMA AcquireKeepsTokens ==
    ASSUME PoliteTypeOK, AttemptsAreBounded, TokenInv, NEW c \in Caller, AcquireToken(c),
           PoliteTypeOK'
    PROVE  TokenInv'
<1> USE DEF TokenInv
<1>1. PICK stamp \in Name : stamp = call[c].after
  BY DEF AcquireToken, Running, AttemptsAreBounded
<1> DEFINE Recent == TokensOf(granted, Caller, stamp - Period, stamp)
<1>2. /\ granted' = Given(granted, c, stamp)
      /\ ordered' = IF Overtaken(stamp) THEN ordered ELSE Given(ordered, c, stamp)
      /\ Cardinality(Recent) < Limit
  BY <1>1 DEF AcquireToken, HasRoom, Sharing
<1>3. /\ stamp \in Nat /\ stamp \in Int /\ stamp - Period \in Int
      /\ 0 \in Int /\ MaxClock \in Int
  BY DEF Name
<1>4. PICK old \in Tokens : old = granted BY DEF PoliteTypeOK
<1>5. PICK new \in Tokens : new = granted' BY DEF PoliteTypeOK
<1>6. PICK was \in Tokens : was = ordered BY DEF PoliteTypeOK
<1>7. PICK is \in Tokens : is = ordered' BY DEF PoliteTypeOK
<1>8. new = Given(old, c, stamp) BY <1>2, <1>4, <1>5
<1>9. is = was \/ (is = Given(was, c, stamp) /\ ~Overtaken(stamp)) BY <1>2, <1>6, <1>7
<1>10. IsFiniteSet(Recent)
  BY <1>3, TokensWithin, FS_Subset DEF TokensAreFinite
<1> HIDE DEF Recent
<1>11. TokensAreFinite'
  <2>1. IsFiniteSet(TokensOf(old, Caller, 0, MaxClock) \cup {<<<<c, stamp>>, old[c][stamp] + 1>>})
    BY <1>4, FS_AddElement DEF TokensAreFinite
  <2>2. IsFiniteSet(TokensOf(new, Caller, 0, MaxClock))
    BY <1>3, <1>8, <2>1, TokenAdded, FS_Subset
  <2> QED BY <1>5, <2>2 DEF TokensAreFinite, TokensOf
<1>12. OrderedAreGranted'
  <2> SUFFICES ASSUME NEW d \in Caller, NEW t \in Name PROVE is[d][t] <= new[d][t]
    BY <1>5, <1>7 DEF OrderedAreGranted
  <2>1. /\ was[d][t] <= old[d][t] /\ was[d][t] \in Nat /\ old[d][t] \in Nat
    BY <1>4, <1>6 DEF OrderedAreGranted, Tokens
  <2> QED BY <1>8, <1>9, <2>1 DEF Given, Tokens
<1>13. TokensWithinRate'
  <2> SUFFICES ASSUME NEW t \in Name
               PROVE  Cardinality(TokensOf(is, Caller, t, t + Period)) <= Limit
    BY <1>7 DEF TokensWithinRate
  <2> DEFINE before == TokensOf(was, Caller, t, t + Period)
             after  == TokensOf(is, Caller, t, t + Period)
             token  == <<<<c, stamp>>, was[c][stamp] + 1>>
  <2>1. t \in Int /\ t + Period \in Int BY DEF Name
  <2>2. IsFiniteSet(before) /\ Cardinality(before) <= Limit
    <3>1. before = TokensOf(ordered, Caller, t, t + Period) BY <1>6
    <3> QED BY <2>1, <3>1, TokensWithin, FS_Subset DEF TokensAreFinite, TokensWithinRate
  <2>3. CASE is = was \/ stamp \notin t..t + Period
    <3>1. after \subseteq before BY <1>9, <2>1, <2>3, TokenAdded
    <3> HIDE DEF after, before
    <3>2. IsFiniteSet(after) /\ Cardinality(after) <= Cardinality(before)
      BY <2>2, <3>1, FS_Subset
    <3>3. Cardinality(after) \in Nat /\ Cardinality(before) \in Nat
      BY <2>2, <3>2, FS_CardinalityType
    <3> QED BY <2>2, <3>2, <3>3 DEF after
  <2>4. CASE is = Given(was, c, stamp) /\ ~Overtaken(stamp) /\ stamp \in t..t + Period
    <3>1. before \subseteq Recent
      <4> SUFFICES ASSUME NEW x \in before PROVE x \in Recent
        OBVIOUS
      <4>1. x \in TokensOf(granted, Caller, t, t + Period) BY <1>6, <2>1, TokensWithin
      <4>2. PICK d \in Caller, u \in (t..t + Period) \cap Name :
               \E i \in 1..granted[d][u] : x = <<<<d, u>>, i>>
        BY <4>1, TokenOf
      <4>3. granted[d][u] \in Nat BY DEF PoliteTypeOK, Tokens
      <4>4. granted[d][u] > 0 BY <4>2, <4>3
      <4>5. ~(u > stamp) BY <2>4, <4>4 DEF Overtaken
      <4>6. u \in (stamp - Period..stamp) \cap Name
        BY <1>3, <2>1, <2>4, <4>5 DEF Name
      <4> QED BY <4>2, <4>6, TokenOf DEF Recent
    <3>2. after \subseteq before \cup {token} BY <2>1, <2>4, TokenAdded
    <3> HIDE DEF after, before, token
    <3>3. after \subseteq Recent \cup {token} BY <3>1, <3>2
    <3>4. /\ IsFiniteSet(Recent \cup {token}) /\ Cardinality(Recent) \in Nat
          /\ Cardinality(Recent \cup {token}) \in {Cardinality(Recent), Cardinality(Recent) + 1}
      BY <1>10, FS_AddElement, FS_CardinalityType
    <3>5. IsFiniteSet(after) /\ Cardinality(after) <= Cardinality(Recent \cup {token})
      BY <3>3, <3>4, FS_Subset
    <3>6. Cardinality(after) \in Nat BY <3>5, FS_CardinalityType
    <3>7. Cardinality(after) <= Limit BY <1>2, <3>4, <3>5, <3>6
    <3> QED BY <3>7 DEF after
  <2> QED BY <1>9, <2>3, <2>4
<1> QED BY <1>11, <1>12, <1>13

------------------------------------------------------------------------------
(***************************************************************************)
(* The steps.                                                              *)
(***************************************************************************)

FetchTypeOK ==
    /\ limiter \in [Process -> BOOLEAN]
    /\ call \in [Caller -> Call]
    /\ calls \in 0..MaxCalls
    /\ granted \in Tokens /\ ordered \in Tokens
    /\ sent \in [Name -> Nat]
    /\ failures \subseteq [by: Caller, at: Name, written: BOOLEAN]

LEMMA TypeParts == PoliteTypeOK <=> StoreTypeOK /\ FetchTypeOK
BY DEF PoliteTypeOK, FetchTypeOK

LEMMA PoliteInit == Init => PoliteInv
<1> SUFFICES ASSUME Init PROVE PoliteInv
  OBVIOUS
<1> USE DEF Init, StoreInit
<1>1. Start \in Name /\ 0 \in Name /\ Name \subseteq Nat BY DEF Name
<1>2. PICK earlier \in SUBSET (0..Start - 1) :
         files = [n \in Name |-> IF n \in earlier
                                 THEN [mtime |-> n, content |-> "earlier"] ELSE NoFile]
  OBVIOUS
<1>3. \A n \in Name : \/ files[n] = NoFile
                      \/ files[n] = [mtime |-> n, content |-> "earlier"] /\ n < Start
  <2> SUFFICES ASSUME NEW n \in Name, n \in earlier
               PROVE  files[n] = [mtime |-> n, content |-> "earlier"] /\ n < Start
    BY <1>2
  <2>1. n \in 0..Start - 1 OBVIOUS
  <2> QED BY <1>2, <2>1
<1>4. StoreTypeOK
  <2>1. files \in [Name -> File]
    <3>1. NoFile \in File /\ \A n \in Name : [mtime |-> n, content |-> "earlier"] \in File
      BY DEF File, Content
    <3> QED BY <1>2, <3>1
  <2> QED BY <1>1, <2>1, SilentType, AsleepType DEF StoreTypeOK
<1>5. FetchTypeOK
  BY NoCallType DEF FetchTypeOK, Caller, Tokens
<1>6. \A n \in Present : n <= files[n].mtime /\ files[n].mtime <= clock
  BY <1>1, <1>3 DEF Present
<1>7. /\ \A p \in Process : writer[p].pc = "idle"
      /\ \A r \in Rotation : rotation[r].pc = "idle"
      /\ \A c \in Caller : call[c].pc = "idle"
  BY DEF Silent, Asleep, NoCall
<1>8. StoreInv
  BY <1>6, <1>7 DEF StoreInv, FilesAreDated, WritesAreYoung, OpenedArePresent,
                    RotationsLookBack, UnlinkedAreOld, Writing
<1>9. CallInv
  BY <1>7 DEF CallInv, CallsMatchWrites, AttemptsAreBounded, FailuresArePast, FailedAreListed,
              OverlaysAreKnown, FailuresAreDocumented, Writing
<1>10. TokenInv
  <2>1. OrderedAreGranted BY DEF OrderedAreGranted
  <2>2. \A x, first, last : x \notin TokensOf(granted, Caller, first, last)
    BY TokenOf
  <2>3. \A first, last : TokensOf(granted, Caller, first, last) = {} BY <2>2
  <2>4. IsFiniteSet({}) /\ Cardinality({}) = 0 BY FS_EmptySet
  <2>5. TokensAreFinite BY <2>3, <2>4 DEF TokensAreFinite
  <2>6. TokensWithinRate
    <3> SUFFICES ASSUME NEW t \in Name
                 PROVE  Cardinality(TokensOf(granted, Caller, t, t + Period)) <= Limit
      BY DEF TokensWithinRate
    <3>1. TokensOf(granted, Caller, t, t + Period) = {} BY <2>3
    <3>2. Cardinality(TokensOf(granted, Caller, t, t + Period)) = 0 BY <2>4, <3>1
    <3> QED BY <3>2
  <2> QED BY <2>1, <2>5, <2>6 DEF TokenInv
<1> QED BY <1>4, <1>5, <1>8, <1>9, <1>10, TypeParts DEF PoliteInv

LEMMA TickPreserves ==
    ASSUME PoliteInv, StoreTick, UNCHANGED fetchVars
    PROVE  PoliteInv' /\ UNCHANGED files
<1> USE DEF PoliteInv
<1>1. /\ clock' = clock + 1 /\ clock < MaxClock /\ UNCHANGED <<files, writer, rotation, faults>>
      /\ \A p \in Process : Writing(p) => clock < writer[p].name + WriteTime
  BY DEF StoreTick, Writing
<1>2. clock \in Nat /\ clock \in Name /\ clock + 1 \in Name /\ StoreTypeOK
  BY <1>1, StoreTypes DEF PoliteTypeOK, Name
<1>3. PoliteTypeOK'
  BY <1>1, <1>2 DEF PoliteTypeOK, StoreTypeOK, fetchVars, bucketVars
<1>4. StoreInv'
  <2>1. FilesAreDated'
    BY <1>1, <1>2, StoreTypes DEF StoreInv, FilesAreDated, Present
  <2>2. WritesAreYoung'
    BY <1>1, <1>2, StoreTypes DEF StoreInv, WritesAreYoung, Writing
  <2>3. OpenedArePresent' BY <1>1 DEF StoreInv, OpenedArePresent, Present
  <2>4. RotationsLookBack'
    BY <1>1, <1>2, StoreTypes DEF StoreInv, RotationsLookBack, Present
  <2>5. UnlinkedAreOld' BY <1>1 DEF StoreInv, UnlinkedAreOld, Present
  <2> QED BY <2>1, <2>2, <2>3, <2>4, <2>5 DEF StoreInv
<1>5. OnlyOldGoes BY <1>1 DEF OnlyOldGoes
<1>6. CallInv'
  BY <1>1, <1>2, <1>5, AsideKeepsCalls DEF StoreInv, fetchVars
<1>7. TokenInv' BY AsideKeepsTokens DEF fetchVars
<1> QED BY <1>1, <1>3, <1>4, <1>6, <1>7

LEMMA RotationPreserves ==
    ASSUME PoliteInv, NEW r \in Rotation, Rotate(r), UNCHANGED fetchVars
    PROVE  PoliteInv' /\ OnlyOldGoes
<1> USE DEF PoliteInv
<1>1. /\ StoreTypeOK' /\ StoreInv' /\ clock' = clock /\ writer' = writer /\ OnlyOldGoes
  BY RotatePreserves DEF PoliteTypeOK
<1>2. clock \in Nat BY StoreTypes DEF PoliteTypeOK
<1>3. PoliteTypeOK' BY <1>1 DEF PoliteTypeOK, fetchVars, bucketVars
<1>4. CallInv' BY <1>1, <1>2, AsideKeepsCalls DEF StoreInv, fetchVars
<1>5. TokenInv' BY AsideKeepsTokens DEF fetchVars
<1> QED BY <1>1, <1>3, <1>4, <1>5

LEMMA StoreAside ==
    ASSUME StoreInv, UNCHANGED storeVars
    PROVE  StoreInv'
BY DEF StoreInv, storeVars, FilesAreDated, WritesAreYoung, OpenedArePresent, RotationsLookBack,
       UnlinkedAreOld, Writing, Present

LEMMA FetchPreserves ==
    ASSUME PoliteInv, NEW c \in Caller, FetchStep(c)
    PROVE  PoliteInv' /\ UNCHANGED files
<1> USE DEF PoliteInv
<1>1. PoliteTypeOK' /\ UNCHANGED storeVars
  BY FetchStepType DEF CallInv
<1>2. clock' = clock /\ clock \in Nat /\ files' = files
  BY <1>1, StoreTypes DEF PoliteTypeOK, storeVars
<1>3. StoreInv' BY <1>1, StoreAside
<1>4. CallInv' BY FetchStepKeepsCalls
<1>5. TokenInv'
  <2>1. CASE AcquireToken(c) BY <1>1, <2>1, AcquireKeepsTokens DEF CallInv
  <2>2. CASE ~AcquireToken(c)
    <3>1. UNCHANGED bucketVars
      BY <2>2 DEF FetchStep, Begin, LimiterReady, LimiterFailed, StampToken, TokenRefused, Send,
                  Answered, Retry
    <3> QED BY <3>1, AsideKeepsTokens
  <2> QED BY <2>1, <2>2
<1> QED BY <1>1, <1>2, <1>3, <1>4, <1>5

\* The steps of a failed call and the death of a process keep the types of the calls.
LEMMA WriteTypes ==
    ASSUME PoliteTypeOK, FailedAreListed, NEW c \in Caller,
           Fail(c) \/ Open(c) \/ Raise(c) \/ RaiseUndocumented(c)
    PROVE  /\ FetchTypeOK' /\ UNCHANGED <<clock, bucketVars>>
<1>1. /\ FetchTypeOK /\ clock \in Name /\ clock \in 0..MaxClock + Backoff
      /\ call[c] \in Call /\ NoCall \in Call
  BY CallTypes, StoreTypes, TypeParts, NoCallType DEF PoliteTypeOK, Name
<1>2. UNCHANGED <<clock, bucketVars, limiter, calls, sent>>
  BY DEF Fail, Open, Raise, RaiseUndocumented, fetchVars
<1>3. call' \in [Caller -> Call]
  <2>1. CASE Fail(c) BY <1>1, <2>1 DEF Fail, FetchTypeOK, Call
  <2>2. CASE Open(c) BY <1>1, <2>2 DEF Open, FetchTypeOK, fetchVars
  <2>3. CASE Raise(c) \/ RaiseUndocumented(c)
    BY <1>1, <2>3 DEF Raise, RaiseUndocumented, FetchTypeOK
  <2> QED BY <2>1, <2>2, <2>3
<1>4. failures' \subseteq [by: Caller, at: Name, written: BOOLEAN]
  <2>1. CASE Fail(c) BY <1>1, <2>1, FailureType DEF Fail, FetchTypeOK
  <2>2. CASE Open(c) \/ RaiseUndocumented(c)
    BY <1>1, <2>2 DEF Open, RaiseUndocumented, FetchTypeOK, fetchVars
  <2>3. CASE Raise(c)
    <3>1. Failure(c, call[c].after, FALSE) \in failures BY <2>3 DEF Raise, FailedAreListed
    <3>2. Failure(c, call[c].after, FALSE).at = call[c].after BY DEF Failure
    <3>3. call[c].after \in Name BY <3>1, <3>2, FailureOf
    <3>4. Failure(c, call[c].after, TRUE) \in [by: Caller, at: Name, written: BOOLEAN]
      BY <3>3, FailureType
    <3> QED BY <1>1, <2>3, <3>4 DEF Raise, FetchTypeOK
  <2> QED BY <2>1, <2>2, <2>3
<1> QED BY <1>1, <1>2, <1>3, <1>4 DEF FetchTypeOK, bucketVars

LEMMA DocumentingPreserves ==
    ASSUME PoliteInv, NEW c \in Caller,
           Fail(c) \/ Open(c) \/ Raise(c) \/ RaiseUndocumented(c)
    PROVE  PoliteInv' /\ \A n \in Name : files'[n] = files[n] \/ files'[n] # NoFile
<1> USE DEF PoliteInv
<1>1. FetchTypeOK' /\ clock' = clock /\ UNCHANGED bucketVars /\ clock \in Nat
  BY WriteTypes, StoreTypes DEF CallInv, PoliteTypeOK
<1>2. /\ StoreTypeOK' /\ StoreInv' /\ CallInv'
      /\ \A n \in Name : files'[n] = files[n] \/ files'[n] # NoFile
  <2>1. CASE Fail(c)
    <3>1. files' = files BY <2>1 DEF Fail
    <3> QED BY <2>1, <3>1, FailCase, FailKeepsCalls
  <2>2. CASE Open(c)
    BY <2>2, OpenCase, OpenKeepsCalls DEF CallInv
  <2>3. CASE Raise(c)
    BY <2>3, RaiseCase, RaiseKeepsCalls DEF CallInv
  <2>4. CASE RaiseUndocumented(c)
    <3>1. /\ writer' = [writer EXCEPT ![ClientOf[c]] = Silent]
          /\ UNCHANGED <<clock, rotation>> /\ files' = files
          /\ faults < MaxFaults /\ faults' = faults + 1
      BY <2>4 DEF RaiseUndocumented, AbandonSnapshot
    <3>2. PICK p \in Process : p = ClientOf[c] BY CallTypes
    <3>3. StoreTypeOK /\ writer' = [writer EXCEPT ![p] = Silent]
      BY <3>1, <3>2 DEF PoliteTypeOK
    <3>4. StoreTypeOK' /\ StoreInv' BY <3>1, <3>3, SilenceCase
    <3> QED BY <2>4, <3>1, <3>4, AbandonKeepsCalls
  <2> QED BY <2>1, <2>2, <2>3, <2>4
<1>3. PoliteTypeOK' BY <1>1, <1>2 DEF PoliteTypeOK, FetchTypeOK
<1>4. TokenInv' BY <1>1, AsideKeepsTokens
<1> QED BY <1>2, <1>3, <1>4

LEMMA CrashPreserves ==
    ASSUME PoliteInv, NEW p \in Process, Crash(p)
    PROVE  PoliteInv' /\ UNCHANGED files
<1> USE DEF PoliteInv
<1>1. /\ writer' = [writer EXCEPT ![p] = Silent]
      /\ UNCHANGED <<clock, rotation>> /\ files' = files
      /\ faults < MaxFaults /\ faults' = faults + 1
      /\ UNCHANGED <<calls, bucketVars, sent, failures>>
  BY DEF Crash
<1>2. StoreTypeOK /\ clock \in Nat BY StoreTypes DEF PoliteTypeOK
<1>3. StoreTypeOK' /\ StoreInv' BY <1>1, <1>2, SilenceCase
<1>4. CallInv' BY CrashKeepsCalls
<1>5. TokenInv' BY <1>1, AsideKeepsTokens
<1>6. FetchTypeOK'
  <2>1. FetchTypeOK BY TypeParts
  <2>2. call' \in [Caller -> Call] BY <2>1, NoCallType DEF Crash, FetchTypeOK
  <2>3. limiter' \in [Process -> BOOLEAN] BY <2>1 DEF Crash, FetchTypeOK
  <2> QED BY <1>1, <2>1, <2>2, <2>3 DEF FetchTypeOK, bucketVars
<1>7. PoliteTypeOK' BY <1>3, <1>6 DEF PoliteTypeOK, FetchTypeOK
<1> QED BY <1>1, <1>3, <1>4, <1>5, <1>7

\* Every step keeps the invariant, and only rotation takes files away.
LEMMA PoliteNext ==
    ASSUME PoliteInv, [Next]_vars
    PROVE  /\ PoliteInv'
           /\ \A n \in Name : \/ files'[n] = files[n]
                              \/ files'[n] # NoFile
                              \/ n \in Present => files[n].mtime < clock - MaxAge
<1>1. CASE StoreTick /\ UNCHANGED fetchVars BY <1>1, TickPreserves
<1>2. ASSUME NEW r \in Rotation, Rotate(r), UNCHANGED fetchVars
      PROVE  /\ PoliteInv'
             /\ \A n \in Name : \/ files'[n] = files[n]
                                \/ n \in Present => files[n].mtime < clock - MaxAge
  BY <1>2, RotationPreserves DEF OnlyOldGoes
<1>3. ASSUME NEW p \in Process, Crash(p) PROVE PoliteInv' /\ UNCHANGED files
  BY <1>3, CrashPreserves
<1>4. ASSUME NEW c \in Caller, FetchStep(c) PROVE PoliteInv' /\ UNCHANGED files
  BY <1>4, FetchPreserves
<1>5. ASSUME NEW c \in Caller, Fail(c) \/ Open(c) \/ Raise(c) \/ RaiseUndocumented(c)
      PROVE  PoliteInv' /\ \A n \in Name : files'[n] = files[n] \/ files'[n] # NoFile
  BY <1>5, DocumentingPreserves
<1>6. CASE UNCHANGED vars
  <2>1. UNCHANGED <<writer, call, failures>> /\ clock' = clock /\ files' = files
        /\ UNCHANGED bucketVars /\ UNCHANGED storeVars /\ UNCHANGED fetchVars
    BY <1>6 DEF vars, storeVars, fetchVars, bucketVars
  <2>2. StoreTypeOK' /\ FetchTypeOK'
    BY <2>1, TypeParts DEF PoliteInv, StoreTypeOK, FetchTypeOK, storeVars, fetchVars, bucketVars
  <2>3. PoliteTypeOK' BY <2>2 DEF PoliteTypeOK, FetchTypeOK
  <2>4. clock \in Nat BY StoreTypes DEF PoliteInv, PoliteTypeOK
  <2>5. OnlyOldGoes BY <2>1 DEF OnlyOldGoes
  <2>6. CallInv' BY <2>1, <2>4, <2>5, AsideKeepsCalls DEF PoliteInv, StoreInv
  <2>7. StoreInv' BY <2>1, StoreAside DEF PoliteInv
  <2>8. TokenInv' BY <2>1, <2>4, AsideKeepsTokens DEF PoliteInv
  <2> QED BY <2>1, <2>3, <2>6, <2>7, <2>8 DEF PoliteInv
<1> QED BY <1>1, <1>2, <1>3, <1>4, <1>5, <1>6 DEF Next, FetchStep

------------------------------------------------------------------------------
(***************************************************************************)
(* The theorems.                                                           *)
(***************************************************************************)

\* PoliteInv holds always.
THEOREM PoliteInvariant == Spec => []PoliteInv
<1>1. PoliteInv /\ [Next]_vars => PoliteInv' BY PoliteNext
<1> QED BY PoliteInit, <1>1, PTL DEF Spec

\* The volume, its writers and rotations, the calls and the tokens stay within
\* their types: no call makes more than MaxAttempts attempts.
THEOREM PoliteTypeCorrect == Spec => []PoliteTypeOK
<1>1. PoliteInv => PoliteTypeOK BY DEF PoliteInv
<1> QED BY PoliteInvariant, <1>1, PTL

\* However many clients race through the initialisation of their limiters or
\* restart, the bucket in Redis lets no more than Limit calls to the host go
\* ahead in any window of a period, besides those with an overtaken timestamp.
THEOREM RateIsKept == Spec => []TokensWithinRate
<1>1. PoliteInv => TokensWithinRate BY DEF PoliteInv, TokenInv
<1> QED BY PoliteInvariant, <1>1, PTL

\* _write_failure_snapshot: a document that was written is on the volume for
\* the time of D-17, whole unless another call failed in the same second.
THEOREM FailuresDocumented == Spec => []FailuresAreDocumented
<1>1. PoliteInv => FailuresAreDocumented BY DEF PoliteInv, CallInv
<1> QED BY PoliteInvariant, <1>1, PTL

\* rotate unlinks by a name that it found old some steps ago; no writer has
\* that name any more, so that the file it removes is past the retention.
THEOREM FreshFilesKept == Spec => RotationKeepsFresh
<1>1. PoliteInv /\ [Next]_vars =>
         [\A n \in Present : files'[n] = NoFile => files[n].mtime < clock - MaxAge]_storeVars
  <2> SUFFICES ASSUME PoliteInv, [Next]_vars, NEW n \in Present, files'[n] = NoFile
               PROVE  files[n].mtime < clock - MaxAge
    OBVIOUS
  <2>1. n \in Name /\ files[n] # NoFile BY DEF Present
  <2> QED BY <2>1, PoliteNext
<1> QED BY PoliteInvariant, <1>1, PTL DEF Spec, RotationKeepsFresh

\* An execution of rotate that ends has passed, or seen vanish, every file that
\* was too old when it began.
THEOREM RotationSweeps == Spec => RotationSweepsAll
<1>1. PoliteInv =>
         [\A r \in Rotation :
             RotateEnd(r) => \A n \in Present : files[n].mtime >= rotation[r].cutoff]_storeVars
  <2> SUFFICES ASSUME PoliteInv, NEW r \in Rotation, RotateEnd(r), NEW n \in Present
               PROVE  files[n].mtime >= rotation[r].cutoff
    OBVIOUS
  <2>1. rotation[r].pc = "walk" /\ rotation[r].todo = {} BY DEF RotateEnd, Walking
  <2>2. ~(files[n].mtime < rotation[r].cutoff)
    BY <2>1 DEF PoliteInv, StoreInv, RotationsLookBack
  <2>3. files[n].mtime \in Nat /\ rotation[r].cutoff \in Int
    BY StoreTypes DEF PoliteInv, PoliteTypeOK
  <2> QED BY <2>2, <2>3
<1> QED BY PoliteInvariant, <1>1, PTL DEF RotationSweepsAll

=============================================================================
