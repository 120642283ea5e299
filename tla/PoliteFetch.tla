----------------------------- MODULE PoliteFetch -----------------------------
(***************************************************************************)
(* PoliteHttpClient.get_json and get_bytes for one host: every call takes  *)
(* a token of the rate limiter, whose bucket lives in Redis under the name *)
(* of the host, makes up to MaxAttempts requests, and documents a terminal *)
(* failure in the snapshot store.  Coroutines of one client interleave at  *)
(* awaits; clients live in processes of their own.                         *)
(***************************************************************************)
EXTENDS SnapshotStore

CONSTANTS
    ClientOf,       \* the client, and so the process, of a calling coroutine
    Limit, Period,  \* rate_limit: tokens per period, in clock instants
    MaxAttempts,    \* stop_after_attempt
    Backoff,        \* the shortest wait of wait_random_exponential
    MaxCalls        \* bound: calls altogether

Caller == Author

ASSUME FetchAssumption ==
    /\ IsFiniteSet(Author)
    /\ ClientOf \in [Author -> Process]
    /\ Limit \in Nat \ {0}
    /\ Period \in Nat \ {0}
    /\ MaxAttempts \in Nat \ {0}
    /\ Backoff \in Nat
    /\ MaxCalls \in Nat

VARIABLES
    limiter,    \* limiter[p]: _limiter is set in the client of process p
    call,       \* call[c]: the running call of coroutine c
    calls,      \* how many calls have begun
    granted     \* granted[c][t]: tokens of c in the bucket with timestamp t

\* History: the tokens that came into the bucket in the order of their timestamps;
\* requests sent at an instant; calls that failed, by whom and when, and whether
\* their snapshot was written.
VARIABLES ordered, sent, failures

bucketVars == <<granted, ordered>>
fetchVars == <<limiter, call, calls, bucketVars, sent, failures>>
vars == <<storeVars, fetchVars>>

\* after: the earliest instant of the next attempt; the timestamp of a token that
\* is asked for; of a failed call, when it failed.
NoCall == [pc |-> "idle", attempt |-> 0, after |-> 0]
Call   == [pc: {"idle", "init", "acquire", "stamped", "send", "await", "failed"},
           attempt: 0..MaxAttempts, after: 0..MaxClock + Backoff]

Tokens == [Caller -> [Name -> Nat]]

PoliteTypeOK ==
    /\ StoreTypeOK
    /\ limiter \in [Process -> BOOLEAN]
    /\ call \in [Caller -> Call]
    /\ calls \in 0..MaxCalls
    /\ granted \in Tokens /\ ordered \in Tokens
    /\ sent \in [Name -> Nat]
    /\ failures \subseteq [by: Caller, at: Name, written: BOOLEAN]

Init ==
    /\ StoreInit
    /\ limiter = [p \in Process |-> FALSE]
    /\ call = [c \in Caller |-> NoCall]
    /\ calls = 0
    /\ granted = [c \in Caller |-> [t \in Name |-> 0]]
    /\ ordered = granted
    /\ sent = [t \in Name |-> 0]
    /\ failures = {}

------------------------------------------------------------------------------
\* write_jsonld never awaits: while it runs, its process runs nothing else.
Running(c, label) == call[c].pc = label /\ writer[ClientOf[c]].pc = "idle"

Goto(c, label) == call' = [call EXCEPT ![c].pc = label]

\* _fetch_with_retry begins; the limiter may not be there yet.
Begin(c) ==
    /\ Running(c, "idle") /\ calls < MaxCalls
    /\ calls' = calls + 1
    /\ Goto(c, IF limiter[ClientOf[c]] THEN "acquire" ELSE "init")
    /\ UNCHANGED <<storeVars, limiter, bucketVars, sent, failures>>

\* RedisBucket.init returns.  Coroutines that began before this all get here,
\* and each makes a Limiter of its own over a bucket of its own.
LimiterReady(c) ==
    /\ Running(c, "init")
    /\ limiter' = [limiter EXCEPT ![ClientOf[c]] = TRUE]
    /\ Goto(c, "acquire")
    /\ UNCHANGED <<storeVars, calls, bucketVars, sent, failures>>

\* Redis cannot be reached: the exception leaves the call before the request,
\* and no snapshot is written.
LimiterFailed(c) ==
    /\ Running(c, "init") \/ Running(c, "acquire") \/ Running(c, "stamped")
    /\ call' = [call EXCEPT ![c] = NoCall]
    /\ UNCHANGED <<storeVars, limiter, calls, bucketVars, sent, failures>>

\* Variant: the tokens of a bucket that a client keeps to itself.
BucketOfClient(c) == {d \in Caller : ClientOf[d] = ClientOf[c]}

\* The coroutines whose limiters share a bucket with c's: the key rl:{host}
\* is the same for every Limiter of every client of the host.
Sharing(c) == Caller

\* The given tokens of callers from instant first to last, one by one.
TokensOf(given, callers, first, last) ==
    UNION {{<<c, t>>} \X (1..given[c][t]) : c \in callers, t \in (first..last) \cap Name}

\* try_acquire_async asks for a token: the limiter takes its timestamp in the
\* client, before the script in Redis runs.
StampToken(c) ==
    /\ Running(c, "acquire")
    /\ call' = [call EXCEPT ![c].pc = "stamped", ![c].after = clock]
    /\ UNCHANGED <<storeVars, limiter, calls, bucketVars, sent, failures>>

\* The script counts the tokens of the period before the timestamp, not those
\* that overtook it.
HasRoom(c) ==
    LET stamp == call[c].after
    IN Cardinality(TokensOf(granted, Sharing(c), stamp - Period, stamp)) < Limit

Given(tokens, c, stamp) == [tokens EXCEPT ![c][stamp] = @ + 1]

Overtaken(stamp) == \E d \in Caller, t \in Name : t > stamp /\ granted[d][t] > 0

AcquireToken(c) ==
    LET stamp == call[c].after
    IN /\ Running(c, "stamped") /\ HasRoom(c)
       /\ granted' = Given(granted, c, stamp)
       /\ ordered' = IF Overtaken(stamp) THEN ordered ELSE Given(ordered, c, stamp)
       /\ call' = [call EXCEPT ![c] = [pc |-> "send", attempt |-> 0, after |-> clock]]
       /\ UNCHANGED <<storeVars, limiter, calls, sent, failures>>

\* A full bucket: the limiter waits and asks again.
TokenRefused(c) ==
    /\ Running(c, "stamped") /\ ~HasRoom(c)
    /\ Goto(c, "acquire")
    /\ UNCHANGED <<storeVars, limiter, calls, bucketVars, sent, failures>>

\* An attempt; tenacity has slept between two of them.
Send(c) ==
    /\ Running(c, "send")
    /\ call[c].after <= clock
    /\ call' = [call EXCEPT ![c].pc = "await", ![c].attempt = @ + 1]
    /\ sent' = [sent EXCEPT ![clock] = @ + 1]
    /\ UNCHANGED <<storeVars, limiter, calls, bucketVars, failures>>

\* 200 with a readable body, or 304: the call returns.
Answered(c) ==
    /\ Running(c, "await")
    /\ call' = [call EXCEPT ![c] = NoCall]
    /\ UNCHANGED <<storeVars, limiter, calls, bucketVars, sent, failures>>

\* Variant: no stop condition.
RetryForever(c) ==
    /\ Running(c, "await")
    /\ call' = [call EXCEPT ![c].pc = "send", ![c].after = clock + Backoff]
    /\ UNCHANGED <<storeVars, limiter, calls, bucketVars, sent, failures>>

\* HTTPStatusError (any 4xx or 5xx) or TimeoutException before the last attempt.
Retry(c) ==
    /\ Running(c, "await")
    /\ call[c].attempt < MaxAttempts
    /\ call' = [call EXCEPT ![c].pc = "send", ![c].after = clock + Backoff]
    /\ UNCHANGED <<storeVars, limiter, calls, bucketVars, sent, failures>>

Failure(c, at, written) == [by |-> c, at |-> at, written |-> written]

\* That exception in the last attempt, or another one (no connection, a body
\* that is not JSON) in any: _write_failure_snapshot takes the time and calls
\* write_jsonld.
Fail(c) ==
    /\ Running(c, "await")
    /\ call' = [call EXCEPT ![c].pc = "failed", ![c].after = clock]
    /\ NameSnapshot(ClientOf[c], c)
    /\ failures' = failures \cup {Failure(c, clock, FALSE)}
    /\ UNCHANGED <<clock, files, rotation, faults>>
    /\ UNCHANGED <<limiter, calls, bucketVars, sent>>

Open(c) ==
    /\ call[c].pc = "failed"
    /\ OpenSnapshot(ClientOf[c])
    /\ UNCHANGED <<clock, rotation, faults>> /\ UNCHANGED fetchVars

\* The snapshot is written and the exception raised.
Raise(c) ==
    /\ call[c].pc = "failed"
    /\ failures' = (failures \ {Failure(c, call[c].after, FALSE)})
                      \cup {Failure(c, call[c].after, TRUE)}
    /\ WriteSnapshot(ClientOf[c])
    /\ call' = [call EXCEPT ![c] = NoCall]
    /\ UNCHANGED <<clock, rotation, faults>>
    /\ UNCHANGED <<limiter, calls, bucketVars, sent>>

\* An exception while writing is swallowed, and the first one raised.
RaiseUndocumented(c) ==
    /\ call[c].pc = "failed"
    /\ AbandonSnapshot(ClientOf[c])
    /\ call' = [call EXCEPT ![c] = NoCall]
    /\ UNCHANGED <<clock, files, rotation>>
    /\ UNCHANGED <<limiter, calls, bucketVars, sent, failures>>

\* The process of a client dies, with its calls, its limiter and its write; the
\* bucket in Redis remains.
Crash(p) ==
    /\ faults < MaxFaults
    /\ \E c \in Caller : ClientOf[c] = p /\ call[c].pc # "idle"
    /\ faults' = faults + 1
    /\ writer' = [writer EXCEPT ![p] = Silent]
    /\ limiter' = [limiter EXCEPT ![p] = FALSE]
    /\ call' = [c \in Caller |-> IF ClientOf[c] = p THEN NoCall ELSE call[c]]
    /\ UNCHANGED <<clock, files, rotation, calls, bucketVars, sent, failures>>

Next ==
    \/ StoreTick /\ UNCHANGED fetchVars
    \/ \E r \in Rotation : Rotate(r) /\ UNCHANGED fetchVars
    \/ \E p \in Process : Crash(p)
    \/ \E c \in Caller : \/ Begin(c) \/ LimiterReady(c) \/ LimiterFailed(c)
                         \/ StampToken(c) \/ AcquireToken(c) \/ TokenRefused(c)
                         \/ Send(c) \/ Answered(c) \/ Retry(c) \/ Fail(c)
                         \/ Open(c) \/ Raise(c) \/ RaiseUndocumented(c)

Spec == Init /\ [][Next]_vars

------------------------------------------------------------------------------
Windows == {t..t + Period : t \in Name}

\* Whatever coroutines race through the lazy initialisation of the limiter,
\* however many clients there are and whichever of them restart: in no window
\* of a period do more than Limit calls to the host go ahead, besides those whose
\* timestamp was overtaken on the way to Redis by that of another call.
TokensWithinRate ==
    \A t \in Name : Cardinality(TokensOf(ordered, Caller, t, t + Period)) <= Limit

\* docs/scraping-policy.md, "a conservative rate limit of 30 requests per minute
\* per host [...] enforced globally across all Celery workers": requests, the
\* repeated ones included.
RequestsWithinRate ==
    \A w \in Windows : Cardinality(UNION {{t} \X (1..sent[t]) : t \in w \cap Name}) <= Limit

\* A failure whose snapshot was written is on the volume, whole, for as long as
\* D-17 says, whatever the rotations and other processes do; unless another call
\* failed into the directory in the same second: then a file of that second is there,
\* though perhaps not a readable one.
FailuresAreDocumented ==
    \A f \in failures : f.written /\ clock <= f.at + MaxAge =>
        /\ files[f.at] # NoFile
        /\ (\A g \in failures \ {f} : g.at # f.at) => files[f.at].content = f.by
=============================================================================
