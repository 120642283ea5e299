----------------------------- MODULE RobotsCheck -----------------------------
(***************************************************************************)
(* PoliteHttpClient.check_robots for one host: coroutines that share one   *)
(* client ask whether the host's robots.txt allows a URL.  The answer      *)
(* comes from the in-memory cache or from a request, and the await on the  *)
(* request lets other coroutines run between the cache lookup and the      *)
(* cache update.                                                           *)
(*                                                                         *)
(* The content of robots.txt is abstracted to its verdict on the URL.      *)
(***************************************************************************)
EXTENDS Integers, FiniteSets

CONSTANTS
    Caller,     \* coroutines that share the client
    Ttl,        \* _robots_ttl, in clock instants
    Timeout,    \* the request's timeout: a call is over after that long
    MaxClock,   \* bound: the last instant
    MaxCalls    \* bound: calls per coroutine

ASSUME RobotsAssumption ==
    /\ Ttl \in Nat \ {0}
    /\ Timeout \in 0..Ttl - 1
    /\ MaxClock \in Nat
    /\ MaxCalls \in Nat

\* What the host serves: a file that allows or disallows the URL, or 404.
Served  == {"allow", "disallow", "absent"}
\* What a request comes to: that, or another status or an exception.
Outcome == Served \cup {"error"}

\* What the parser of a cache entry holds.  RobotFileParser.can_fetch answers
\* False as long as parse() has not run.
Parser == {"allow", "disallow", "unparsed"}

Missing == [parser |-> "none", expiry |-> 0]
Entry   == [parser: Parser, expiry: 0..MaxClock + Ttl] \cup {Missing}

VARIABLES
    clock,
    robots,     \* what the host serves now
    cache,      \* _robots_cache[host]
    call,       \* call[c]: the running call of coroutine c
    answer,     \* answer[c]: the last answer c got
    calls       \* calls[c]: how often c has called

\* History: seen[o] is the latest instant at which a request could come to, or
\* came to, the outcome o; -1 for never.
VARIABLE seen

vars == <<clock, robots, cache, call, answer, calls, seen>>

\* A call is idle; or it has read the clock and awaits a response ("sent");
\* or the response is on its way back ("replied").
Idle == [pc |-> "idle", now |-> 0, outcome |-> "error"]
Call == [pc: {"idle", "sent", "replied"}, now: 0..MaxClock, outcome: Outcome]

TypeOK ==
    /\ clock \in 0..MaxClock
    /\ robots \in Served
    /\ cache \in Entry
    /\ call \in [Caller -> Call]
    /\ answer \in [Caller -> BOOLEAN]
    /\ calls \in [Caller -> 0..MaxCalls]
    /\ seen \in [Outcome -> -1..MaxClock]

Init ==
    /\ clock = 0
    /\ robots \in Served
    /\ cache = Missing
    /\ call = [c \in Caller |-> Idle]
    /\ answer = [c \in Caller |-> TRUE]
    /\ calls = [c \in Caller |-> 0]
    /\ seen = [o \in Outcome |-> IF o = robots THEN 0 ELSE -1]

\* Time passes, but no call outlives its timeout (10 s against 24 h).
Tick ==
    /\ clock < MaxClock
    /\ \A c \in Caller : call[c].pc # "idle" => clock < call[c].now + Timeout
    /\ clock' = clock + 1
    /\ seen' = [seen EXCEPT ![robots] = clock + 1]
    /\ UNCHANGED <<robots, cache, call, answer, calls>>

\* The host replaces, removes or restores its robots.txt.
ChangeRobots(s) ==
    /\ s # robots
    /\ robots' = s
    /\ seen' = [seen EXCEPT ![s] = clock]
    /\ UNCHANGED <<clock, cache, call, answer, calls>>

------------------------------------------------------------------------------
\* Variant: an entry never expires.
EverValid == cache # Missing

Valid == cache # Missing /\ clock < cache.expiry

CanFetch(parser) == parser = "allow"

\* A call begins by reading the clock and looking the host up.
Begin(c) ==
    /\ call[c].pc = "idle" /\ calls[c] < MaxCalls
    /\ calls' = [calls EXCEPT ![c] = @ + 1]

Return(c, allowed) == /\ answer' = [answer EXCEPT ![c] = allowed]
                      /\ call' = [call EXCEPT ![c] = Idle]

\* The cache answers at once.
AnswerFromCache(c) ==
    /\ Begin(c)
    /\ Valid
    /\ Return(c, CanFetch(cache.parser))
    /\ UNCHANGED <<clock, robots, cache, seen>>

\* A missing or expired entry: the request is sent.
Request(c) ==
    /\ Begin(c)
    /\ ~Valid
    /\ call' = [call EXCEPT ![c].pc = "sent", ![c].now = clock]
    /\ UNCHANGED <<clock, robots, cache, answer, seen>>

\* The host answers, or the request fails; the outcome travels back while time
\* passes and other responses overtake it.
Reply(c) ==
    /\ call[c].pc = "sent"
    /\ \E outcome \in {robots, "error"} :
          /\ call' = [call EXCEPT ![c].pc = "replied", ![c].outcome = outcome]
          /\ seen' = [seen EXCEPT ![outcome] = clock]
    /\ UNCHANGED <<clock, robots, cache, answer, calls>>

Arrived(c, outcomes) == call[c].pc = "replied" /\ call[c].outcome \in outcomes

\* Variant: the verdict of the response is cached, the one of a 404 included.
CachedVerdict(c) == call[c].outcome

\* The parser of this call: only a 200 feeds it.
CachedParser(c) == IF call[c].outcome = "absent" THEN "unparsed" ELSE call[c].outcome

\* Variant: the entry is dated by the arrival of the response.
ExpiryOnArrival(c) == clock + Ttl

\* The clock was read before the request was sent.
Expiry(c) == call[c].now + Ttl

CacheParser(c) == cache' = [parser |-> CachedParser(c), expiry |-> Expiry(c)]

\* 200: the file is parsed, cached and consulted.
ResponseParsed(c) ==
    /\ Arrived(c, {"allow", "disallow"})
    /\ CacheParser(c)
    /\ Return(c, CanFetch(CachedParser(c)))
    /\ UNCHANGED <<clock, robots, calls, seen>>

\* 404: the answer is True, and the parser that never parsed is cached.
ResponseAbsent(c) ==
    /\ Arrived(c, {"absent"})
    /\ CacheParser(c)
    /\ Return(c, TRUE)
    /\ UNCHANGED <<clock, robots, calls, seen>>

\* Another status or an exception: the answer is True and nothing is cached.
ResponseError(c) ==
    /\ Arrived(c, {"error"})
    /\ Return(c, TRUE)
    /\ UNCHANGED <<clock, robots, cache, calls, seen>>

Next ==
    \/ Tick
    \/ \E s \in Served : ChangeRobots(s)
    \/ \E c \in Caller : \/ AnswerFromCache(c)
                         \/ Request(c)
                         \/ Reply(c)
                         \/ ResponseParsed(c)
                         \/ ResponseAbsent(c)
                         \/ ResponseError(c)

Spec == Init /\ [][Next]_vars

------------------------------------------------------------------------------
Returns(c) == \/ AnswerFromCache(c) \/ ResponseParsed(c)
              \/ ResponseAbsent(c) \/ ResponseError(c)

Recent(outcomes) == \E o \in outcomes : seen[o] >= 0 /\ clock - seen[o] < Ttl

\* An answer of check_robots rests on what the host did less than a TTL before:
\* a coroutine goes ahead only if in that time the host allowed it, had no
\* robots.txt or failed, and holds back only if the host disallowed it or had
\* none, although responses overtake each other and an old verdict can replace
\* a newer one in the cache.
AnswersAreRecent ==
    [][\A c \in Caller : Returns(c) =>
          IF answer'[c] THEN Recent({"allow", "absent", "error"})
                        ELSE Recent({"disallow", "absent"})]_vars

\* check_robots, "Returns True if robots.txt is absent (404)": a host that never
\* had a robots.txt is never refused.
AbsentIsAllowed ==
    (seen["allow"] = -1 /\ seen["disallow"] = -1) => \A c \in Caller : answer[c]
=============================================================================
