--------------------------- MODULE RobotsCheckProofs ---------------------------
(***************************************************************************)
(* Theorems about RobotsCheck, for any number of coroutines and calls and  *)
(* every TTL and timeout.                                                  *)
(***************************************************************************)
EXTENDS RobotsCheck, TLAPS

USE RobotsAssumption

------------------------------------------------------------------------------
(***************************************************************************)
(* Type correctness.                                                       *)
(***************************************************************************)

LEMMA CallType ==
    ASSUME NEW e \in [Caller -> Call], NEW c \in Caller
    PROVE  /\ e[c].pc \in {"idle", "sent", "replied"} /\ e[c].now \in 0..MaxClock
           /\ e[c].outcome \in Outcome
BY DEF Call

LEMMA TypeStep == TypeOK /\ [Next]_vars => TypeOK'
<1> SUFFICES ASSUME TypeOK, [Next]_vars PROVE TypeOK' OBVIOUS
<1> USE DEF TypeOK
<1>i. Idle \in Call BY DEF Idle, Call, Outcome
<1>1. CASE Tick
  <2>1. clock' \in 0..MaxClock /\ clock + 1 \in -1..MaxClock BY <1>1 DEF Tick
  <2> QED BY <1>1, <2>1 DEF Tick
<1>c. clock \in -1..MaxClock OBVIOUS
<1>2. CASE \E s \in Served : ChangeRobots(s)
  <2>1. seen' \in [Outcome -> -1..MaxClock] BY <1>c, <1>2 DEF ChangeRobots
  <2> QED BY <1>2, <2>1 DEF ChangeRobots
<1>3. ASSUME NEW c \in Caller, Begin(c)
      PROVE  calls' \in [Caller -> 0..MaxCalls]
  BY <1>3 DEF Begin
<1>4. ASSUME NEW c \in Caller, NEW allowed \in BOOLEAN, Return(c, allowed)
      PROVE  answer' \in [Caller -> BOOLEAN] /\ call' \in [Caller -> Call]
  BY <1>4, <1>i DEF Return
<1>5. ASSUME NEW c \in Caller, AnswerFromCache(c) PROVE TypeOK'
  BY <1>3, <1>4, <1>5 DEF AnswerFromCache, CanFetch
<1>6. ASSUME NEW c \in Caller, Request(c) PROVE TypeOK'
  <2>1. call' \in [Caller -> Call] BY <1>6 DEF Request, Call
  <2> QED BY <1>3, <1>6, <2>1 DEF Request
<1>7. ASSUME NEW c \in Caller, Reply(c) PROVE TypeOK'
  <2>1. PICK outcome \in {robots, "error"} :
          /\ call' = [call EXCEPT ![c].pc = "replied", ![c].outcome = outcome]
          /\ seen' = [seen EXCEPT ![outcome] = clock]
    BY <1>7 DEF Reply
  <2>2. outcome \in Outcome BY DEF Outcome
  <2>3. call' \in [Caller -> Call] BY <2>1, <2>2 DEF Call
  <2>4. seen' \in [Outcome -> -1..MaxClock] BY <1>c, <2>1
  <2> QED BY <1>7, <2>3, <2>4 DEF Reply
<1>8. ASSUME NEW c \in Caller, ResponseParsed(c) \/ ResponseAbsent(c) PROVE TypeOK'
  <2>1. CachedParser(c) \in Parser /\ call[c].now \in 0..MaxClock
    BY <1>8, CallType DEF ResponseParsed, ResponseAbsent, Arrived, CachedParser, Parser
  <2>2. Expiry(c) \in 0..MaxClock + Ttl BY <2>1 DEF Expiry
  <2>3. cache' \in Entry
    <3>1. cache' = [parser |-> CachedParser(c), expiry |-> Expiry(c)]
      BY <1>8 DEF ResponseParsed, ResponseAbsent, CacheParser
    <3>2. cache' \in [parser: Parser, expiry: 0..MaxClock + Ttl] BY <2>1, <2>2, <3>1
    <3> QED BY <3>2 DEF Entry
  <2> QED
    BY <1>4, <1>8, <2>3 DEF ResponseParsed, ResponseAbsent, CanFetch
<1>9. ASSUME NEW c \in Caller, ResponseError(c) PROVE TypeOK'
  BY <1>4, <1>9 DEF ResponseError
<1>10. CASE UNCHANGED vars BY <1>10 DEF vars
<1> QED BY <1>1, <1>2, <1>5, <1>6, <1>7, <1>8, <1>9, <1>10 DEF Next

LEMMA InitType == Init => TypeOK
BY DEF Init, TypeOK, Idle, Call, Outcome, Served, Entry, Missing

\* The cache holds an entry of a known kind with an expiry within a TTL, and
\* the bookkeeping of the calls stays within its ranges (client.py,
\* _robots_cache).
THEOREM TypeCorrect == Spec => []TypeOK
BY InitType, TypeStep, PTL DEF Spec

------------------------------------------------------------------------------
(***************************************************************************)
(* The inductive invariant.  An outcome was there at an instant no earlier *)
(* than the one its call read from the clock; that instant dates the cache *)
(* entry, too, whichever response wrote it last.                           *)
(***************************************************************************)

SeenIsPast == \A o \in Outcome : seen[o] <= clock

CallsAreYoung ==
    \A c \in Caller : call[c].pc # "idle" =>
        call[c].now <= clock /\ clock <= call[c].now + Timeout

OutcomesWereSeen ==
    \A c \in Caller : call[c].pc = "replied" => seen[call[c].outcome] >= call[c].now

\* What the host served when a parser was made of it.
OutcomeOf(parser) == IF parser = "unparsed" THEN "absent" ELSE parser

CacheWasSeen ==
    cache # Missing => /\ cache.expiry >= Ttl
                       /\ seen[OutcomeOf(cache.parser)] >= cache.expiry - Ttl

RobotsInv == TypeOK /\ SeenIsPast /\ CallsAreYoung /\ OutcomesWereSeen /\ CacheWasSeen

\* The outcomes of the calls and of the cache are seen no earlier afterwards.
LEMMA SeenGrows ==
    ASSUME RobotsInv, [Next]_vars
    PROVE  \A o \in Outcome : seen[o] <= seen'[o]
<1>1. seen \in [Outcome -> Int] /\ clock \in Nat /\ \A o \in Outcome : seen[o] <= clock
  BY DEF RobotsInv, TypeOK, SeenIsPast
<1>2. CASE Tick BY <1>1, <1>2 DEF Tick
<1>3. CASE \E s \in Served : ChangeRobots(s) BY <1>1, <1>3 DEF ChangeRobots
<1>4. ASSUME NEW c \in Caller, Reply(c) PROVE \A o \in Outcome : seen[o] <= seen'[o]
  BY <1>1, <1>4 DEF Reply
<1>5. ASSUME NEW c \in Caller,
             \/ AnswerFromCache(c) \/ Request(c) \/ ResponseParsed(c)
             \/ ResponseAbsent(c) \/ ResponseError(c)
      PROVE  seen' = seen
  BY <1>5 DEF AnswerFromCache, Request, ResponseParsed, ResponseAbsent, ResponseError
<1>6. CASE UNCHANGED vars BY <1>1, <1>6 DEF vars
<1> QED BY <1>1, <1>2, <1>3, <1>4, <1>5, <1>6 DEF Next

LEMMA EntryType ==
    ASSUME TypeOK, cache # Missing
    PROVE  /\ cache.parser \in Parser /\ cache.expiry \in Nat
           /\ OutcomeOf(cache.parser) \in Outcome
BY DEF TypeOK, Entry, Parser, OutcomeOf, Outcome, Served

LEMMA RobotsStep == RobotsInv /\ [Next]_vars => RobotsInv'
<1> SUFFICES ASSUME RobotsInv, [Next]_vars PROVE RobotsInv' OBVIOUS
<1>1. TypeOK /\ TypeOK' BY TypeStep DEF RobotsInv
<1>2. /\ \A o \in Outcome : seen[o] \in Int /\ seen'[o] \in Int /\ seen[o] <= seen'[o]
      /\ clock \in Nat /\ call \in [Caller -> Call] /\ Timeout \in Nat
      /\ \A c \in Caller : call[c].now \in Nat /\ call[c].outcome \in Outcome
  BY <1>1, SeenGrows, CallType DEF TypeOK
<1>3. SeenIsPast /\ CallsAreYoung /\ OutcomesWereSeen /\ CacheWasSeen BY DEF RobotsInv
<1>4. ASSUME cache' = cache PROVE CacheWasSeen'
  <2> SUFFICES ASSUME cache # Missing
               PROVE  /\ cache.expiry >= Ttl
                      /\ seen'[OutcomeOf(cache.parser)] >= cache.expiry - Ttl
    BY <1>4 DEF CacheWasSeen
  <2>1. cache.expiry \in Nat /\ OutcomeOf(cache.parser) \in Outcome BY <1>1, EntryType
  <2> QED BY <1>2, <1>3, <2>1 DEF CacheWasSeen
<1>5. ASSUME NEW c \in Caller, clock' = clock, \A d \in Caller \ {c} : call'[d] = call[d],
             call'[c].pc = "idle"
      PROVE  CallsAreYoung' /\ OutcomesWereSeen'
  BY <1>2, <1>3, <1>5 DEF CallsAreYoung, OutcomesWereSeen
<1>6. ASSUME NEW c \in Caller, NEW allowed, Return(c, allowed)
      PROVE  (\A d \in Caller \ {c} : call'[d] = call[d]) /\ call'[c].pc = "idle"
  BY <1>2, <1>6 DEF Return, Idle
<1>7. ASSUME clock' = clock, seen' = seen PROVE SeenIsPast'
  BY <1>3, <1>7 DEF SeenIsPast
<1>8. CASE Tick
  <2>1. SeenIsPast' BY <1>1, <1>2, <1>3, <1>8 DEF Tick, SeenIsPast, TypeOK
  <2>2. CallsAreYoung' BY <1>2, <1>3, <1>8 DEF Tick, CallsAreYoung
  <2>3. OutcomesWereSeen' BY <1>2, <1>3, <1>8 DEF Tick, OutcomesWereSeen
  <2> QED BY <1>1, <1>4, <1>8, <2>1, <2>2, <2>3 DEF Tick, RobotsInv
<1>9. CASE \E s \in Served : ChangeRobots(s)
  <2>1. SeenIsPast' BY <1>1, <1>2, <1>3, <1>9 DEF ChangeRobots, SeenIsPast, TypeOK
  <2>2. CallsAreYoung' BY <1>3, <1>9 DEF ChangeRobots, CallsAreYoung
  <2>3. OutcomesWereSeen' BY <1>2, <1>3, <1>9 DEF ChangeRobots, OutcomesWereSeen
  <2> QED BY <1>1, <1>4, <1>9, <2>1, <2>2, <2>3 DEF ChangeRobots, RobotsInv
<1>10. ASSUME NEW c \in Caller, AnswerFromCache(c) \/ ResponseError(c)
       PROVE  RobotsInv'
  <2>1. /\ UNCHANGED <<clock, cache, seen>>
        /\ \E allowed : Return(c, allowed)
    BY <1>10 DEF AnswerFromCache, ResponseError
  <2> QED BY <1>1, <1>4, <1>5, <1>6, <1>7, <2>1 DEF RobotsInv
<1>11. ASSUME NEW c \in Caller, Request(c) PROVE RobotsInv'
  <2>1. /\ UNCHANGED <<clock, cache, seen>>
        /\ \A d \in Caller \ {c} : call'[d] = call[d]
        /\ call'[c].pc = "sent" /\ call'[c].now = clock
    BY <1>2, <1>11 DEF Request, Call
  <2>2. CallsAreYoung' /\ OutcomesWereSeen'
    BY <1>2, <1>3, <2>1 DEF CallsAreYoung, OutcomesWereSeen
  <2> QED BY <1>1, <1>4, <1>7, <2>1, <2>2 DEF RobotsInv
<1>12. ASSUME NEW c \in Caller, Reply(c) PROVE RobotsInv'
  <2>1. PICK outcome \in {robots, "error"} :
          /\ call' = [call EXCEPT ![c].pc = "replied", ![c].outcome = outcome]
          /\ seen' = [seen EXCEPT ![outcome] = clock]
    BY <1>12 DEF Reply
  <2>2. /\ UNCHANGED <<clock, cache>> /\ outcome \in Outcome /\ call[c].pc = "sent"
    BY <1>1, <1>12 DEF Reply, TypeOK, Outcome
  <2>3. /\ \A d \in Caller \ {c} : call'[d] = call[d]
        /\ call'[c].now = call[c].now /\ call'[c].outcome = outcome
        /\ seen'[outcome] = clock /\ \A o \in Outcome \ {outcome} : seen'[o] = seen[o]
    BY <1>1, <1>2, <2>1, <2>2 DEF Call, TypeOK
  <2>4. SeenIsPast' BY <1>2, <1>3, <2>2, <2>3 DEF SeenIsPast
  <2>5. CallsAreYoung' BY <1>3, <2>2, <2>3 DEF CallsAreYoung
  <2>6. OutcomesWereSeen' BY <1>2, <1>3, <2>2, <2>3 DEF CallsAreYoung, OutcomesWereSeen
  <2> QED BY <1>1, <1>4, <2>2, <2>4, <2>5, <2>6 DEF RobotsInv
<1>13. ASSUME NEW c \in Caller, ResponseParsed(c) \/ ResponseAbsent(c)
       PROVE  RobotsInv'
  <2>1. /\ UNCHANGED <<clock, seen>> /\ CacheParser(c)
        /\ \E allowed : Return(c, allowed)
        /\ call[c].pc = "replied" /\ call[c].outcome \in Served
    BY <1>13 DEF ResponseParsed, ResponseAbsent, Arrived, Served
  <2>2. OutcomeOf(CachedParser(c)) = call[c].outcome
    BY <2>1 DEF OutcomeOf, CachedParser, Served
  <2>3. cache'.parser = CachedParser(c) /\ cache'.expiry = call[c].now + Ttl
    BY <2>1 DEF CacheParser, Expiry
  <2>4. seen[call[c].outcome] >= call[c].now BY <1>3, <2>1 DEF OutcomesWereSeen
  <2>5. CacheWasSeen' BY <1>2, <2>1, <2>2, <2>3, <2>4 DEF CacheWasSeen, OutcomeOf
  <2> QED BY <1>1, <1>5, <1>6, <1>7, <2>1, <2>5 DEF RobotsInv
<1>14. CASE UNCHANGED vars
  BY <1>14 DEF vars, RobotsInv, TypeOK, SeenIsPast, CallsAreYoung, OutcomesWereSeen,
               CacheWasSeen
<1> QED BY <1>8, <1>9, <1>10, <1>11, <1>12, <1>13, <1>14 DEF Next

\* The inductive invariant holds in every reachable state.
THEOREM Invariant == Spec => []RobotsInv
<1>1. Init => RobotsInv
  BY InitType
  DEF Init, RobotsInv, SeenIsPast, CallsAreYoung, OutcomesWereSeen, CacheWasSeen, Idle
<1> QED BY <1>1, RobotsStep, PTL DEF Spec

\* An answer rests on what the host did less than a TTL before, although an old
\* response can overtake and replace a newer one (client.py, check_robots).
THEOREM RecentAnswers == Spec => AnswersAreRecent
<1> DEFINE Basis(c) == IF answer'[c] THEN Recent({"allow", "absent", "error"})
                                    ELSE Recent({"disallow", "absent"})
<1>1. ASSUME RobotsInv, NEW c \in Caller, Returns(c) PROVE Basis(c)
  <2>1. /\ TypeOK /\ SeenIsPast /\ CallsAreYoung /\ OutcomesWereSeen /\ CacheWasSeen
    BY <1>1 DEF RobotsInv
  <2>2. /\ \A o \in Outcome : seen[o] \in Int
        /\ clock \in Nat /\ call[c].now \in Nat /\ call[c].outcome \in Outcome
        /\ answer \in [Caller -> BOOLEAN]
    BY <2>1, CallType DEF TypeOK
  <2>3. CASE AnswerFromCache(c)
    <3>1. /\ cache # Missing /\ clock < cache.expiry
          /\ answer'[c] = (cache.parser = "allow")
      BY <2>2, <2>3 DEF AnswerFromCache, Valid, Return, CanFetch
    <3>2. /\ cache.parser \in Parser /\ cache.expiry \in Nat
          /\ OutcomeOf(cache.parser) \in Outcome
      BY <2>1, <3>1, EntryType
    <3>3. Recent({OutcomeOf(cache.parser)})
      BY <2>1, <2>2, <3>1, <3>2 DEF CacheWasSeen, Recent
    <3> QED BY <3>1, <3>2, <3>3 DEF Recent, OutcomeOf, Parser
  <2>4. CASE ResponseParsed(c) \/ ResponseAbsent(c) \/ ResponseError(c)
    <3>1. /\ call[c].pc = "replied"
          /\ answer'[c] = (call[c].outcome # "disallow")
      BY <2>2, <2>4
      DEF ResponseParsed, ResponseAbsent, ResponseError, Arrived, Return, CanFetch,
          CachedParser
    <3>2. Recent({call[c].outcome})
      BY <2>1, <2>2, <3>1 DEF CallsAreYoung, OutcomesWereSeen, Recent
    <3> QED BY <2>2, <3>1, <3>2 DEF Recent, Outcome, Served
  <2> QED BY <1>1, <2>3, <2>4 DEF Returns
<1>2. RobotsInv /\ [Next]_vars => [\A c \in Caller : Returns(c) => Basis(c)]_vars
  BY <1>1
<1> HIDE DEF Basis
<1>3. Spec => [][\A c \in Caller : Returns(c) => Basis(c)]_vars
  BY Invariant, <1>2, PTL DEF Spec
<1> QED BY <1>3 DEF AnswersAreRecent, Basis
=============================================================================
