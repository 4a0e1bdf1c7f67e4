----------------------------- MODULE AskingProofs -----------------------------
(***************************************************************************)
(* Proofs about RateLimiter and Asking, for any requests, window, limits   *)
(* and length of a history.                                                *)
(***************************************************************************)
EXTENDS Asking, FiniteSetTheorems, TLAPS

------------------------------------------------------------------------------
(* The limiter.  Within the running minute its counter is at least the     *)
(* number of requests it has counted: the key cannot go before the minute  *)
(* does, because whoever set its life did so within it, and for a minute.  *)

Timely(m) == {r \in Requests : timely[r] /\ minute[r] = m}

\* Those of them that are let through, or will be unless EXPIRE fails.
Passed(m) ==
    {r \in Requests : /\ timely[r] /\ minute[r] = m
                      /\ gate[r] = "admitted" \/ (gate[r] = "first" /\ 1 <= Limit)}

LimiterInv ==
    /\ LimiterTypeOK
    /\ \A r \in Requests : minute[r] <= now
    /\ \A r \in Requests : gate[r] \in {"new", "counting"} => ~timely[r]
    /\ \A m \in Minutes : m > now => ttl[m] = 0
    /\ ttl[now] > 0 => ttl[now] + second >= Window
    /\ Cardinality(Timely(now)) <= count[now]
    /\ \A m \in Minutes : Cardinality(Passed(m)) <= Limit

\* The requests of a minute are finitely many.
LEMMA CountedFinite ==
    ASSUME NEW m
    PROVE  /\ IsFiniteSet(Timely(m)) /\ Cardinality(Timely(m)) \in Nat
           /\ IsFiniteSet(Passed(m)) /\ Cardinality(Passed(m)) \in Nat
           /\ Cardinality(Passed(m)) <= Cardinality(Timely(m))
<1>1. Timely(m) \subseteq Requests /\ Passed(m) \subseteq Timely(m)
    BY DEF Timely, Passed
<1>2. IsFiniteSet(Timely(m)) /\ Cardinality(Timely(m)) \in Nat
    BY <1>1, LimiterAssumption, FS_Subset, FS_CardinalityType
<1> QED BY <1>1, <1>2, FS_Subset, FS_CardinalityType

\* Nothing is counted at first.
LEMMA LimiterStarts == LimiterInit => LimiterInv
<1> SUFFICES ASSUME LimiterInit PROVE LimiterInv OBVIOUS
<1>1. LimiterTypeOK
    BY LimiterAssumption DEF LimiterInit, LimiterTypeOK, Minutes, Gates
<1>2. \A m \in Minutes : Timely(m) = {} /\ Passed(m) = {}
    BY DEF LimiterInit, Timely, Passed
<1>3. now \in Minutes /\ count[now] = 0
    BY LimiterAssumption DEF LimiterInit, Minutes
<1>4. Cardinality(Timely(now)) <= count[now]
    BY <1>2, <1>3, FS_EmptySet
<1>5. \A m \in Minutes : Cardinality(Passed(m)) <= Limit
    BY <1>2, FS_EmptySet, LimiterAssumption
<1>6. \A r \in Requests : minute[r] <= now
    BY DEF LimiterInit
<1>7. \A r \in Requests : gate[r] \in {"new", "counting"} => ~timely[r]
    BY DEF LimiterInit
<1>8. /\ \A m \in Minutes : m > now => ttl[m] = 0
      /\ ttl[now] > 0 => ttl[now] + second >= Window
    BY <1>3 DEF LimiterInit
<1> QED BY <1>1, <1>4, <1>5, <1>6, <1>7, <1>8 DEF LimiterInv

\* Time goes by: a key of the running minute stays as long as the minute.
LEMMA TickKeepsLimit == LimiterInv /\ Tick => LimiterInv'
<1> SUFFICES ASSUME LimiterInv, Tick PROVE LimiterInv' OBVIOUS
<1>0. LimiterTypeOK BY DEF LimiterInv
<1>1. LimiterTypeOK'
  <2>1. now' \in Minutes /\ second' \in 0 .. Window - 1
      BY <1>0, LimiterAssumption DEF Tick, LimiterTypeOK, Minutes
  <2>2. count' \in [Minutes -> Nat] /\ ttl' \in [Minutes -> Nat]
    <3>1. \A m \in Minutes : count[m] \in Nat /\ ttl[m] \in Nat
        BY <1>0 DEF LimiterTypeOK
    <3> QED BY <3>1 DEF Tick
  <2> QED BY <1>0, <2>1, <2>2 DEF Tick, LimiterTypeOK
<1>2. now' = now \/ now' = now + 1
    BY DEF Tick
<1>3. \A r \in Requests : minute'[r] <= now'
    BY <1>0, <1>2 DEF Tick, LimiterInv, LimiterTypeOK, Minutes
<1>4. \A r \in Requests : gate'[r] \in {"new", "counting"} => ~timely'[r]
    BY DEF Tick, LimiterInv
<1>5. \A m \in Minutes : m > now' => ttl'[m] = 0
    BY <1>0, <1>2 DEF Tick, LimiterInv, LimiterTypeOK, Minutes
<1>6. now \in Minutes /\ now' \in Minutes
    BY <1>0, <1>1 DEF LimiterTypeOK
<1>7. ttl'[now'] > 0 => ttl'[now'] + second' >= Window
  <2>1. CASE second < Window - 1 /\ second' = second + 1 /\ now' = now
      BY <1>0, <1>6, <2>1, LimiterAssumption DEF Tick, LimiterInv, LimiterTypeOK, Minutes
  <2>2. CASE second = Window - 1 /\ second' = 0 /\ now' = now + 1
      BY <1>0, <1>6, <2>2, LimiterAssumption DEF Tick, LimiterInv, LimiterTypeOK, Minutes
  <2> QED BY <2>1, <2>2 DEF Tick
<1>8. Cardinality(Timely(now))' <= count'[now']
  <2>1. CASE second < Window - 1 /\ second' = second + 1 /\ now' = now
    <3>1. Timely(now)' = Timely(now)
        BY <2>1 DEF Tick, Timely
    <3>2. ttl[now] # 1
        BY <1>0, <1>6, <2>1, LimiterAssumption DEF LimiterInv, LimiterTypeOK
    <3>3. count'[now'] = count[now]
        BY <1>6, <2>1, <3>2 DEF Tick
    <3> QED BY <3>1, <3>3 DEF LimiterInv
  <2>2. CASE second = Window - 1 /\ second' = 0 /\ now' = now + 1
    <3>1. Timely(now)' = {}
        BY <1>0, <2>2 DEF Tick, Timely, LimiterInv, LimiterTypeOK, Minutes
    <3>2. count'[now'] \in Nat
        BY <1>1, <1>6 DEF LimiterTypeOK
    <3> QED BY <3>1, <3>2, FS_EmptySet
  <2> QED BY <2>1, <2>2 DEF Tick
<1>9. \A m \in Minutes : Cardinality(Passed(m))' <= Limit
  <2>1. \A m \in Minutes : Passed(m)' = Passed(m)
      BY DEF Tick, Passed
  <2> QED BY <2>1 DEF LimiterInv
<1> QED BY <1>1, <1>3, <1>4, <1>5, <1>7, <1>8, <1>9 DEF LimiterInv

\* The steps that count nobody.
LEMMA CommandsKeepLimit ==
    ASSUME NEW r \in Requests, LimiterInv, ReadClock(r) \/ Expire(r) \/ CommandFails(r)
    PROVE  LimiterInv'
<1>0. LimiterTypeOK BY DEF LimiterInv
<1>1. LifeTime \in Nat /\ LifeTime = Window
    BY LimiterAssumption DEF LifeTime
<1>2. minute[r] \in Minutes /\ now \in Minutes
    BY <1>0 DEF LimiterTypeOK
<1>3. LimiterTypeOK'
  <2>1. ttl' \in [Minutes -> Nat] /\ count' \in [Minutes -> Nat]
      BY <1>0, <1>1, <1>2 DEF ReadClock, Expire, CommandFails, Expiring, LimiterTypeOK
  <2>2. gate' \in [Requests -> Gates] /\ minute' \in [Requests -> Minutes]
      BY <1>0, <1>2 DEF ReadClock, Expire, CommandFails, Verdict, LimiterTypeOK, Gates
  <2>3. UNCHANGED <<now, second, timely>>
      BY DEF ReadClock, Expire, CommandFails
  <2> QED BY <1>0, <2>1, <2>2, <2>3 DEF LimiterTypeOK
<1>4. UNCHANGED <<now, second, timely>>
    BY DEF ReadClock, Expire, CommandFails
<1>5. \A s \in Requests : minute'[s] <= now'
  <2>1. \A s \in Requests : minute'[s] = minute[s] \/ minute'[s] = now
      BY <1>0 DEF LimiterTypeOK, ReadClock, Expire, CommandFails
  <2>2. now <= now
      BY <1>2, LimiterAssumption DEF Minutes
  <2> QED BY <1>4, <2>1, <2>2 DEF LimiterInv
<1>6. \A s \in Requests : gate'[s] \in {"new", "counting"} => ~timely'[s]
    BY <1>0, <1>4 DEF LimiterInv, LimiterTypeOK, ReadClock, Expire, CommandFails, Verdict
<1>7. \A m \in Minutes : ttl'[m] = ttl[m] \/ (m = minute[r] /\ ttl'[m] = Window)
    BY <1>0, <1>1, <1>2 DEF LimiterTypeOK, ReadClock, Expire, CommandFails, Expiring
<1>8. /\ \A m \in Minutes : m > now' => ttl'[m] = 0
      /\ ttl'[now'] > 0 => ttl'[now'] + second' >= Window
  <2>1. /\ minute[r] <= now /\ now \in Nat /\ minute[r] \in Nat /\ second \in Nat /\ Window \in Nat
        /\ \A m \in Minutes : m \in Nat
      BY <1>0, <1>2, LimiterAssumption DEF LimiterInv, LimiterTypeOK, Minutes
  <2>2. \A m \in Minutes : m > now' => ttl'[m] = 0
      BY <1>4, <1>7, <2>1 DEF LimiterInv
  <2>3. ttl'[now] > 0 => ttl'[now] + second >= Window
    <3>1. CASE ttl'[now] = ttl[now] BY <3>1 DEF LimiterInv
    <3>2. CASE ttl'[now] = Window BY <2>1, <3>2
    <3> QED BY <1>2, <1>7, <3>1, <3>2
  <2> QED BY <1>4, <2>2, <2>3
<1>9. \A s \in Requests : timely[s] => minute'[s] = minute[s]
    BY <1>0 DEF LimiterInv, LimiterTypeOK, ReadClock, Expire, CommandFails
<1>10. Cardinality(Timely(now))' <= count'[now']
  <2>1. Timely(now)' = Timely(now)
      BY <1>4, <1>9 DEF Timely
  <2>2. count'[now] >= count[now]
      BY <1>0, <1>2 DEF LimiterTypeOK, ReadClock, Expire, CommandFails
  <2>3. Cardinality(Timely(now)) \in Nat /\ count[now] \in Nat /\ count'[now] \in Nat
      BY <1>0, <1>2, <1>3, CountedFinite DEF LimiterTypeOK
  <2> QED BY <1>4, <2>1, <2>2, <2>3 DEF LimiterInv
<1>11. ASSUME NEW m \in Minutes PROVE Cardinality(Passed(m))' <= Limit
  <2>1. Passed(m)' \subseteq Passed(m)
    <3> SUFFICES ASSUME NEW s \in Requests, timely'[s], minute'[s] = m,
                        gate'[s] = "admitted" \/ (gate'[s] = "first" /\ 1 <= Limit)
                 PROVE  /\ timely[s] /\ minute[s] = m
                        /\ gate[s] = "admitted" \/ (gate[s] = "first" /\ 1 <= Limit)
        BY DEF Passed
    <3>1. timely[s] /\ minute[s] = m BY <1>4, <1>9
    <3>2. gate[s] = "admitted" \/ (gate[s] = "first" /\ 1 <= Limit)
        BY <1>0, LimiterAssumption DEF LimiterTypeOK, ReadClock, Expire, CommandFails, Verdict
    <3> QED BY <3>1, <3>2
  <2>2. PICK P : P = Passed(m)' OBVIOUS
  <2>3. Cardinality(P) <= Cardinality(Passed(m)) /\ Cardinality(P) \in Nat
      BY <2>1, <2>2, CountedFinite, FS_Subset, FS_CardinalityType
  <2>4. Cardinality(Passed(m)) <= Limit /\ Cardinality(Passed(m)) \in Nat
      BY CountedFinite DEF LimiterInv
  <2>5. Cardinality(P) <= Limit BY <2>3, <2>4, LimiterAssumption
  <2> QED BY <2>2, <2>5
<1> QED BY <1>3, <1>5, <1>6, <1>8, <1>10, <1>11 DEF LimiterInv

\* A request is counted: it is let through only if the counter, and with it
\* the number of those let through before, was below the limit.
LEMMA IncrKeepsLimit ==
    ASSUME NEW r \in Requests, LimiterInv, Incr(r)
    PROVE  LimiterInv'
<1>0. LimiterTypeOK BY DEF LimiterInv
<1>1. minute[r] \in Minutes /\ now \in Minutes /\ count[minute[r]] \in Nat
    BY <1>0 DEF LimiterTypeOK
<1>2. LimiterTypeOK'
    BY <1>0, <1>1 DEF LimiterTypeOK, Incr, Verdict, Gates
<1>3. ~timely[r] /\ UNCHANGED <<now, second, ttl, minute>>
    BY DEF LimiterInv, Incr
<1>4. PICK n \in Nat : n = count[minute[r]] + 1
    BY <1>1
<1>5. /\ count' = [count EXCEPT ![minute[r]] = n]
      /\ gate' = [gate EXCEPT ![r] = IF n = 1 THEN "first" ELSE Verdict(n)]
      /\ timely' = [timely EXCEPT ![r] = minute[r] = now]
    BY <1>4 DEF Incr
<1>6. \A s \in Requests : minute'[s] <= now'
    BY <1>3 DEF LimiterInv
<1>7. \A s \in Requests : gate'[s] \in {"new", "counting"} => ~timely'[s]
    BY <1>0, <1>5 DEF LimiterInv, LimiterTypeOK, Verdict
<1>8. /\ \A m \in Minutes : m > now' => ttl'[m] = 0
      /\ ttl'[now'] > 0 => ttl'[now'] + second' >= Window
    BY <1>3 DEF LimiterInv
<1>9. CASE minute[r] # now
  <2>1. \A s \in Requests : timely'[s] = timely[s]
      BY <1>0, <1>3, <1>5, <1>9 DEF LimiterTypeOK
  <2>2. Timely(now)' = Timely(now)
      BY <1>3, <2>1 DEF Timely
  <2>3. count'[now'] = count[now]
      BY <1>0, <1>1, <1>3, <1>5, <1>9 DEF LimiterTypeOK
  <2>4. \A m \in Minutes : Passed(m)' = Passed(m)
      BY <1>0, <1>3, <1>5, <2>1 DEF Passed, LimiterTypeOK
  <2>5. /\ Cardinality(Timely(now))' <= count'[now']
        /\ \A m \in Minutes : Cardinality(Passed(m))' <= Limit
      BY <2>2, <2>3, <2>4 DEF LimiterInv
  <2> QED BY <1>2, <1>6, <1>7, <1>8, <2>5 DEF LimiterInv
<1>10. CASE minute[r] = now
  <2>1. Timely(now)' = Timely(now) \cup {r} /\ r \notin Timely(now)
      BY <1>0, <1>3, <1>5, <1>10 DEF Timely, LimiterTypeOK
  <2>2. PICK T : T = Timely(now)' OBVIOUS
  <2>3. Cardinality(T) = Cardinality(Timely(now)) + 1
      BY <2>1, <2>2, CountedFinite, FS_AddElement
  <2>4. count'[now'] = count[now] + 1 /\ n = count[now] + 1 /\ count[now] \in Nat
      BY <1>0, <1>1, <1>3, <1>4, <1>5, <1>10 DEF LimiterTypeOK
  <2>5. Cardinality(Timely(now)) <= count[now] /\ Cardinality(Timely(now)) \in Nat
      BY CountedFinite DEF LimiterInv
  <2>6. Cardinality(T) <= count'[now']
      BY <2>3, <2>4, <2>5
  <2>7. ASSUME NEW m \in Minutes PROVE Cardinality(Passed(m))' <= Limit
    <3>1. CASE m = now /\ n <= Limit
      <4>1. Passed(m)' \subseteq T
          BY <2>2, <1>3, <3>1 DEF Passed, Timely
      <4>2. IsFiniteSet(T)
          BY <2>1, <2>2, CountedFinite, FS_AddElement
      <4>3. PICK P : P = Passed(m)' OBVIOUS
      <4>4. Cardinality(P) <= Cardinality(T) /\ Cardinality(P) \in Nat /\ Cardinality(T) \in Nat
          BY <4>1, <4>2, <4>3, FS_Subset, FS_CardinalityType
      <4>5. Cardinality(P) <= Limit
          BY <2>3, <2>4, <2>5, <3>1, <4>4, LimiterAssumption
      <4> QED BY <4>3, <4>5
    <3>2. CASE m # now \/ n > Limit
      <4>1. Passed(m)' = Passed(m)
        <5>1. ASSUME NEW s \in Requests, s # r
              PROVE  gate'[s] = gate[s] /\ timely'[s] = timely[s] /\ minute'[s] = minute[s]
            BY <1>0, <1>3, <1>5, <5>1 DEF LimiterTypeOK
        <5>2. r \notin Passed(m)
            BY <1>3 DEF Passed
        <5>3. gate'[r] = "first" => n = 1
            BY <1>0, <1>5 DEF LimiterTypeOK, Verdict
        <5>4. gate'[r] = "admitted" => n <= Limit
            BY <1>0, <1>5, LimiterAssumption DEF LimiterTypeOK, Verdict
        <5>5. r \notin Passed(m)'
            BY <1>3, <1>10, <3>2, <5>3, <5>4, LimiterAssumption DEF Passed
        <5> QED BY <5>1, <5>2, <5>5 DEF Passed
      <4> QED BY <4>1 DEF LimiterInv
    <3> QED BY <3>1, <3>2, LimiterAssumption
  <2> QED BY <1>2, <1>6, <1>7, <1>8, <2>2, <2>6, <2>7 DEF LimiterInv
<1> QED BY <1>9, <1>10

\* Every step of the limiter keeps the invariant.
LEMMA LimiterStep == LimiterInv /\ [LimiterNext]_limiterVars => LimiterInv'
<1> SUFFICES ASSUME LimiterInv, [LimiterNext]_limiterVars PROVE LimiterInv' OBVIOUS
<1>1. CASE Tick BY <1>1, TickKeepsLimit
<1>2. CASE \E r \in Requests : ReadClock(r) \/ Expire(r) \/ CommandFails(r)
    BY <1>2, CommandsKeepLimit
<1>3. CASE \E r \in Requests : Incr(r)
    BY <1>3, IncrKeepsLimit
<1>4. CASE UNCHANGED limiterVars
  <2>1. Timely(now)' = Timely(now) /\ \A m \in Minutes : Passed(m)' = Passed(m)
      BY <1>4 DEF limiterVars, Timely, Passed
  <2>2. LimiterTypeOK'
      BY <1>4 DEF limiterVars, LimiterTypeOK, LimiterInv
  <2> QED BY <1>4, <2>1, <2>2 DEF limiterVars, LimiterInv
<1> QED BY <1>1, <1>2, <1>3, <1>4 DEF LimiterNext

\* Every step of a request is one of the limiter, or none of it.
LEMMA StepLimiter == [Next]_vars => [LimiterNext]_limiterVars
<1> SUFFICES ASSUME [Next]_vars PROVE [LimiterNext]_limiterVars OBVIOUS
<1>1. CASE Limiter BY <1>1 DEF Limiter, LimiterNext
<1>2. CASE UNCHANGED vars BY <1>2 DEF vars
<1>3. ASSUME NEW r \in Requests,
             \/ Arrive(r) \/ BadLimit(r) \/ Proceeds(r)
             \/ Delta(r) \/ DeadlinePasses(r) \/ Elapsed(r) \/ Disconnect(r)
      PROVE  [LimiterNext]_limiterVars
  <2>1. CASE Arrive(r) BY <2>1 DEF Arrive, LimiterNext
  <2>2. CASE BadLimit(r) BY <2>2 DEF BadLimit
  <2>3. CASE Proceeds(r)
      BY <2>3 DEF Proceeds, Search, EnsureNew, EnsureFound, EnsureFails, Recent, Rewrite,
          Retrieve, RequestFails, Answer, OpenStream, StreamFails, StreamEnds, Insert, Commit,
          AppendFails, Respond, Moves, Goes, Ends
  <2>4. CASE Delta(r) \/ DeadlinePasses(r) \/ Elapsed(r) \/ Disconnect(r)
      BY <2>4 DEF Delta, DeadlinePasses, Elapsed, StreamEnds, Disconnect, Moves, Goes
  <2> QED BY <1>3, <2>1, <2>2, <2>3, <2>4
<1> QED BY <1>1, <1>2, <1>3 DEF Next

(* The limiter lets at most Limit of the requests counted within a minute  *)
(* through, for every window, limit and interleaving (rate_limit::check).  *)
THEOREM LimitHoldsAlways == Spec => []LimitHolds
<1>1. Init => LimiterInv
    BY LimiterStarts DEF Init
<1>2. LimiterInv /\ [Next]_vars => LimiterInv'
    BY LimiterStep, StepLimiter
<1>3. LimiterInv => LimitHolds
  <2> SUFFICES ASSUME LimiterInv, NEW m \in Minutes
               PROVE  Cardinality({r \in Requests :
                          gate[r] = "admitted" /\ timely[r] /\ minute[r] = m}) <= Limit
      BY DEF LimitHolds
  <2>1. PICK A : A = {r \in Requests : gate[r] = "admitted" /\ timely[r] /\ minute[r] = m}
      OBVIOUS
  <2>2. A \subseteq Passed(m) BY <2>1 DEF Passed
  <2>3. Cardinality(A) <= Cardinality(Passed(m)) /\ Cardinality(A) \in Nat
      BY <2>2, CountedFinite, FS_Subset, FS_CardinalityType
  <2>4. Cardinality(Passed(m)) <= Limit /\ Cardinality(Passed(m)) \in Nat
      BY CountedFinite DEF LimiterInv
  <2>5. Cardinality(A) <= Limit BY <2>3, <2>4, LimiterAssumption
  <2> QED BY <2>1, <2>5
<1> QED BY <1>1, <1>2, <1>3, PTL DEF Spec

------------------------------------------------------------------------------
(* The turns.  A request's open transaction holds nothing, its question,   *)
(* or its question and a younger answer; what is stored of it is nothing,  *)
(* or the two of them.                                                     *)

IsTurn(S, r) ==
    \E q, a \in Nat : q < a /\ S = {Message(r, "user", q), Message(r, "assistant", a)}

OpenOK(r) ==
    \/ open[r] = {}
    \/ \E q \in Nat : q <= seq /\ open[r] = {Message(r, "user", q)}
    \/ IsTurn(open[r], r)

StoredOK(r) == Stored(r) = {} \/ IsTurn(Stored(r), r)

\* A request is worth storing: a plain one always, a stream that said something.
Worth(r) == Kind[r] = "plain" \/ said[r] > 0

Under == {"ensured", "read", "rewritten", "answering", "streaming", "appending"}

PlaceOK(r) ==
    /\ stage[r] \in Under \cup {"closing"} => gate[r] = "admitted"
    /\ stage[r] \in Under \cup {"idle"} => told[r] = "" /\ Stored(r) = {}
    /\ stage[r] = "streaming" => Kind[r] = "stream"
    /\ stage[r] = "appending" => Worth(r)
    /\ stage[r] # "appending" => open[r] = {}
    /\ stage[r] = "closing" => told[r] \in {"", "broken"}
    /\ stage[r] = "closing" /\ Kind[r] = "plain" => told[r] = ""
    /\ (stage[r] = "closing" /\ told[r] = "") \/ told[r] = "ok" =>
          (Kind[r] = "plain" \/ (said[r] > 0 /\ ~lost[r]) => Stored(r) # {})
    /\ Stored(r) # {} => told[r] # "broken" /\ Worth(r)

TurnInv ==
    /\ TypeOK
    /\ IsFiniteSet(messages)
    /\ \A r \in Requests : OpenOK(r) /\ StoredOK(r) /\ PlaceOK(r)

\* A turn is a set of rows of its request, in both roles, finite.
LEMMA TurnFacts ==
    ASSUME NEW r \in Requests, NEW S, IsTurn(S, r)
    PROVE  /\ S # {} /\ IsFiniteSet(S) /\ S \subseteq Row
           /\ \A m \in S : m.turn = r
           /\ {m.role : m \in S} = Roles
           /\ \A m \in S : m.role = "user" =>
                 \E n \in S : n.role = "assistant" /\ n.seq > m.seq
<1>1. PICK q, a \in Nat : q < a /\ S = {Message(r, "user", q), Message(r, "assistant", a)}
    BY DEF IsTurn
<1>2. PICK u : u = Message(r, "user", q) OBVIOUS
<1>3. PICK b : b = Message(r, "assistant", a) OBVIOUS
<1>4. /\ u.turn = r /\ u.role = "user" /\ u.seq = q /\ u \in Row
      /\ b.turn = r /\ b.role = "assistant" /\ b.seq = a /\ b \in Row
    BY <1>2, <1>3 DEF Message, Row, Roles
<1>5. S = {u} \cup {b}
    BY <1>1, <1>2, <1>3
<1>6. IsFiniteSet(S)
    BY <1>5, FS_Singleton, FS_Union
<1>7. {m.role : m \in S} = Roles
    BY <1>4, <1>5 DEF Roles
<1> QED BY <1>1, <1>4, <1>5, <1>6, <1>7

\* The conversation has not begun, or begins with one turn.
LEMMA TurnsStart == Init => TurnInv
<1> SUFFICES ASSUME Init PROVE TurnInv OBVIOUS
<1>1. Served = {} \/ \E e \in Requests : Served = {e}
    BY LimiterAssumption, AskingAssumption
<1>2. PICK M : M = messages OBVIOUS
<1>3. M \subseteq Row /\ IsFiniteSet(M)
  <2>1. CASE Served = {}
    <3>1. M = {} BY <1>2, <2>1 DEF Init
    <3> QED BY <3>1, FS_EmptySet
  <2>2. ASSUME NEW e \in Requests, Served = {e} PROVE M \subseteq Row /\ IsFiniteSet(M)
    <3>1. M = {Message(e, "user", 1), Message(e, "assistant", 2)}
        BY <1>2, <2>2 DEF Init
    <3>2. IsTurn(M, e) BY <3>1 DEF IsTurn
    <3> QED BY <3>2, TurnFacts
  <2> QED BY <1>1, <2>1, <2>2
<1>4. TypeOK
  <2>1. LimiterTypeOK BY LimiterStarts DEF Init, LimiterInv
  <2>2. conversation \in [Requests -> Conversations \cup {None}]
      BY DEF Init
  <2>3. said \in [Requests -> 0 .. MaxTokens]
    <3>1. 0 \in 0 .. MaxTokens /\ 1 \in 0 .. MaxTokens
        BY AskingAssumption
    <3> QED BY <3>1 DEF Init
  <2>4. /\ conversations \subseteq Conversations
        /\ seq \in Nat
        /\ stage \in [Requests -> Stages]
        /\ history \in [Requests -> SUBSET Row]
        /\ open \in [Requests -> SUBSET Row]
        /\ late \in [Requests -> BOOLEAN]
        /\ told \in [Requests -> {"", "ok", "found", "error", "broken", "gone"}]
        /\ lost \in [Requests -> BOOLEAN]
        /\ before \in [Requests -> SUBSET Requests]
      BY DEF Init, Stages
  <2> QED BY <1>2, <1>3, <2>1, <2>2, <2>3, <2>4 DEF TypeOK
<1>5. ASSUME NEW r \in Requests PROVE OpenOK(r) /\ StoredOK(r) /\ PlaceOK(r)
  <2>1. CASE r \in Served
    <3>1. Served = {r} BY <1>1, <2>1
    <3>2. M = {Message(r, "user", 1), Message(r, "assistant", 2)}
        BY <1>2, <3>1 DEF Init
    <3>3. IsTurn(M, r) BY <3>2 DEF IsTurn
    <3>4. Stored(r) = M
      <4>1. \A m \in M : m.turn = r BY <3>3, TurnFacts
      <4> QED BY <1>2, <4>1 DEF Stored
    <3>5. StoredOK(r) /\ Stored(r) # {}
        BY <3>3, <3>4, TurnFacts DEF StoredOK
    <3>6. /\ stage[r] = "ended" /\ told[r] = "ok" /\ said[r] = 1 /\ open[r] = {}
        BY <2>1 DEF Init
    <3> QED BY <3>5, <3>6 DEF OpenOK, PlaceOK, Worth, Under
  <2>2. CASE r \notin Served
    <3>1. \A e \in Served : \A m \in {Message(e, "user", 1), Message(e, "assistant", 2)} :
              m.turn # r
        BY <2>2 DEF Message
    <3>2. Stored(r) = {}
        BY <3>1 DEF Init, Stored
    <3>3. /\ stage[r] = "idle" /\ told[r] = "" /\ open[r] = {}
        BY <2>2 DEF Init
    <3> QED BY <3>2, <3>3 DEF OpenOK, StoredOK, PlaceOK, Worth, Under
  <2> QED BY <2>1, <2>2
<1> QED BY <1>2, <1>3, <1>4, <1>5 DEF TurnInv

\* A request whose part of the state stays as it is.
LEMMA Frame ==
    ASSUME NEW s \in Requests, OpenOK(s), StoredOK(s), PlaceOK(s),
           seq \in Nat, seq' \in Nat, seq <= seq',
           Stored(s)' = Stored(s), open'[s] = open[s], stage'[s] = stage[s],
           told'[s] = told[s], said'[s] = said[s], lost'[s] = lost[s],
           gate[s] = "admitted" => gate'[s] = "admitted"
    PROVE  OpenOK(s)' /\ StoredOK(s)' /\ PlaceOK(s)'
<1>1. OpenOK(s)'
  <2>1. CASE open[s] = {} BY <2>1 DEF OpenOK
  <2>2. ASSUME NEW q \in Nat, q <= seq, open[s] = {Message(s, "user", q)} PROVE OpenOK(s)'
      BY <2>2 DEF OpenOK
  <2>3. CASE IsTurn(open[s], s) BY <2>3 DEF OpenOK, IsTurn
  <2> QED BY <2>1, <2>2, <2>3 DEF OpenOK
<1>2. StoredOK(s)'
    BY DEF StoredOK, IsTurn
<1>3. PlaceOK(s)'
    BY DEF PlaceOK, Worth
<1> QED BY <1>1, <1>2, <1>3

\* The steps that write no message.
Quiet(r) ==
    \/ Arrive(r) \/ BadLimit(r) \/ Search(r)
    \/ EnsureNew(r) \/ EnsureFound(r) \/ EnsureFails(r)
    \/ Recent(r) \/ Rewrite(r) \/ Retrieve(r) \/ RequestFails(r)
    \/ Answer(r) \/ OpenStream(r) \/ Delta(r) \/ StreamFails(r)
    \/ DeadlinePasses(r) \/ StreamEnds(r) \/ Elapsed(r) \/ Respond(r)

\* A history is a set of rows.
LEMMA HistoryTyped ==
    ASSUME TypeOK, NEW c PROVE Newest(In(c)) \subseteq Row
    BY DEF TypeOK, Newest, In

\* The steps that write no row keep the types.
LEMMA QuietTypes ==
    ASSUME NEW r \in Requests, TypeOK, Quiet(r) PROVE TypeOK'
<1>1. LimiterTypeOK'
  <2>1. CASE Arrive(r)
    <3>1. now \in Minutes BY DEF TypeOK, LimiterTypeOK
    <3>2. /\ gate' = [gate EXCEPT ![r] = "counting"]
          /\ minute' = [minute EXCEPT ![r] = now]
          /\ UNCHANGED <<now, second, count, ttl, timely>>
        BY <2>1 DEF Arrive, ReadClock
    <3>3. gate' \in [Requests -> Gates] /\ minute' \in [Requests -> Minutes]
        BY <3>1, <3>2 DEF TypeOK, LimiterTypeOK, Gates
    <3> QED BY <3>2, <3>3 DEF TypeOK, LimiterTypeOK
  <2>2. CASE ~Arrive(r)
    <3>1. UNCHANGED limiterVars
        BY <2>2 DEF Quiet, BadLimit, Search, EnsureNew, EnsureFound, EnsureFails, Recent, Rewrite,
            Retrieve, RequestFails, Answer, OpenStream, Delta, StreamFails, DeadlinePasses,
            StreamEnds, Elapsed, Respond, Moves, Goes, Ends
    <3> QED BY <3>1 DEF limiterVars, TypeOK, LimiterTypeOK
  <2> QED BY <2>1, <2>2
<1>2. UNCHANGED <<messages, seq, open, lost>>
    BY DEF Quiet, Arrive, BadLimit, Search, EnsureNew, EnsureFound, EnsureFails, Recent, Rewrite,
        Retrieve, RequestFails, Answer, OpenStream, Delta, StreamFails, DeadlinePasses,
        StreamEnds, Elapsed, Respond, Moves, Goes, Ends
<1>3. conversations' \subseteq Conversations
  <2>1. CASE EnsureNew(r) BY <2>1 DEF EnsureNew, TypeOK
  <2>2. CASE EnsureFails(r)
    <3>1. conversations' = conversations \/ \E c \in Conversations : conversations' = conversations \cup {c}
        BY <2>2 DEF EnsureFails
    <3> QED BY <3>1 DEF TypeOK
  <2>3. CASE ~EnsureNew(r) /\ ~EnsureFails(r)
    <3>1. UNCHANGED conversations
        BY <2>3 DEF Quiet, Arrive, BadLimit, Search, EnsureFound, Recent, Rewrite,
            Retrieve, RequestFails, Answer, OpenStream, Delta, StreamFails, DeadlinePasses,
            StreamEnds, Elapsed, Respond, Moves, Goes, Ends
    <3> QED BY <3>1 DEF TypeOK
  <2> QED BY <2>1, <2>2, <2>3
<1>4. stage' \in [Requests -> Stages]
    BY DEF TypeOK, Stages, Quiet, Arrive, BadLimit, Search, EnsureNew, EnsureFound, EnsureFails,
        Recent, Rewrite, Retrieve, RequestFails, Answer, OpenStream, Delta, StreamFails,
        DeadlinePasses, StreamEnds, Elapsed, Respond, Moves, Goes, Ends
<1>5. conversation' \in [Requests -> Conversations \cup {None}]
    BY DEF TypeOK, Quiet, Arrive, BadLimit, Search, EnsureNew, EnsureFound, EnsureFails, Recent,
        Rewrite, Retrieve, RequestFails, Answer, OpenStream, Delta, StreamFails, DeadlinePasses,
        StreamEnds, Elapsed, Respond, Moves, Goes, Ends
<1>6. history' \in [Requests -> SUBSET Row]
  <2>1. CASE Recent(r)
    <3>1. PICK H : H = Newest(In(conversation[r])) OBVIOUS
    <3>2. H \in SUBSET Row BY <3>1, HistoryTyped
    <3> QED BY <2>1, <3>1, <3>2 DEF Recent, TypeOK
  <2>2. CASE ~Recent(r)
    <3>1. history' = history \/ history' = [history EXCEPT ![r] = {}]
        BY <2>2 DEF Quiet, Arrive, BadLimit, Search, EnsureNew, EnsureFound, EnsureFails, Rewrite,
            Retrieve, RequestFails, Answer, OpenStream, Delta, StreamFails, DeadlinePasses,
            StreamEnds, Elapsed, Respond, Moves, Goes, Ends, Forgets
    <3> QED BY <3>1 DEF TypeOK
  <2> QED BY <2>1, <2>2
<1>7. said' \in [Requests -> 0 .. MaxTokens]
  <2>1. said' = said \/ \E n \in 0 .. MaxTokens : said' = [said EXCEPT ![r] = n]
    <3>1. 1 \in 0 .. MaxTokens
        BY AskingAssumption
    <3>2. \A n \in 0 .. MaxTokens : (IF n < MaxTokens THEN n + 1 ELSE n) \in 0 .. MaxTokens
        BY AskingAssumption
    <3>3. said[r] \in 0 .. MaxTokens
        BY DEF TypeOK
    <3>4. CASE Delta(r) BY <3>2, <3>3, <3>4 DEF Delta
    <3>5. CASE Answer(r) BY <3>5 DEF Answer
    <3>6. CASE Retrieve(r) BY <3>1, <3>6 DEF Retrieve
    <3>7. CASE ~Delta(r) /\ ~Answer(r) /\ ~Retrieve(r)
        BY <3>7 DEF Quiet, Arrive, BadLimit, Search, EnsureNew, EnsureFound, EnsureFails, Rewrite,
            Recent, RequestFails, OpenStream, StreamFails, DeadlinePasses,
            StreamEnds, Elapsed, Respond, Moves, Goes, Ends
    <3> QED BY <3>4, <3>5, <3>6, <3>7
  <2> QED BY <2>1 DEF TypeOK
<1>8. late' \in [Requests -> BOOLEAN]
    BY DEF TypeOK, Quiet, Arrive, BadLimit, Search, EnsureNew, EnsureFound, EnsureFails, Recent,
        Rewrite, Retrieve, RequestFails, Answer, OpenStream, Delta, StreamFails, DeadlinePasses,
        StreamEnds, Elapsed, Respond, Moves, Goes, Ends
<1>9. told' \in [Requests -> {"", "ok", "found", "error", "broken", "gone"}]
    BY DEF TypeOK, Quiet, Arrive, BadLimit, Search, EnsureNew, EnsureFound, EnsureFails, Recent,
        Rewrite, Retrieve, RequestFails, Answer, OpenStream, Delta, StreamFails, DeadlinePasses,
        StreamEnds, Elapsed, Respond, Moves, Goes, Ends
<1>10. before' \in [Requests -> SUBSET Requests]
  <2>1. before' = before \/ \E B \in SUBSET Requests : before' = [before EXCEPT ![r] = B]
    <3>1. CASE Arrive(r)
      <4>1. PICK B : B = {s \in Requests : Ended(s)} OBVIOUS
      <4>2. B \in SUBSET Requests /\ before' = [before EXCEPT ![r] = B]
          BY <3>1, <4>1 DEF Arrive
      <4> QED BY <4>2
    <3>2. CASE ~Arrive(r)
      <4>1. before' = before \/ before' = [before EXCEPT ![r] = {}]
          BY <3>2 DEF Quiet, BadLimit, Search, EnsureNew, EnsureFound, EnsureFails, Recent,
              Rewrite, Retrieve, RequestFails, Answer, OpenStream, Delta, StreamFails,
              DeadlinePasses, StreamEnds, Elapsed, Respond, Moves, Goes, Ends, Forgets
      <4> QED BY <4>1
    <3> QED BY <3>1, <3>2
  <2> QED BY <2>1 DEF TypeOK
<1> QED BY <1>1, <1>2, <1>3, <1>4, <1>5, <1>6, <1>7, <1>8, <1>9, <1>10 DEF TypeOK

\* What they do to the request itself keeps its place in order.
LEMMA QuietPlace ==
    ASSUME NEW r \in Requests, TypeOK, Quiet(r), PlaceOK(r), Stored(r)' = Stored(r)
    PROVE  PlaceOK(r)'
<1>1. CASE Arrive(r)
    BY <1>1 DEF Arrive, ReadClock, PlaceOK, Worth, Under, TypeOK, LimiterTypeOK
<1>2. CASE BadLimit(r) \/ Search(r)
    BY <1>2 DEF BadLimit, Search, Moves, Ends, limiterVars, PlaceOK, Worth, Under, TypeOK
<1>3. CASE EnsureNew(r) \/ EnsureFound(r) \/ EnsureFails(r)
  <2>1. /\ gate[r] = "admitted" /\ stage[r] = "idle"
        /\ UNCHANGED <<limiterVars, said, open, lost>>
        /\ \/ stage' = [stage EXCEPT ![r] = "ensured"] /\ UNCHANGED told
           \/ /\ stage' = [stage EXCEPT ![r] = "ended"]
              /\ told' = [told EXCEPT ![r] = "error"]
      BY <1>3 DEF EnsureNew, EnsureFound, EnsureFails
  <2> QED BY <2>1 DEF limiterVars, PlaceOK, Worth, Under, TypeOK
<1>4. CASE Recent(r) \/ Rewrite(r) \/ RequestFails(r)
    BY <1>4 DEF Recent, Rewrite, RequestFails, Moves, Ends, limiterVars, PlaceOK, Worth, Under,
        TypeOK, LimiterTypeOK
<1>5. CASE Retrieve(r) \/ Answer(r) \/ OpenStream(r)
  <2>1. CASE Retrieve(r)
    <3>1. /\ stage[r] = "rewritten" /\ UNCHANGED <<limiterVars, told, open, lost>>
          /\ \/ stage' = [stage EXCEPT ![r] = "answering"] /\ UNCHANGED said
             \/ /\ stage' = [stage EXCEPT ![r] = "appending"]
                /\ said' = [said EXCEPT ![r] = 1]
        BY <2>1 DEF Retrieve, Moves, Goes
    <3>2. told[r] = "" /\ Stored(r) = {} /\ open[r] = {} /\ gate[r] = "admitted"
        BY <3>1 DEF PlaceOK, Under
    <3>3. stage'[r] = "answering" \/ (stage'[r] = "appending" /\ Worth(r)')
      <4>1. said' = [said EXCEPT ![r] = 1] => said'[r] = 1
          BY DEF TypeOK
      <4>2. /\ stage' = [stage EXCEPT ![r] = "answering"] => stage'[r] = "answering"
            /\ stage' = [stage EXCEPT ![r] = "appending"] => stage'[r] = "appending"
          BY DEF TypeOK
      <4>3. said'[r] = 1 => Worth(r)'
          BY DEF Worth
      <4> QED BY <3>1, <4>1, <4>2, <4>3
    <3> QED BY <3>1, <3>2, <3>3 DEF limiterVars, PlaceOK, Under
  <2>2. CASE Answer(r)
    <3>1. /\ stage[r] = "answering" /\ UNCHANGED <<limiterVars, told, open, lost>>
          /\ Kind[r] = "plain" /\ stage' = [stage EXCEPT ![r] = "appending"]
        BY <2>2 DEF Answer, Moves, Goes
    <3> QED BY <3>1 DEF limiterVars, PlaceOK, Worth, Under, TypeOK
  <2>3. CASE OpenStream(r)
      BY <2>3 DEF OpenStream, Moves, Goes, limiterVars, PlaceOK, Worth, Under, TypeOK
  <2> QED BY <1>5, <2>1, <2>2, <2>3
<1>6. CASE Delta(r) \/ StreamFails(r) \/ DeadlinePasses(r)
    BY <1>6 DEF Delta, StreamFails, DeadlinePasses, Moves, Goes, limiterVars, PlaceOK, Worth,
        Under, TypeOK, LimiterTypeOK
<1>7. CASE StreamEnds(r) \/ Elapsed(r)
    BY <1>7 DEF Elapsed, StreamEnds, Moves, Goes, limiterVars, PlaceOK, Worth, Under,
        TypeOK, LimiterTypeOK
<1>8. CASE Respond(r)
    BY <1>8 DEF Respond, Moves, Ends, limiterVars, PlaceOK, Worth, Under, TypeOK, LimiterTypeOK
<1> QED BY <1>1, <1>2, <1>3, <1>4, <1>5, <1>6, <1>7, <1>8 DEF Quiet

\* The steps that write no row keep the turns.
LEMMA QuietStep ==
    ASSUME NEW r \in Requests, TurnInv, Quiet(r) PROVE TurnInv'
<1>0. TypeOK BY DEF TurnInv
<1>1. TypeOK' BY <1>0, QuietTypes
<1>2. UNCHANGED <<messages, seq, open, lost>>
    BY DEF Quiet, Arrive, BadLimit, Search, EnsureNew, EnsureFound, EnsureFails, Recent, Rewrite,
        Retrieve, RequestFails, Answer, OpenStream, Delta, StreamFails, DeadlinePasses,
        StreamEnds, Elapsed, Respond, Moves, Goes, Ends
<1>3. \A s \in Requests : Stored(s)' = Stored(s)
    BY <1>2 DEF Stored
<1>4. ASSUME NEW s \in Requests PROVE OpenOK(s)' /\ StoredOK(s)' /\ PlaceOK(s)'
  <2>1. CASE s = r
    <3>1. OpenOK(r) /\ StoredOK(r) /\ PlaceOK(r) BY DEF TurnInv
    <3>2. OpenOK(r)' BY <1>2, <3>1 DEF OpenOK, IsTurn
    <3>3. StoredOK(r)' BY <1>3, <3>1 DEF StoredOK, IsTurn
    <3>4. PlaceOK(r)' BY <1>0, <1>3, <3>1, QuietPlace
    <3> QED BY <2>1, <3>2, <3>3, <3>4
  <2>2. CASE s # r
    <3>1. stage'[s] = stage[s] /\ told'[s] = told[s]
        BY <1>0, <2>2 DEF TypeOK, Quiet, Arrive, BadLimit, Search, EnsureNew, EnsureFound,
            EnsureFails, Recent, Rewrite, Retrieve, RequestFails, Answer, OpenStream, Delta,
            StreamFails, DeadlinePasses, StreamEnds, Elapsed, Respond, Moves, Goes, Ends
    <3>2. said'[s] = said[s]
        BY <1>0, <2>2 DEF TypeOK, Quiet, Arrive, BadLimit, Search, EnsureNew, EnsureFound,
            EnsureFails, Recent, Rewrite, Retrieve, RequestFails, Answer, OpenStream, Delta,
            StreamFails, DeadlinePasses, StreamEnds, Elapsed, Respond, Moves, Goes, Ends
    <3>3. gate'[s] = gate[s]
        BY <1>0, <2>2 DEF TypeOK, LimiterTypeOK, limiterVars, ReadClock, Quiet, Arrive, BadLimit,
            Search, EnsureNew, EnsureFound, EnsureFails, Recent, Rewrite, Retrieve, RequestFails,
            Answer, OpenStream, Delta, StreamFails, DeadlinePasses, StreamEnds, Elapsed, Respond,
            Moves, Goes, Ends
    <3>4. seq \in Nat /\ seq' = seq /\ seq <= seq
      <4>1. seq \in Nat BY <1>0 DEF TypeOK
      <4> QED BY <1>2, <4>1
    <3>5. OpenOK(s) /\ StoredOK(s) /\ PlaceOK(s)
        BY DEF TurnInv
    <3> QED BY <1>2, <1>3, <3>1, <3>2, <3>3, <3>4, <3>5, Frame
  <2> QED BY <2>1, <2>2
<1> QED BY <1>1, <1>2, <1>4 DEF TurnInv

\* The steps of the limiter let nobody out who was in.
LEMMA LimiterTurns ==
    ASSUME TurnInv, LimiterInv, Limiter PROVE TurnInv'
<1>0. TypeOK BY DEF TurnInv
<1>1. UNCHANGED askingVars BY DEF Limiter
<1>2. LimiterTypeOK'
    BY LimiterStep DEF Limiter, LimiterNext, LimiterInv
<1>3. TypeOK'
    BY <1>0, <1>1, <1>2 DEF askingVars, TypeOK
<1>4. \A s \in Requests : gate[s] = "admitted" => gate'[s] = "admitted"
    BY <1>0 DEF Limiter, Tick, Incr, Expire, CommandFails, TypeOK, LimiterTypeOK
<1>5. ASSUME NEW s \in Requests PROVE OpenOK(s)' /\ StoredOK(s)' /\ PlaceOK(s)'
  <2>1. Stored(s)' = Stored(s)
      BY <1>1 DEF askingVars, Stored
  <2>2. seq \in Nat /\ seq' = seq /\ seq <= seq
    <3>1. seq \in Nat BY <1>0 DEF TypeOK
    <3> QED BY <1>1, <3>1 DEF askingVars
  <2>3. OpenOK(s) /\ StoredOK(s) /\ PlaceOK(s)
      BY DEF TurnInv
  <2> QED BY <1>1, <1>4, <2>1, <2>2, <2>3, Frame DEF askingVars
<1> QED BY <1>1, <1>3, <1>5 DEF TurnInv, askingVars

\* A transaction with the answer in it is a turn.
LEMMA WholeIsTurn ==
    ASSUME NEW r \in Requests, OpenOK(r) PROVE Whole(r) <=> IsTurn(open[r], r)
<1>1. CASE open[r] = {} BY <1>1, TurnFacts DEF Whole
<1>2. ASSUME NEW q \in Nat, open[r] = {Message(r, "user", q)} PROVE ~Whole(r) /\ ~IsTurn(open[r], r)
  <2>1. PICK u : u = Message(r, "user", q) OBVIOUS
  <2>2. u.role = "user" /\ open[r] = {u} BY <1>2, <2>1 DEF Message
  <2>3. ~Whole(r) BY <2>2 DEF Whole
  <2>4. {m.role : m \in open[r]} = {"user"} BY <2>2
  <2>5. ~IsTurn(open[r], r) BY <2>4, TurnFacts DEF Roles
  <2> QED BY <2>3, <2>5
<1>3. CASE IsTurn(open[r], r)
  <2>1. {m.role : m \in open[r]} = Roles BY <1>3, TurnFacts
  <2>2. \E m \in open[r] : m.role = "assistant" BY <2>1 DEF Roles
  <2> QED BY <1>3, <2>2 DEF Whole
<1> QED BY <1>1, <1>2, <1>3 DEF OpenOK

\* A statement of append_turn: the question, then the younger answer.
LEMMA InsertStep ==
    ASSUME NEW r \in Requests, TurnInv, Insert(r) PROVE TurnInv'
<1>0. TypeOK /\ seq \in Nat /\ OpenOK(r) BY DEF TurnInv, TypeOK
<1>1. /\ stage[r] = "appending" /\ ~Whole(r) /\ seq' = seq + 1
      /\ UNCHANGED <<limiterVars, conversations, messages, stage, conversation, history, said,
                     late, told, lost, before>>
    BY DEF Insert
<1>2. seq' \in Nat /\ seq <= seq' BY <1>0, <1>1
<1>3. PICK m : m = NewRow(r) OBVIOUS
<1>4. m \in Row /\ open' = [open EXCEPT ![r] = open[r] \cup {m}]
    BY <1>0, <1>3 DEF Insert, NewRow, NextRole, Message, Row, Roles
<1>5. /\ open' \in [Requests -> SUBSET Row] /\ open'[r] = open[r] \cup {m}
      /\ \A s \in Requests : s # r => open'[s] = open[s]
    BY <1>0, <1>4 DEF TypeOK
<1>6. TypeOK'
    BY <1>0, <1>1, <1>2, <1>5 DEF TypeOK, LimiterTypeOK, limiterVars
<1>7. \A s \in Requests : Stored(s)' = Stored(s)
    BY <1>1 DEF Stored
<1>8. OpenOK(r)'
  <2>1. CASE open[r] = {}
    <3>1. m = Message(r, "user", seq + 1) BY <1>3, <2>1 DEF NewRow, NextRole
    <3>2. open'[r] = {Message(r, "user", seq')} BY <1>1, <1>5, <2>1, <3>1
    <3> QED BY <1>2, <3>2 DEF OpenOK
  <2>2. ASSUME NEW q \in Nat, q <= seq, open[r] = {Message(r, "user", q)} PROVE OpenOK(r)'
    <3>1. m = Message(r, "assistant", seq + 1) BY <1>3, <2>2 DEF NewRow, NextRole
    <3>2. open'[r] = {Message(r, "user", q), Message(r, "assistant", seq')}
        BY <1>1, <1>5, <2>2, <3>1
    <3>3. q < seq' BY <1>0, <1>1, <2>2
    <3>4. IsTurn(open'[r], r) BY <1>2, <3>2, <3>3 DEF IsTurn
    <3> QED BY <3>4 DEF OpenOK, IsTurn
  <2>3. ~IsTurn(open[r], r) BY <1>0, <1>1, WholeIsTurn
  <2> QED BY <1>0, <2>1, <2>2, <2>3 DEF OpenOK
<1>9. ASSUME NEW s \in Requests PROVE OpenOK(s)' /\ StoredOK(s)' /\ PlaceOK(s)'
  <2>1. OpenOK(s) /\ StoredOK(s) /\ PlaceOK(s) BY DEF TurnInv
  <2>2. CASE s = r
    <3>1. StoredOK(r)' BY <1>7, <2>1, <2>2 DEF StoredOK, IsTurn
    <3>2. PlaceOK(r)' BY <1>1, <1>7, <2>1, <2>2 DEF PlaceOK, Worth, limiterVars
    <3> QED BY <1>8, <2>2, <3>1, <3>2
  <2>3. CASE s # r
      BY <1>0, <1>1, <1>2, <1>5, <1>7, <2>1, <2>3, Frame DEF limiterVars
  <2> QED BY <2>2, <2>3
<1> QED BY <1>1, <1>6, <1>9 DEF TurnInv

\* The end of append_turn: both rows appear, or none does.
Closes(r) ==
    /\ \/ UNCHANGED messages
       \/ Whole(r) /\ messages' = messages \cup open[r]
    /\ open' = [open EXCEPT ![r] = {}]

\* What a committed or abandoned transaction leaves in the table is a whole turn, or nothing.
LEMMA ClosingRows ==
    ASSUME NEW r \in Requests, TurnInv, Closes(r), stage[r] # "ended"
    PROVE  /\ messages' \subseteq Row /\ IsFiniteSet(messages')
           /\ open' \in [Requests -> SUBSET Row] /\ open'[r] = {}
           /\ \A s \in Requests : s # r => Stored(s)' = Stored(s) /\ open'[s] = open[s]
           /\ StoredOK(r)'
           /\ stage[r] # "appending" => Stored(r)' = Stored(r)
           /\ messages' = messages => Stored(r)' = Stored(r)
           /\ Whole(r) /\ messages' = messages \cup open[r] => Stored(r)' # {}
<1>0. TypeOK /\ OpenOK(r) /\ StoredOK(r) /\ PlaceOK(r) /\ IsFiniteSet(messages)
    BY DEF TurnInv
<1>1. /\ open' \in [Requests -> SUBSET Row] /\ open'[r] = {}
      /\ \A s \in Requests : s # r => open'[s] = open[s]
    BY <1>0 DEF Closes, TypeOK
<1>2. CASE messages' = messages
  <2>1. \A s \in Requests : Stored(s)' = Stored(s) BY <1>2 DEF Stored
  <2>2. StoredOK(r)' BY <1>0, <2>1 DEF StoredOK, IsTurn
  <2>3. Whole(r) /\ messages' = messages \cup open[r] => Stored(r)' # {}
    <3> SUFFICES ASSUME Whole(r), messages' = messages \cup open[r] PROVE Stored(r) # {}
        BY <2>1
    <3>1. IsTurn(open[r], r) BY <1>0, WholeIsTurn
    <3>2. PICK m \in open[r] : TRUE BY <3>1, TurnFacts
    <3>3. m \in messages /\ m.turn = r BY <1>2, <3>1, TurnFacts
    <3> QED BY <3>3 DEF Stored
  <2> QED BY <1>0, <1>1, <1>2, <2>1, <2>2, <2>3 DEF TypeOK
<1>3. CASE Whole(r) /\ messages' = messages \cup open[r]
  <2>1. IsTurn(open[r], r) BY <1>0, <1>3, WholeIsTurn
  <2>2. /\ open[r] # {} /\ IsFiniteSet(open[r]) /\ open[r] \subseteq Row
        /\ \A m \in open[r] : m.turn = r
      BY <2>1, TurnFacts
  <2>3. stage[r] = "appending" /\ Stored(r) = {}
      BY <1>0, <2>2 DEF PlaceOK, Under
  <2>4. Stored(r)' = open[r]
      BY <1>3, <2>2, <2>3 DEF Stored
  <2>5. \A s \in Requests : s # r => Stored(s)' = Stored(s)
      BY <1>3, <2>2 DEF Stored
  <2>6. messages' \subseteq Row /\ IsFiniteSet(messages')
      BY <1>0, <1>3, <2>2, FS_Union DEF TypeOK
  <2>7. StoredOK(r)'
      BY <2>1, <2>4 DEF StoredOK, IsTurn
  <2>8. messages' = messages => Stored(r)' = Stored(r)
      BY DEF Stored
  <2> QED BY <1>1, <2>2, <2>3, <2>4, <2>5, <2>6, <2>7, <2>8
<1> QED BY <1>2, <1>3 DEF Closes

\* The end of a transaction keeps the turns.
LEMMA ClosingStep ==
    ASSUME NEW r \in Requests, TurnInv, Commit(r) \/ AppendFails(r) \/ Disconnect(r)
    PROVE  TurnInv'
<1>0. TypeOK /\ OpenOK(r) /\ StoredOK(r) /\ PlaceOK(r) /\ seq \in Nat
    BY DEF TurnInv, TypeOK
<1>1. Closes(r) /\ stage[r] # "ended"
    BY DEF Closes, Commit, AppendFails, Disconnect, CutShort
<1>2. UNCHANGED <<limiterVars, conversations, seq, conversation, said>>
    BY DEF Commit, AppendFails, Disconnect
<1>3. /\ messages' \subseteq Row /\ IsFiniteSet(messages')
      /\ open' \in [Requests -> SUBSET Row] /\ open'[r] = {}
      /\ \A s \in Requests : s # r => Stored(s)' = Stored(s) /\ open'[s] = open[s]
      /\ StoredOK(r)'
      /\ stage[r] # "appending" => Stored(r)' = Stored(r)
      /\ messages' = messages => Stored(r)' = Stored(r)
      /\ Whole(r) /\ messages' = messages \cup open[r] => Stored(r)' # {}
    BY <1>1, ClosingRows
<1>4. TypeOK'
  <2>1. stage' \in [Requests -> Stages]
      BY <1>0 DEF Commit, AppendFails, Disconnect, TypeOK, Stages
  <2>2. told' \in [Requests -> {"", "ok", "found", "error", "broken", "gone"}]
      BY <1>0 DEF Commit, AppendFails, Disconnect, TypeOK
  <2>3. late' \in [Requests -> BOOLEAN] /\ lost' \in [Requests -> BOOLEAN]
      BY <1>0 DEF Commit, AppendFails, Disconnect, TypeOK
  <2>4. history' \in [Requests -> SUBSET Row] /\ before' \in [Requests -> SUBSET Requests]
      BY <1>0 DEF Commit, AppendFails, Disconnect, Forgets, TypeOK
  <2> QED BY <1>0, <1>2, <1>3, <2>1, <2>2, <2>3, <2>4 DEF TypeOK, LimiterTypeOK, limiterVars
<1>5. OpenOK(r)' BY <1>3 DEF OpenOK
<1>6. gate'[r] = gate[r] /\ said'[r] = said[r] BY <1>2 DEF limiterVars
<1>7. PlaceOK(r)'
  <2>1. CASE Commit(r)
    <3>1. /\ stage[r] = "appending" /\ stage'[r] = "closing" /\ told'[r] = told[r]
          /\ Stored(r)' # {}
        BY <1>0, <1>3, <2>1 DEF Commit, TypeOK
    <3> QED BY <1>0, <1>3, <1>6, <3>1 DEF PlaceOK, Worth, Under
  <2>2. CASE AppendFails(r)
    <3>1. stage[r] = "appending" /\ lost'[r]
        BY <1>0, <2>2 DEF AppendFails, TypeOK
    <3>2. \/ Kind[r] = "plain" /\ stage'[r] = "ended" /\ told'[r] = "error"
          \/ Kind[r] # "plain" /\ stage'[r] = "closing" /\ told'[r] = told[r]
        BY <1>0, <2>2 DEF AppendFails, TypeOK
    <3>3. told[r] = "" /\ gate[r] = "admitted" /\ Worth(r)
        BY <1>0, <3>1 DEF PlaceOK, Under
    <3>4. Worth(r)' BY <1>6, <3>3 DEF Worth
    <3> QED BY <1>3, <1>6, <3>1, <3>2, <3>3, <3>4 DEF PlaceOK, Under
  <2>3. CASE Disconnect(r)
    <3>1. /\ stage'[r] = "ended" /\ told'[r] = IF told[r] = "broken" THEN told[r] ELSE "gone"
        BY <1>0, <2>3 DEF Disconnect, TypeOK
    <3>2. Stored(r)' # {} => told[r] # "broken" /\ Worth(r)
      <4>1. CASE stage[r] = "appending" BY <1>0, <4>1 DEF PlaceOK, Under
      <4>2. CASE stage[r] # "appending" BY <1>0, <1>3, <4>2 DEF PlaceOK
      <4> QED BY <4>1, <4>2
    <3>3. Worth(r)' <=> Worth(r) BY <1>6 DEF Worth
    <3> QED BY <1>3, <3>1, <3>2, <3>3 DEF PlaceOK, Under
  <2> QED BY <2>1, <2>2, <2>3
<1>8. ASSUME NEW s \in Requests, s # r PROVE OpenOK(s)' /\ StoredOK(s)' /\ PlaceOK(s)'
  <2>1. OpenOK(s) /\ StoredOK(s) /\ PlaceOK(s) BY DEF TurnInv
  <2>2. stage'[s] = stage[s] /\ told'[s] = told[s] /\ lost'[s] = lost[s]
      BY <1>0, <1>8 DEF Commit, AppendFails, Disconnect, TypeOK
  <2>3. seq' = seq /\ seq <= seq BY <1>0, <1>2
  <2> QED BY <1>0, <1>2, <1>3, <1>8, <2>1, <2>2, <2>3, Frame DEF limiterVars
<1> QED BY <1>3, <1>4, <1>5, <1>7, <1>8 DEF TurnInv

------------------------------------------------------------------------------
(* What a request remembers.                                               *)

MemoryInv ==
    /\ HistoryIsAnswered
    /\ \A r \in Requests : \A s \in before[r] : Ended(s)
    /\ FollowUpRemembers

\* A question is not read without its answer, which is younger.
LEMMA NewestAnswered ==
    ASSUME TurnInv, NEW c, NEW m \in Newest(In(c)), m.role = "user"
    PROVE  \E n \in Newest(In(c)) : n.turn = m.turn /\ n.role = "assistant"
<1>1. PICK S : S = In(c) OBVIOUS
<1>2. S \subseteq messages /\ messages \subseteq Row /\ IsFiniteSet(S)
    BY <1>1, FS_Subset DEF In, TurnInv, TypeOK
<1>3. m \in S /\ Cardinality(Younger(S, m)) < HistoryLimit
    BY <1>1 DEF Newest
<1>4. m \in messages /\ m.turn \in Requests /\ conversation[m.turn] = c
    BY <1>1, <1>2, <1>3 DEF In, Row
<1>5. m \in Stored(m.turn) BY <1>4 DEF Stored
<1>6. IsTurn(Stored(m.turn), m.turn)
    BY <1>4, <1>5 DEF TurnInv, StoredOK
<1>7. PICK n \in Stored(m.turn) : n.role = "assistant" /\ n.seq > m.seq
    BY <1>4, <1>5, <1>6, TurnFacts
<1>8. n \in messages /\ n.turn = m.turn BY <1>7 DEF Stored
<1>9. n \in S BY <1>1, <1>4, <1>8 DEF In
<1>10. \A k \in S : k.seq \in Nat
    BY <1>2 DEF Row
<1>11. Younger(S, n) \subseteq Younger(S, m) /\ Younger(S, m) \subseteq S
    BY <1>3, <1>7, <1>9, <1>10 DEF Younger
<1>12. /\ Cardinality(Younger(S, n)) <= Cardinality(Younger(S, m))
       /\ Cardinality(Younger(S, n)) \in Nat /\ Cardinality(Younger(S, m)) \in Nat
    BY <1>2, <1>11, FS_Subset, FS_CardinalityType
<1>13. n \in Newest(S)
    BY <1>3, <1>9, <1>12, AskingAssumption DEF Newest
<1> QED BY <1>1, <1>7, <1>8, <1>13

\* The end of a request is its end.
LEMMA EndedStays ==
    ASSUME TurnInv, [Next]_vars, NEW s \in Requests, Ended(s) PROVE Ended(s)'
<1>0. TypeOK BY DEF TurnInv
<1>1. CASE Limiter
    BY <1>0, <1>1 DEF Limiter, Tick, Incr, Expire, CommandFails, Ended, TypeOK, LimiterTypeOK,
        askingVars
<1>2. CASE UNCHANGED vars
    BY <1>2 DEF vars, limiterVars, askingVars, Ended
<1>3. ASSUME NEW r \in Requests, Quiet(r) PROVE Ended(s)'
  <2>1. gate'[s] \in {"refused", "failed"} \/ gate[s] \notin {"refused", "failed"}
      BY <1>0, <1>3 DEF TypeOK, LimiterTypeOK, limiterVars, ReadClock, Quiet, Arrive, BadLimit,
          Search, EnsureNew, EnsureFound, EnsureFails, Recent, Rewrite, Retrieve, RequestFails,
          Answer, OpenStream, Delta, StreamFails, DeadlinePasses, StreamEnds, Elapsed, Respond,
          Moves, Goes, Ends
  <2>2. stage[s] = "ended" => stage'[s] = "ended"
      BY <1>0, <1>3 DEF TypeOK, Quiet, Arrive, BadLimit,
          Search, EnsureNew, EnsureFound, EnsureFails, Recent, Rewrite, Retrieve, RequestFails,
          Answer, OpenStream, Delta, StreamFails, DeadlinePasses, StreamEnds, Elapsed, Respond,
          Moves, Goes, Ends
  <2> QED BY <2>1, <2>2 DEF Ended
<1>4. ASSUME NEW r \in Requests, Insert(r) \/ Commit(r) \/ AppendFails(r) \/ Disconnect(r)
      PROVE  Ended(s)'
    BY <1>0, <1>4 DEF TypeOK, LimiterTypeOK, limiterVars, Insert, Commit, AppendFails,
        Disconnect, Ended
<1> QED BY <1>1, <1>2, <1>3, <1>4 DEF Next, Proceeds, Quiet

FollowOK(r) ==
    stage[r] = "read" =>
        \A s \in before[r] : \A m \in Stored(s) :
            m.role = "assistant" /\ conversation[s] = conversation[r] =>
                m \in history[r] \/ HistoryLimit <= Cardinality(Younger(In(conversation[r]), m))

\* A reader is not disturbed by rows that come to its conversation.
LEMMA FollowFrame ==
    ASSUME NEW x \in Requests, TurnInv, FollowOK(x), IsFiniteSet(messages'),
           messages \subseteq messages',
           \A m \in messages : conversation'[m.turn] = conversation[m.turn],
           stage'[x] = "read" => /\ stage[x] = "read"
                                 /\ history'[x] = history[x]
                                 /\ conversation'[x] = conversation[x]
                                 /\ before'[x] = before[x],
           \A s \in before[x] : Stored(s)' = Stored(s) /\ conversation'[s] = conversation[s]
    PROVE  FollowOK(x)'
<1> SUFFICES ASSUME stage'[x] = "read", NEW s \in before'[x], NEW m \in Stored(s)',
                    m.role = "assistant", conversation'[s] = conversation'[x]
             PROVE  m \in history'[x]
                    \/ HistoryLimit <= Cardinality(Younger(In(conversation[x]), m))'
    BY DEF FollowOK
<1>1. /\ s \in before[x] /\ m \in Stored(s) /\ conversation[s] = conversation[x]
      /\ history'[x] = history[x] /\ conversation'[x] = conversation[x] /\ stage[x] = "read"
    OBVIOUS
<1>2. CASE m \in history[x] BY <1>1, <1>2
<1>3. CASE HistoryLimit <= Cardinality(Younger(In(conversation[x]), m))
  <2>1. PICK A : A = Younger(In(conversation[x]), m) OBVIOUS
  <2>2. PICK B : B = Younger(In(conversation[x]), m)' OBVIOUS
  <2>3. A \subseteq B /\ B \subseteq messages'
      BY <1>1, <2>1, <2>2 DEF Younger, In
  <2>4. Cardinality(A) <= Cardinality(B) /\ Cardinality(A) \in Nat /\ Cardinality(B) \in Nat
      BY <2>3, FS_Subset, FS_CardinalityType
  <2>5. HistoryLimit <= Cardinality(B)
      BY <1>3, <2>1, <2>4, AskingAssumption
  <2> QED BY <2>2, <2>5
<1> QED BY <1>1, <1>2, <1>3 DEF FollowOK

\* Nothing is read at first.
LEMMA MemoryStarts == Init => MemoryInv
<1> SUFFICES ASSUME Init PROVE MemoryInv OBVIOUS
<1>1. \A r \in Requests : history[r] = {} /\ before[r] = {} /\ stage[r] # "read"
    BY DEF Init
<1> QED BY <1>1 DEF MemoryInv, HistoryIsAnswered, FollowUpRemembers

\* Who had ended when a request arrived still has.
LEMMA BeforeEnded ==
    ASSUME TurnInv, TurnInv', MemoryInv, [Next]_vars,
           NEW r \in Requests, NEW B \in SUBSET {s \in Requests : Ended(s)},
           \/ before' = before
           \/ before' = [before EXCEPT ![r] = B]
    PROVE  \A x \in Requests : \A s \in before'[x] : Ended(s)'
<1> SUFFICES ASSUME NEW x \in Requests, NEW s \in before'[x] PROVE Ended(s)' OBVIOUS
<1>1. before \in [Requests -> SUBSET Requests] BY DEF TurnInv, TypeOK
<1>2. s \in before[x] \/ s \in B BY <1>1
<1>3. s \in Requests /\ Ended(s) BY <1>1, <1>2 DEF MemoryInv
<1> QED BY <1>3, EndedStays

\* The history of a request is what it was, nothing, or the newest rows.
LEMMA HistoryKept ==
    ASSUME TurnInv, MemoryInv, NEW r \in Requests,
           \/ history' = history
           \/ history' = [history EXCEPT ![r] = {}]
           \/ \E c \in Conversations \cup {None} :
                 history' = [history EXCEPT ![r] = Newest(In(c))]
    PROVE  HistoryIsAnswered'
<1> SUFFICES ASSUME NEW x \in Requests, NEW m \in history'[x], m.role = "user"
             PROVE  \E n \in history'[x] : n.turn = m.turn /\ n.role = "assistant"
    BY DEF HistoryIsAnswered
<1>0. history \in [Requests -> SUBSET Row] BY DEF TurnInv, TypeOK
<1>1. \/ history'[x] = history[x]
      \/ history'[x] = {}
      \/ \E c \in Conversations \cup {None} : history'[x] = Newest(In(c))
    BY <1>0
<1>2. CASE history'[x] = history[x]
    BY <1>2 DEF MemoryInv, HistoryIsAnswered
<1>3. ASSUME NEW c, history'[x] = Newest(In(c))
      PROVE  \E n \in history'[x] : n.turn = m.turn /\ n.role = "assistant"
    BY <1>3, NewestAnswered
<1> QED BY <1>1, <1>2, <1>3

\* The steps that write no row keep what the histories hold.
LEMMA MemoryQuiet ==
    ASSUME NEW r \in Requests, TurnInv, TurnInv', MemoryInv, [Next]_vars, Quiet(r)
    PROVE  MemoryInv'
<1>0. TypeOK BY DEF TurnInv
<1>1. UNCHANGED messages
    BY DEF Quiet, Arrive, BadLimit, Search, EnsureNew, EnsureFound, EnsureFails, Recent, Rewrite,
        Retrieve, RequestFails, Answer, OpenStream, Delta, StreamFails, DeadlinePasses,
        StreamEnds, Elapsed, Respond, Moves, Goes, Ends
<1>2. HistoryIsAnswered'
  <2>1. CASE Recent(r)
    <3>1. conversation[r] \in Conversations \cup {None} BY <1>0 DEF TypeOK
    <3>2. history' = [history EXCEPT ![r] = Newest(In(conversation[r]))]
        BY <2>1 DEF Recent
    <3> QED BY <3>1, <3>2, HistoryKept
  <2>2. CASE ~Recent(r)
    <3>1. history' = history \/ history' = [history EXCEPT ![r] = {}]
        BY <2>2 DEF Quiet, Arrive, BadLimit, Search, EnsureNew, EnsureFound, EnsureFails, Rewrite,
            Retrieve, RequestFails, Answer, OpenStream, Delta, StreamFails, DeadlinePasses,
            StreamEnds, Elapsed, Respond, Moves, Goes, Ends, Forgets
    <3> QED BY <3>1, HistoryKept
  <2> QED BY <2>1, <2>2
<1>3. \A x \in Requests : \A s \in before'[x] : Ended(s)'
  <2>1. CASE Arrive(r)
    <3>1. PICK B : B = {s \in Requests : Ended(s)} OBVIOUS
    <3>2. B \in SUBSET {s \in Requests : Ended(s)} /\ before' = [before EXCEPT ![r] = B]
        BY <2>1, <3>1 DEF Arrive
    <3> QED BY <3>2, BeforeEnded
  <2>2. CASE ~Arrive(r)
    <3>1. before' = before \/ before' = [before EXCEPT ![r] = {}]
        BY <2>2 DEF Quiet, BadLimit, Search, EnsureNew, EnsureFound, EnsureFails, Recent,
            Rewrite, Retrieve, RequestFails, Answer, OpenStream, Delta, StreamFails,
            DeadlinePasses, StreamEnds, Elapsed, Respond, Moves, Goes, Ends, Forgets
    <3> QED BY <3>1, BeforeEnded
  <2> QED BY <2>1, <2>2
<1>4. conversation' = conversation
      \/ /\ stage[r] = "idle" /\ gate[r] = "admitted" /\ stage'[r] # "read"
         /\ \E c : conversation' = [conversation EXCEPT ![r] = c]
    BY <1>0 DEF TypeOK, Quiet, Arrive, BadLimit, Search, EnsureNew, EnsureFound, EnsureFails,
        Recent, Rewrite, Retrieve, RequestFails, Answer, OpenStream, Delta, StreamFails,
        DeadlinePasses, StreamEnds, Elapsed, Respond, Moves, Goes, Ends
<1>5. \A m \in messages : conversation'[m.turn] = conversation[m.turn]
  <2>0. \A m \in messages : m.turn \in Requests BY <1>0 DEF TypeOK, Row
  <2> SUFFICES ASSUME NEW m \in messages, stage[r] = "idle", m.turn = r PROVE FALSE
      BY <1>0, <1>4, <2>0 DEF TypeOK
  <2>1. m \in Stored(r) BY DEF Stored
  <2> QED BY <2>1 DEF TurnInv, PlaceOK
<1>6. \A x \in Requests : \A s \in before[x] :
          Stored(s)' = Stored(s) /\ conversation'[s] = conversation[s]
  <2> SUFFICES ASSUME NEW x \in Requests, NEW s \in before[x]
               PROVE  Stored(s)' = Stored(s) /\ conversation'[s] = conversation[s]
      OBVIOUS
  <2>1. Ended(s) /\ s \in Requests BY <1>0 DEF MemoryInv, TypeOK
  <2>2. stage[r] = "idle" /\ gate[r] = "admitted" => s # r BY <2>1 DEF Ended
  <2>3. conversation'[s] = conversation[s] BY <1>0, <1>4, <2>1, <2>2 DEF TypeOK
  <2>4. Stored(s)' = Stored(s) BY <1>1 DEF Stored
  <2> QED BY <2>3, <2>4
<1>7. ASSUME NEW x \in Requests PROVE FollowOK(x)'
  <2>1. CASE x = r /\ Recent(r)
    <3> SUFFICES ASSUME NEW s \in before'[r], NEW m \in Stored(s)', m.role = "assistant",
                        conversation'[s] = conversation'[r]
                 PROVE  m \in history'[r]
                        \/ HistoryLimit <= Cardinality(Younger(In(conversation[r]), m))'
        BY <2>1 DEF FollowOK
    <3>1. /\ UNCHANGED <<messages, conversation, before>>
          /\ history' = [history EXCEPT ![r] = Newest(In(conversation[r]))]
        BY <2>1 DEF Recent, Moves
    <3>2. PICK S : S = In(conversation[r]) OBVIOUS
    <3>3. S \subseteq messages /\ IsFiniteSet(S) /\ m \in S
        BY <3>1, <3>2, FS_Subset DEF In, Stored, TurnInv
    <3>4. Younger(S, m) \subseteq S BY DEF Younger
    <3>5. Cardinality(Younger(S, m)) \in Nat
        BY <3>3, <3>4, FS_Subset, FS_CardinalityType
    <3>6. m \in Newest(S) \/ HistoryLimit <= Cardinality(Younger(S, m))
        BY <3>3, <3>5, AskingAssumption DEF Newest
    <3>7. history'[r] = Newest(S) BY <1>0, <3>1, <3>2 DEF TypeOK
    <3>8. Younger(In(conversation[r]), m)' = Younger(S, m)
        BY <3>1, <3>2 DEF In, Younger
    <3> QED BY <3>6, <3>7, <3>8
  <2>2. CASE ~(x = r /\ Recent(r))
    <3>1. stage'[x] = "read" => x # r
        BY <1>0, <2>2 DEF TypeOK, Quiet, Arrive, ReadClock, PlaceOK, BadLimit, Search, EnsureNew,
            EnsureFound, EnsureFails, Rewrite, Retrieve, RequestFails, Answer, OpenStream, Delta,
            StreamFails, DeadlinePasses, StreamEnds, Elapsed, Respond, Moves, Goes, Ends
    <3>2. x # r => /\ stage'[x] = stage[x]
                   /\ history'[x] = history[x]
                   /\ conversation'[x] = conversation[x]
                   /\ before'[x] = before[x]
      <4>1. x # r => stage'[x] = stage[x]
          BY <1>0 DEF TypeOK, Quiet, Arrive, BadLimit, Search, EnsureNew, EnsureFound,
              EnsureFails, Recent, Rewrite, Retrieve, RequestFails, Answer, OpenStream, Delta,
              StreamFails, DeadlinePasses, StreamEnds, Elapsed, Respond, Moves, Goes, Ends
      <4>2. x # r => history'[x] = history[x]
          BY <1>0 DEF TypeOK, Quiet, Arrive, BadLimit, Search, EnsureNew, EnsureFound,
              EnsureFails, Recent, Rewrite, Retrieve, RequestFails, Answer, OpenStream, Delta,
              StreamFails, DeadlinePasses, StreamEnds, Elapsed, Respond, Moves, Goes, Ends, Forgets
      <4>3. x # r => before'[x] = before[x]
          BY <1>0 DEF TypeOK, Quiet, Arrive, BadLimit, Search, EnsureNew, EnsureFound,
              EnsureFails, Recent, Rewrite, Retrieve, RequestFails, Answer, OpenStream, Delta,
              StreamFails, DeadlinePasses, StreamEnds, Elapsed, Respond, Moves, Goes, Ends, Forgets
      <4>4. x # r => conversation'[x] = conversation[x]
          BY <1>0, <1>4 DEF TypeOK
      <4> QED BY <4>1, <4>2, <4>3, <4>4
    <3>3. FollowOK(x) BY DEF MemoryInv, FollowUpRemembers, FollowOK
    <3>4. IsFiniteSet(messages') /\ messages \subseteq messages'
        BY <1>1 DEF TurnInv
    <3> QED BY <1>5, <1>6, <3>1, <3>2, <3>3, <3>4, FollowFrame
  <2> QED BY <2>1, <2>2
<1> QED BY <1>2, <1>3, <1>7 DEF MemoryInv, FollowUpRemembers, FollowOK

\* So do those that write rows.
LEMMA MemoryWrites ==
    ASSUME NEW r \in Requests, TurnInv, TurnInv', MemoryInv, [Next]_vars,
           Insert(r) \/ Commit(r) \/ AppendFails(r) \/ Disconnect(r)
    PROVE  MemoryInv'
<1>0. TypeOK /\ PlaceOK(r) BY DEF TurnInv
<1>1. ~Ended(r)
    BY <1>0 DEF Insert, Commit, AppendFails, Disconnect, Ended, PlaceOK, Under
<1>2. HistoryIsAnswered'
  <2>1. history' = history \/ history' = [history EXCEPT ![r] = {}]
      BY DEF Insert, Commit, AppendFails, Disconnect, Forgets
  <2> QED BY <2>1, HistoryKept
<1>3. \A x \in Requests : \A s \in before'[x] : Ended(s)'
  <2>1. before' = before \/ before' = [before EXCEPT ![r] = {}]
      BY DEF Insert, Commit, AppendFails, Disconnect, Forgets
  <2> QED BY <2>1, BeforeEnded
<1>4. /\ messages \subseteq messages' /\ UNCHANGED conversation
      /\ \A s \in Requests : s # r => Stored(s)' = Stored(s)
  <2>1. CASE Insert(r)
      BY <2>1 DEF Insert, Stored
  <2>2. CASE Commit(r) \/ AppendFails(r) \/ Disconnect(r)
    <3>1. Closes(r) /\ stage[r] # "ended" /\ UNCHANGED conversation
        BY <2>2 DEF Closes, Commit, AppendFails, Disconnect, CutShort
    <3>2. messages \subseteq messages' BY <3>1 DEF Closes
    <3> QED BY <3>1, <3>2, ClosingRows
  <2> QED BY <2>1, <2>2
<1>5. ASSUME NEW x \in Requests PROVE FollowOK(x)'
  <2>1. FollowOK(x) BY DEF MemoryInv, FollowUpRemembers, FollowOK
  <2>2. \A s \in before[x] : Stored(s)' = Stored(s) /\ conversation'[s] = conversation[s]
      BY <1>0, <1>1, <1>4 DEF MemoryInv, TypeOK
  <2>3. stage'[x] = "read" => /\ stage[x] = "read"
                              /\ history'[x] = history[x]
                              /\ conversation'[x] = conversation[x]
                              /\ before'[x] = before[x]
      BY <1>0 DEF TypeOK, Insert, Commit, AppendFails, Disconnect, Forgets
  <2>4. IsFiniteSet(messages') BY DEF TurnInv
  <2> QED BY <1>4, <2>1, <2>2, <2>3, <2>4, FollowFrame
<1> QED BY <1>2, <1>3, <1>5 DEF MemoryInv, FollowUpRemembers, FollowOK

------------------------------------------------------------------------------
(* The invariant of Asking.                                                *)

AskingInv == LimiterInv /\ TurnInv /\ MemoryInv

\* The invariant holds at first.
LEMMA AskingStarts == Init => AskingInv
    BY LimiterStarts, TurnsStart, MemoryStarts DEF AskingInv, Init

\* Every step keeps the invariant.
LEMMA AskingStep == AskingInv /\ [Next]_vars => AskingInv'
<1> SUFFICES ASSUME AskingInv, [Next]_vars PROVE AskingInv' OBVIOUS
<1>0. LimiterInv /\ TurnInv /\ MemoryInv BY DEF AskingInv
<1>1. LimiterInv' BY <1>0, LimiterStep, StepLimiter
<1>2. CASE Limiter
  <2>1. TurnInv' BY <1>0, <1>2, LimiterTurns
  <2>2. UNCHANGED askingVars BY <1>2 DEF Limiter
  <2>3. \A x \in Requests : \A s \in before'[x] : Ended(s)'
      BY <1>0, <2>2, EndedStays DEF MemoryInv, askingVars, TurnInv, TypeOK
  <2>4. HistoryIsAnswered' /\ FollowUpRemembers'
      BY <1>0, <2>2 DEF MemoryInv, askingVars, HistoryIsAnswered, FollowUpRemembers, Stored, In,
          Younger
  <2> QED BY <1>1, <2>1, <2>3, <2>4 DEF AskingInv, MemoryInv
<1>3. CASE UNCHANGED vars
  <2>1. TurnInv'
    <3>0. TypeOK /\ seq \in Nat BY <1>0 DEF TurnInv, TypeOK
    <3>1. TypeOK'
        BY <1>3, <3>0 DEF vars, limiterVars, askingVars, TypeOK, LimiterTypeOK
    <3>2. ASSUME NEW s \in Requests PROVE OpenOK(s)' /\ StoredOK(s)' /\ PlaceOK(s)'
      <4>1. OpenOK(s) /\ StoredOK(s) /\ PlaceOK(s) BY <1>0 DEF TurnInv
      <4>2. Stored(s)' = Stored(s) BY <1>3 DEF vars, askingVars, Stored
      <4>3. seq' = seq /\ seq <= seq BY <1>3, <3>0 DEF vars, askingVars
      <4> QED BY <1>3, <3>0, <4>1, <4>2, <4>3, Frame DEF vars, limiterVars, askingVars
    <3> QED BY <1>0, <1>3, <3>1, <3>2 DEF TurnInv, vars, askingVars
  <2>2. MemoryInv'
      BY <1>0, <1>3 DEF vars, limiterVars, askingVars, MemoryInv, HistoryIsAnswered,
          FollowUpRemembers, Stored, In, Younger, Ended
  <2> QED BY <1>1, <2>1, <2>2 DEF AskingInv
<1>4. ASSUME NEW r \in Requests, Quiet(r) PROVE AskingInv'
  <2>1. TurnInv' BY <1>0, <1>4, QuietStep
  <2> QED BY <1>0, <1>1, <1>4, <2>1, MemoryQuiet DEF AskingInv
<1>5. ASSUME NEW r \in Requests, Insert(r) \/ Commit(r) \/ AppendFails(r) \/ Disconnect(r)
      PROVE  AskingInv'
  <2>1. TurnInv' BY <1>0, <1>5, InsertStep, ClosingStep
  <2> QED BY <1>0, <1>1, <1>5, <2>1, MemoryWrites DEF AskingInv
<1> QED BY <1>2, <1>3, <1>4, <1>5 DEF Next, Proceeds, Quiet

(* The type invariant and what the others rest on: a transaction holds the *)
(* question, then the younger answer, and the two appear together.         *)
THEOREM AskingInvariant == Spec => []AskingInv
    BY AskingStarts, AskingStep, PTL DEF Spec

(* Every variable of Asking keeps its type.                                *)
THEOREM AskingTypeCorrect == Spec => []TypeOK
<1>1. AskingInv => TypeOK BY DEF AskingInv, TurnInv
<1> QED BY <1>1, AskingInvariant, PTL

(* No request reads a question without its answer (append_turn, recent).   *)
THEOREM HistoryIsAnsweredAlways == Spec => []HistoryIsAnswered
<1>1. AskingInv => HistoryIsAnswered BY DEF AskingInv, MemoryInv
<1> QED BY <1>1, AskingInvariant, PTL

(* An answer given in full, or up to the deadline, has been stored when    *)
(* the response ends, but for a stream whose append failed.                *)
THEOREM ToldIsStoredAlways == Spec => []ToldIsStored
<1>1. ASSUME AskingInv PROVE ToldIsStored
  <2> SUFFICES ASSUME NEW r \in Requests, told[r] = "ok",
                      Kind[r] = "plain" \/ (said[r] > 0 /\ ~lost[r])
               PROVE  {m.role : m \in Stored(r)} = Roles
      BY DEF ToldIsStored
  <2>1. PlaceOK(r) /\ StoredOK(r) BY <1>1 DEF AskingInv, TurnInv
  <2>2. Stored(r) # {} BY <2>1 DEF PlaceOK
  <2>3. IsTurn(Stored(r), r) BY <2>1, <2>2 DEF StoredOK
  <2> QED BY <2>3, TurnFacts
<1> QED BY <1>1, AskingInvariant, PTL

(* What is stored are whole turns, of requests that were answered without  *)
(* an error.                                                               *)
THEOREM StoredWasAnsweredAlways == Spec => []StoredWasAnswered
<1>1. ASSUME AskingInv PROVE StoredWasAnswered
  <2> SUFFICES ASSUME NEW r \in Requests, Stored(r) # {}
               PROVE  /\ {m.role : m \in Stored(r)} = Roles
                      /\ told[r] # "broken"
                      /\ Kind[r] = "plain" \/ said[r] > 0
      BY DEF StoredWasAnswered
  <2>1. PlaceOK(r) /\ StoredOK(r) BY <1>1 DEF AskingInv, TurnInv
  <2>2. IsTurn(Stored(r), r) BY <2>1 DEF StoredOK
  <2>3. told[r] # "broken" /\ Worth(r) BY <2>1 DEF PlaceOK
  <2> QED BY <2>2, <2>3, TurnFacts DEF Worth
<1> QED BY <1>1, AskingInvariant, PTL

(* A follow-up reads the stored answer that had ended before it was asked, *)
(* unless younger rows fill its history.                                   *)
THEOREM FollowUpRemembersAlways == Spec => []FollowUpRemembers
<1>1. AskingInv => FollowUpRemembers BY DEF AskingInv, MemoryInv
<1> QED BY <1>1, AskingInvariant, PTL
==============================================================================
