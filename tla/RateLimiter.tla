----------------------------- MODULE RateLimiter -----------------------------
(***************************************************************************)
(* rate_limit::check: one tenant's fixed-window counter in Redis.          *)
(*                                                                         *)
(* A request reads its own clock, increments the counter of that minute,   *)
(* and, if it was the first, sets the counter's time to live: two commands *)
(* with other requests, the clock and failures between them.               *)
(*                                                                         *)
(* Simplifications.                                                        *)
(*  - One clock: the replicas of the API and Redis agree on the time.      *)
(*  - A command that fails may have been executed; it is not sent again.   *)
(***************************************************************************)
EXTENDS Integers, FiniteSets

CONSTANTS
    Requests,   \* the requests of one tenant
    Served,     \* those let through before the first minute here
    Window,     \* WINDOW_SECS
    Limit,      \* rate_limit_per_minute
    LastMinute  \* bounds the clock, which stops when it begins

ASSUME LimiterAssumption ==
    /\ IsFiniteSet(Requests)
    /\ Served \subseteq Requests
    /\ Window \in Nat \ {0}
    /\ Limit \in Nat
    /\ LastMinute \in Nat

VARIABLES
    now,      \* the minute of the clock: seconds since the epoch / Window
    second,   \* the second within it
    count,    \* count[m]: the counter of minute m, 0 when the key is absent
    ttl,      \* ttl[m]: the seconds the key of minute m has left, 0 when it stays
    gate,     \* gate[r]: how far check has come for r
    minute,   \* minute[r]: the minute r read off the clock
    timely    \* timely[r]: the INCR came within the minute r had read

limiterVars == <<now, second, count, ttl, gate, minute, timely>>

Minutes == 0 .. LastMinute
Gates == {"new", "counting", "first", "admitted", "refused", "failed"}

LimiterTypeOK ==
    /\ now \in Minutes
    /\ second \in 0 .. Window - 1
    /\ count \in [Minutes -> Nat]
    /\ ttl \in [Minutes -> Nat]
    /\ gate \in [Requests -> Gates]
    /\ minute \in [Requests -> Minutes]
    /\ timely \in [Requests -> BOOLEAN]

LimiterInit ==
    /\ now = 0
    /\ second = 0
    /\ count = [m \in Minutes |-> 0]
    /\ ttl = [m \in Minutes |-> 0]
    /\ gate = [r \in Requests |-> IF r \in Served THEN "admitted" ELSE "new"]
    /\ minute = [r \in Requests |-> 0]
    /\ timely = [r \in Requests |-> FALSE]

\* Redis drops a key in its last second.
Tick ==
    /\ now < LastMinute
    /\ \/ second < Window - 1 /\ second' = second + 1 /\ UNCHANGED now
       \/ second = Window - 1 /\ second' = 0 /\ now' = now + 1
    /\ count' = [m \in Minutes |-> IF ttl[m] = 1 THEN 0 ELSE count[m]]
    /\ ttl'   = [m \in Minutes |-> IF ttl[m] = 0 THEN 0 ELSE ttl[m] - 1]
    /\ UNCHANGED <<gate, minute, timely>>

\* Mutant: the minute to come, from a division that rounds up.
ReadClock_RoundsUp(r) ==
    /\ gate[r] = "new"
    /\ gate' = [gate EXCEPT ![r] = "counting"]
    /\ minute' = [minute EXCEPT ![r] = now + 1]
    /\ UNCHANGED <<now, second, count, ttl, timely>>

ReadClock(r) ==
    /\ gate[r] = "new"
    /\ gate' = [gate EXCEPT ![r] = "counting"]
    /\ minute' = [minute EXCEPT ![r] = now]
    /\ UNCHANGED <<now, second, count, ttl, timely>>

Verdict(n) == IF n > Limit THEN "refused" ELSE "admitted"

Incr(r) ==
    LET n == count[minute[r]] + 1 IN
    /\ gate[r] = "counting"
    /\ count' = [count EXCEPT ![minute[r]] = n]
    /\ timely' = [timely EXCEPT ![r] = minute[r] = now]
    /\ gate' = [gate EXCEPT ![r] = IF n = 1 THEN "first" ELSE Verdict(n)]
    /\ UNCHANGED <<now, second, ttl, minute>>

\* Mutant: the time to live lasts to the second before the window ends.
LifeTime_Short == Window - 1

LifeTime == Window

\* EXPIRE does nothing to a key that is not there.
Expiring(m) == IF count[m] > 0 THEN [ttl EXCEPT ![m] = LifeTime] ELSE ttl

Expire(r) ==
    /\ gate[r] = "first"
    /\ ttl' = Expiring(minute[r])
    /\ gate' = [gate EXCEPT ![r] = Verdict(1)]
    /\ UNCHANGED <<now, second, count, minute, timely>>

\* A command fails, executed or not: the request ends with a 500.
CommandFails(r) ==
    /\ gate[r] \in {"counting", "first"}
    /\ gate' = [gate EXCEPT ![r] = "failed"]
    /\ \/ UNCHANGED <<count, ttl>>
       \/ /\ gate[r] = "counting"
          /\ count' = [count EXCEPT ![minute[r]] = @ + 1]
          /\ UNCHANGED ttl
       \/ /\ gate[r] = "first"
          /\ ttl' = Expiring(minute[r])
          /\ UNCHANGED count
    /\ UNCHANGED <<now, second, minute, timely>>

LimiterNext ==
    \/ Tick
    \/ \E r \in Requests : ReadClock(r) \/ Incr(r) \/ Expire(r) \/ CommandFails(r)

(* At most Limit of the requests counted within a minute are let through,  *)
(* in whatever order their commands interleave with each other, with the   *)
(* clock and with the expiry of the counter, and whichever of them fail.   *)
(* A request whose INCR comes after its minute is outside: its counter may *)
(* have expired, and it counts from one again.                             *)
LimitHolds ==
    \A m \in Minutes :
        Cardinality({r \in Requests : gate[r] = "admitted" /\ timely[r] /\ minute[r] = m})
            <= Limit
==============================================================================
