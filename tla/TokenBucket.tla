----------------------------- MODULE TokenBucket -----------------------------
(***************************************************************************)
(* One client's token bucket, as the request rate limit and the per-email  *)
(* sign-in limit use it (web/ratelimit/TokenBucket.java).  A request       *)
(* thread finds or creates the bucket, reads System.nanoTime() and only    *)
(* then enters the synchronized tryConsume, so clock readings may reach    *)
(* the bucket out of order.                                                *)
(*                                                                         *)
(* The code keeps the balance as a double that accrues                     *)
(* refillTokens / refillPeriodNanos per nanosecond.  Here the balance is   *)
(* the exact rational, counted in units of 1/RefillPeriod of a token:      *)
(* a tick accrues RefillTokens units and a request costs RefillPeriod.     *)
(***************************************************************************)
EXTENDS Integers, Sequences

CONSTANTS Threads,         \* request threads of one instance
          Capacity,        \* the burst
          RefillTokens,    \* tokens accrued ...
          RefillPeriod,    \* ... per so many ticks of the clock
          TicksPerSecond,  \* resolution of the clock
          Horizon          \* bound: the clock stops here

ASSUME BucketAssumption ==
  /\ Capacity \in Nat \ {0}
  /\ RefillTokens \in Nat \ {0}
  /\ RefillPeriod \in Nat \ {0}
  /\ TicksPerSecond \in Nat \ {0}
  /\ Horizon \in Nat

VARIABLES clock,       \* System.nanoTime(), in ticks
          exists,      \* the map holds a bucket for the key
          balance,     \* tokens * RefillPeriod
          lastRefill,  \* lastRefillNanos
          pc,          \* where each thread is
          stamp,       \* the clock reading a thread carries into tryConsume
          retryAfter,  \* the last answer of each thread: 0 allowed, else seconds
          grants       \* history: lastRefill at every allowed request, in order

vars == <<clock, exists, balance, lastRefill, pc, stamp, retryAfter, grants>>

MinOf(a, b) == IF a <= b THEN a ELSE b
CeilDiv(a, b) == (a + b - 1) \div b

Full == Capacity * RefillPeriod
Cost == RefillPeriod

TypeOK ==
  /\ clock \in Nat
  /\ exists \in BOOLEAN
  /\ balance \in Nat
  /\ lastRefill \in Nat
  /\ pc \in [Threads -> {"idle", "found", "stamped"}]
  /\ stamp \in [Threads -> Nat]
  /\ retryAfter \in [Threads -> Nat]
  /\ grants \in Seq(Nat)

Init ==
  /\ clock = 0
  /\ exists = FALSE
  /\ balance = 0
  /\ lastRefill = 0
  /\ pc = [t \in Threads |-> "idle"]
  /\ stamp = [t \in Threads |-> 0]
  /\ retryAfter = [t \in Threads |-> 0]
  /\ grants = << >>

Tick ==
  /\ clock < Horizon
  /\ clock' = clock + 1
  /\ UNCHANGED <<exists, balance, lastRefill, pc, stamp, retryAfter, grants>>

\* buckets.computeIfAbsent: a new bucket starts full, stamped inside the map's lock.
FindBucket(t) ==
  /\ pc[t] = "idle"
  /\ pc' = [pc EXCEPT ![t] = "found"]
  /\ exists' = TRUE
  /\ balance' = IF exists THEN balance ELSE Full
  /\ lastRefill' = IF exists THEN lastRefill ELSE clock
  /\ UNCHANGED <<clock, stamp, retryAfter, grants>>

\* The argument of tryConsume is evaluated before the monitor is entered.
ReadClock(t) ==
  /\ pc[t] = "found"
  /\ pc' = [pc EXCEPT ![t] = "stamped"]
  /\ stamp' = [stamp EXCEPT ![t] = clock]
  /\ UNCHANGED <<clock, exists, balance, lastRefill, retryAfter, grants>>

\* refill: a reading at or before the last one accrues nothing.
Elapsed(now) == IF now - lastRefill <= 0 THEN 0 ELSE now - lastRefill

\* (a slip) refill without the elapsed <= 0 return: a late reading drains the bucket.
RefilledSigned(now) == MinOf(Full, balance + (now - lastRefill) * RefillTokens)

\* (a slip) The absolute difference: a late reading accrues for time already counted.
RefilledAbs(now) ==
  LET span == IF now < lastRefill THEN lastRefill - now ELSE now - lastRefill
  IN  MinOf(Full, balance + span * RefillTokens)

\* (a slip) refill that forgets the cap.
RefilledUncapped(now) == balance + Elapsed(now) * RefillTokens

Refilled(now) == IF now - lastRefill <= 0
                   THEN balance
                   ELSE MinOf(Full, balance + Elapsed(now) * RefillTokens)

\* (a slip) Retry-After rounded down instead of up.
SecondsFloor(bal) ==
  LET secs == ((Cost - bal) \div RefillTokens) \div TicksPerSecond
  IN  IF secs < 1 THEN 1 ELSE secs

\* Whole seconds until one token is there, at least one.
SecondsUntilToken(bal) ==
  LET ticks == CeilDiv(Cost - bal, RefillTokens)
      secs  == CeilDiv(ticks, TicksPerSecond)
  IN  IF secs < 1 THEN 1 ELSE secs

\* The synchronized method: refill, then spend one token or refuse.
TryConsume(t) ==
  LET bal == Refilled(stamp[t]) IN
  /\ pc[t] = "stamped"
  /\ pc' = [pc EXCEPT ![t] = "idle"]
  /\ lastRefill' = lastRefill + Elapsed(stamp[t])
  /\ \/ /\ bal >= Cost
        /\ balance' = bal - Cost
        /\ retryAfter' = [retryAfter EXCEPT ![t] = 0]
        /\ grants' = Append(grants, lastRefill')
     \/ /\ bal < Cost
        /\ balance' = bal
        /\ retryAfter' = [retryAfter EXCEPT ![t] = SecondsUntilToken(bal)]
        /\ UNCHANGED grants
  /\ stamp' = [stamp EXCEPT ![t] = 0]
  /\ UNCHANGED <<clock, exists>>

Next == Tick \/ \E t \in Threads : FindBucket(t) \/ ReadClock(t) \/ TryConsume(t)

Spec == Init /\ [][Next]_vars

-----------------------------------------------------------------------------
(* What the limiter promises. *)

\* The point of the class comment ("limit one client"): between any two
\* allowed requests, however the threads' clock readings were reordered on
\* the way in, no more requests were allowed than the burst plus what
\* accrued between the two refill instants.
WindowBound ==
  \A i \in 1 .. Len(grants) : \A j \in i .. Len(grants) :
    (j - i + 1) * Cost <= Full + RefillTokens * (grants[j] - grants[i])

\* The balance never exceeds the capacity, and the bucket is never credited
\* for time that has not passed.
BalanceBounds ==
  /\ balance <= Full
  /\ lastRefill <= clock

\* The balance s whole seconds after it was bal, if nobody else spends.
After(bal, s) == bal + RefillTokens * TicksPerSecond * s

AnswerHonest(t) ==
  pc[t] = "stamped" /\ pc'[t] = "idle" /\ retryAfter'[t] > 0 =>
    /\ After(balance', retryAfter'[t]) >= Cost
    /\ retryAfter'[t] > 1 => After(balance', retryAfter'[t] - 1) < Cost

\* Retry-After is honest: a refused client that waits the seconds it was
\* told, with nobody else spending, finds a whole token; and it was not told
\* to wait a second more than that takes (one second is the least it can say).
RetryAfterHonest == [][\A t \in Threads : AnswerHonest(t)]_vars

=============================================================================
