-------------------------- MODULE TokenBucketProofs --------------------------
(***************************************************************************)
(* For every capacity, rate, clock resolution and set of threads: the      *)
(* balance stays in range, no window admits more than burst + accrual, and *)
(* Retry-After names the first whole second with a token.                  *)
(***************************************************************************)
EXTENDS TokenBucket, SequenceTheorems, TLAPS

\* Products with a symbolic rate are beyond the solver's linear arithmetic;
\* these two facts are all the algebra the proof needs.
LEMMA Distribute ==
  ASSUME NEW a \in Int, NEW b \in Int, NEW c \in Int
  PROVE  /\ (a + b) * c = a * c + b * c
         /\ c * (a + b) = c * a + c * b
         /\ c * (a - b) = c * a - c * b
         /\ 1 * c = c
         /\ a * c \in Int /\ c * a \in Int /\ a * c = c * a
  OBVIOUS

LEMMA ProductNat == ASSUME NEW a \in Nat, NEW c \in Nat PROVE a * c \in Nat /\ c * a \in Nat
  OBVIOUS

LEMMA ConstantsType == Full \in Nat /\ Cost \in Nat \ {0} /\ Cost <= Full
  <1>1. Capacity * RefillPeriod = (Capacity - 1) * RefillPeriod + RefillPeriod
    BY BucketAssumption
  <1>2. (Capacity - 1) * RefillPeriod \in Nat
    BY BucketAssumption, ProductNat
  <1> QED BY <1>1, <1>2, BucketAssumption DEF Full, Cost

\* What the lazy refill guarantees of one clock reading: it credits at most
\* the rate times the time it moves lastRefill by, and never past the cap.
LEMMA RefillFacts ==
  ASSUME TypeOK, BalanceBounds, NEW now \in Nat, now <= clock
  PROVE  /\ Elapsed(now) \in Nat
         /\ lastRefill + Elapsed(now) <= clock
         /\ RefillTokens * Elapsed(now) \in Nat
         /\ Refilled(now) \in Int
         /\ balance <= Refilled(now) /\ Refilled(now) <= Full
         /\ Refilled(now) <= balance + RefillTokens * Elapsed(now)
  <1>1. Elapsed(now) \in Nat /\ lastRefill + Elapsed(now) <= clock
    BY DEF Elapsed, TypeOK, BalanceBounds
  <1>2. RefillTokens * Elapsed(now) \in Nat /\ Elapsed(now) * RefillTokens = RefillTokens * Elapsed(now)
    <2>1. RefillTokens \in Nat BY BucketAssumption
    <2> QED BY <2>1, <1>1, ProductNat, Distribute
  <1>3. CASE now - lastRefill <= 0
    BY <1>1, <1>2, <1>3, ConstantsType DEF Refilled, TypeOK, BalanceBounds
  <1>4. CASE ~(now - lastRefill <= 0)
    <2> DEFINE acc == Elapsed(now) * RefillTokens
    <2>1. acc \in Nat /\ acc = RefillTokens * Elapsed(now) BY <1>2
    <2>2. Refilled(now) = MinOf(Full, balance + acc) BY <1>4 DEF Refilled
    <2> HIDE DEF acc
    <2> QED BY <1>1, <2>1, <2>2, ConstantsType DEF MinOf, TypeOK, BalanceBounds
  <1> QED BY <1>1, <1>2, <1>3, <1>4

\* Readings in flight are never from the future.
StampsPast == \A t \in Threads : stamp[t] <= clock

LEMMA InitType == Init => TypeOK /\ BalanceBounds /\ StampsPast
  <1> SUFFICES ASSUME Init PROVE TypeOK /\ BalanceBounds /\ StampsPast
    OBVIOUS
  <1>1. grants \in Seq(Nat)
    <2>1. << >> \in Seq(Nat) BY EmptySeq
    <2> QED BY <2>1 DEF Init
  <1>2. TypeOK
    <2>1. stamp \in [Threads -> Nat] /\ retryAfter \in [Threads -> Nat] BY DEF Init
    <2>2. pc \in [Threads -> {"idle", "found", "stamped"}] BY DEF Init
    <2>3. exists \in BOOLEAN BY DEF Init
    <2>4. clock \in Nat /\ balance \in Nat /\ lastRefill \in Nat BY DEF Init
    <2> QED BY <1>1, <2>1, <2>2, <2>3, <2>4 DEF TypeOK
  <1>3. BalanceBounds /\ StampsPast BY ConstantsType DEF Init, BalanceBounds, StampsPast
  <1> QED BY <1>2, <1>3

LEMMA TypeStep == TypeOK /\ BalanceBounds /\ StampsPast /\ [Next]_vars => TypeOK' /\ BalanceBounds' /\ StampsPast'
  <1> SUFFICES ASSUME TypeOK, BalanceBounds, StampsPast, [Next]_vars
               PROVE  TypeOK' /\ BalanceBounds' /\ StampsPast'
    OBVIOUS
  <1> USE ConstantsType
  <1>1. CASE Tick
    BY <1>1 DEF Tick, TypeOK, BalanceBounds, StampsPast
  <1>2. ASSUME NEW t \in Threads, FindBucket(t) PROVE TypeOK' /\ BalanceBounds' /\ StampsPast'
    <2>1. TypeOK' BY <1>2 DEF FindBucket, TypeOK
    <2>2. BalanceBounds' BY <1>2 DEF FindBucket, TypeOK, BalanceBounds
    <2>3. StampsPast' BY <1>2 DEF FindBucket, StampsPast
    <2> QED BY <2>1, <2>2, <2>3
  <1>3. ASSUME NEW t \in Threads, ReadClock(t) PROVE TypeOK' /\ BalanceBounds' /\ StampsPast'
    BY <1>3 DEF ReadClock, TypeOK, BalanceBounds, StampsPast
  <1>4. ASSUME NEW t \in Threads, TryConsume(t) PROVE TypeOK' /\ BalanceBounds' /\ StampsPast'
    <2> DEFINE el == Elapsed(stamp[t])
               bal == Refilled(stamp[t])
    <2>1. stamp[t] \in Nat /\ stamp[t] <= clock BY DEF TypeOK, StampsPast
    <2>2. el \in Nat /\ lastRefill + el <= clock /\ bal \in Int /\ balance <= bal /\ bal <= Full
      BY <2>1, RefillFacts
    <2>3. /\ lastRefill' = lastRefill + el /\ clock' = clock /\ exists' = exists
          /\ pc' = [pc EXCEPT ![t] = "idle"] /\ stamp' = [stamp EXCEPT ![t] = 0]
      BY <1>4 DEF TryConsume
    <2>4. \/ /\ bal >= Cost /\ balance' = bal - Cost
             /\ retryAfter' = [retryAfter EXCEPT ![t] = 0] /\ grants' = Append(grants, lastRefill')
          \/ /\ bal < Cost /\ balance' = bal /\ grants' = grants
             /\ retryAfter' = [retryAfter EXCEPT ![t] = SecondsUntilToken(bal)]
      BY <1>4 DEF TryConsume
    <2>5. ASSUME bal < Cost PROVE SecondsUntilToken(bal) \in Nat
      <3>1. \A a \in Int : \A b \in Nat \ {0} : CeilDiv(a, b) \in Int
        BY DEF CeilDiv
      <3> DEFINE ticks == CeilDiv(Cost - bal, RefillTokens)
                 secs == CeilDiv(ticks, TicksPerSecond)
      <3>2. ticks \in Int BY <3>1, <2>2, BucketAssumption
      <3> HIDE DEF ticks
      <3>3. secs \in Int BY <3>1, <3>2, BucketAssumption
      <3> HIDE DEF secs
      <3>4. SecondsUntilToken(bal) = IF secs < 1 THEN 1 ELSE secs
        BY DEF SecondsUntilToken, secs, ticks
      <3> QED BY <3>3, <3>4
    <2> HIDE DEF el, bal
    <2>6. lastRefill' \in Nat /\ lastRefill' <= clock BY <2>2, <2>3 DEF TypeOK
    <2>7. TypeOK'
      <3>1. balance' \in Nat BY <2>2, <2>4 DEF TypeOK
      <3>2. retryAfter' \in [Threads -> Nat]
        <4>1. PICK r \in Nat : retryAfter' = [retryAfter EXCEPT ![t] = r]
          BY <2>4, <2>5
        <4> QED BY <4>1 DEF TypeOK
      <3>3. grants' \in Seq(Nat)
        <4>1. grants \in Seq(Nat) BY DEF TypeOK
        <4>2. Append(grants, lastRefill') \in Seq(Nat) BY <2>6, <4>1, AppendProperties
        <4> QED BY <2>4, <4>1, <4>2
      <3>4. pc' \in [Threads -> {"idle", "found", "stamped"}] /\ stamp' \in [Threads -> Nat]
        BY <2>3 DEF TypeOK
      <3> QED BY <2>3, <2>6, <3>1, <3>2, <3>3, <3>4 DEF TypeOK
    <2>8. BalanceBounds' BY <2>2, <2>3, <2>4, <2>6 DEF BalanceBounds, TypeOK
    <2>9. StampsPast' BY <2>3 DEF StampsPast, TypeOK
    <2> QED BY <2>7, <2>8, <2>9
  <1>5. CASE UNCHANGED vars
    BY <1>5 DEF vars, TypeOK, BalanceBounds, StampsPast
  <1> QED BY <1>1, <1>2, <1>3, <1>4, <1>5 DEF Next

\* The balance never leaves 0 .. capacity and time is never credited early.
THEOREM BalanceSafe == Spec => [](TypeOK /\ BalanceBounds)
  <1>1. Init => TypeOK /\ BalanceBounds /\ StampsPast
    BY InitType
  <1> QED BY <1>1, TypeStep, PTL DEF Spec

-----------------------------------------------------------------------------
(* The window bound. *)

\* What makes it inductive: counted from any earlier grant, the tokens spent
\* since and the tokens still there were all in the burst or accrued since.
Accounted ==
  /\ ~exists => grants = << >> /\ \A t \in Threads : pc[t] = "idle"
  /\ \A i \in 1 .. Len(grants) :
       /\ grants[i] <= lastRefill
       /\ (Len(grants) - i + 1) * Cost + balance
            <= Full + RefillTokens * (lastRefill - grants[i])

LEMMA AccountedStep ==
  TypeOK /\ BalanceBounds /\ StampsPast /\ Accounted /\ WindowBound /\ [Next]_vars
    => Accounted' /\ WindowBound'
  <1> SUFFICES ASSUME TypeOK, BalanceBounds, StampsPast, Accounted, WindowBound, [Next]_vars
               PROVE  Accounted' /\ WindowBound'
    OBVIOUS
  <1> USE ConstantsType
  <1>1. CASE Tick
    <2>1. UNCHANGED <<exists, balance, lastRefill, pc, grants>> BY <1>1 DEF Tick
    <2> QED BY <2>1 DEF Accounted, WindowBound
  <1>2. ASSUME NEW t \in Threads, FindBucket(t) PROVE Accounted' /\ WindowBound'
    <2>1. grants' = grants /\ exists' BY <1>2 DEF FindBucket
    <2>2. WindowBound' BY <2>1 DEF WindowBound
    <2>3. CASE exists
      <3>1. UNCHANGED <<balance, lastRefill, grants>> BY <1>2, <2>3 DEF FindBucket
      <3> QED BY <2>1, <2>2, <2>3, <3>1 DEF Accounted
    <2>4. CASE ~exists
      <3>1. grants = << >> BY <2>4 DEF Accounted
      <3>2. 1 .. Len(grants') = {} BY <3>1, <2>1
      <3> QED BY <2>1, <2>2, <3>2 DEF Accounted
    <2> QED BY <2>3, <2>4
  <1>3. ASSUME NEW t \in Threads, ReadClock(t) PROVE Accounted' /\ WindowBound'
    BY <1>3 DEF ReadClock, Accounted, WindowBound, TypeOK
  <1>4. ASSUME NEW t \in Threads, TryConsume(t) PROVE Accounted' /\ WindowBound'
    <2> DEFINE el  == Elapsed(stamp[t])
               bal == Refilled(stamp[t])
               n   == Len(grants)
    <2>1. exists /\ exists' = exists BY <1>4 DEF TryConsume, Accounted, TypeOK
    <2>2. /\ el \in Nat /\ RefillTokens * el \in Nat /\ bal \in Int
          /\ bal <= Full /\ bal <= balance + RefillTokens * el
      <3>1. stamp[t] \in Nat /\ stamp[t] <= clock BY DEF TypeOK, StampsPast
      <3> QED BY <3>1, RefillFacts
    <2>3. /\ lastRefill' = lastRefill + el
          /\ \/ bal >= Cost /\ balance' = bal - Cost /\ grants' = Append(grants, lastRefill')
             \/ balance' = bal /\ grants' = grants
      BY <1>4 DEF TryConsume
    <2> HIDE DEF el, bal
    <2>4. n \in Nat /\ lastRefill \in Nat /\ balance \in Int /\ \A i \in 1 .. n : grants[i] \in Nat
      BY ElementOfSeq, LenProperties DEF TypeOK
    <2>5. ASSUME NEW i \in 1 .. n
          PROVE  /\ (n - i + 1) * Cost \in Int
                 /\ (n - i + 1) * Cost + bal <= Full + RefillTokens * (lastRefill' - grants[i])
                 /\ (n + 1 - i + 1) * Cost = (n - i + 1) * Cost + Cost
                 /\ grants[i] <= lastRefill'
      <3>1. n - i + 1 \in Int /\ lastRefill - grants[i] \in Int BY <2>4
      <3>2. (n - i + 1) * Cost + balance <= Full + RefillTokens * (lastRefill - grants[i])
        BY DEF Accounted
      <3>3. RefillTokens * (lastRefill' - grants[i])
              = RefillTokens * (lastRefill - grants[i]) + RefillTokens * el
        <4>1. lastRefill' - grants[i] = (lastRefill - grants[i]) + el BY <2>2, <2>3, <2>4
        <4>2. RefillTokens \in Int BY BucketAssumption
        <4> QED BY <4>1, <4>2, <3>1, <2>2, Distribute
      <3>4. RefillTokens * (lastRefill - grants[i]) \in Int /\ (n - i + 1) * Cost \in Int
        BY <3>1, BucketAssumption, Distribute
      <3>5. (n + 1 - i + 1) * Cost = (n - i + 1) * Cost + Cost
        <4>1. n + 1 - i + 1 = (n - i + 1) + 1 BY <2>4
        <4> QED BY <4>1, <3>1, Distribute
      <3>6. grants[i] <= lastRefill' BY <2>2, <2>3, <2>4 DEF Accounted
      <3>7. (n - i + 1) * Cost + bal <= Full + RefillTokens * (lastRefill' - grants[i])
        <4> DEFINE x == (n - i + 1) * Cost
                   y == RefillTokens * (lastRefill - grants[i])
                   z == RefillTokens * el
        <4>1. x \in Int /\ y \in Int /\ z \in Int /\ bal <= balance + z /\ x + balance <= Full + y
          BY <2>2, <3>2, <3>4
        <4>2. RefillTokens * (lastRefill' - grants[i]) = y + z BY <3>3
        <4> HIDE DEF x, y, z
        <4>3. x + bal <= Full + (y + z) BY <4>1, <2>2, <2>4
        <4> QED BY <4>2, <4>3 DEF x
      <3> QED BY <3>4, <3>5, <3>6, <3>7
    <2>6. CASE balance' = bal /\ grants' = grants
      <3>1. WindowBound' BY <2>6 DEF WindowBound
      <3> QED BY <2>1, <2>5, <2>6, <3>1 DEF Accounted
    <2>7. CASE bal >= Cost /\ balance' = bal - Cost /\ grants' = Append(grants, lastRefill')
      <3>1. /\ Len(grants') = n + 1 /\ grants'[n + 1] = lastRefill'
            /\ \A i \in 1 .. n : grants'[i] = grants[i]
            /\ lastRefill' \in Nat
        <4>1. lastRefill' \in Nat BY <2>2, <2>3, <2>4
        <4> QED BY <4>1, <2>7, AppendProperties DEF TypeOK
      <3>2. /\ 1 * Cost = Cost /\ RefillTokens * (lastRefill' - lastRefill') = 0
        <4>1. lastRefill' - lastRefill' = 0
          <5>1. \A v \in Nat : v - v = 0 OBVIOUS
          <5> QED BY <5>1, <3>1
        <4>2. RefillTokens * 0 = 0 BY BucketAssumption
        <4>3. 1 * Cost = Cost OBVIOUS
        <4> QED BY <4>1, <4>2, <4>3
      <3>3. ASSUME NEW i \in 1 .. n + 1
            PROVE  /\ grants'[i] <= lastRefill'
                   /\ (n + 1 - i + 1) * Cost + balance' <= Full + RefillTokens * (lastRefill' - grants'[i])
        <4>1. CASE i = n + 1
          <5>1. n + 1 - i + 1 = 1 BY <4>1, <2>4
          <5>2. Cost + balance' <= Full BY <2>7, <2>2
          <5> QED BY <5>1, <5>2, <3>1, <3>2, <4>1
        <4>2. CASE i \in 1 .. n
          <5> DEFINE x == (n - i + 1) * Cost
                     y == RefillTokens * (lastRefill' - grants[i])
          <5>1. /\ x \in Int /\ x + bal <= Full + y /\ (n + 1 - i + 1) * Cost = x + Cost
                /\ grants[i] <= lastRefill'
            BY <2>5, <4>2
          <5>2. y \in Int
            <6>1. lastRefill' - grants[i] \in Int BY <3>1, <2>4, <4>2
            <6> QED BY <6>1, BucketAssumption, Distribute
          <5> HIDE DEF x, y
          <5>3. (x + Cost) + balance' <= Full + y BY <5>1, <5>2, <2>7, <2>2
          <5> QED BY <5>1, <5>3, <3>1, <4>2 DEF y
        <4> QED BY <4>1, <4>2, <2>4
      <3>4. Accounted' BY <2>1, <3>1, <3>3 DEF Accounted
      <3>5. WindowBound'
        <4> SUFFICES ASSUME NEW i \in 1 .. n + 1, NEW j \in i .. n + 1
                     PROVE  (j - i + 1) * Cost <= Full + RefillTokens * (grants'[j] - grants'[i])
          BY <3>1 DEF WindowBound
        <4>1. CASE j = n + 1
          <5> DEFINE x == (n + 1 - i + 1) * Cost
                     y == RefillTokens * (lastRefill' - grants'[i])
          <5>1. x + balance' <= Full + y BY <3>3
          <5>2. grants'[i] \in Nat BY <3>1, <2>4
          <5>3. x \in Int /\ y \in Int
            <6>1. n + 1 - i + 1 \in Int /\ lastRefill' - grants'[i] \in Int BY <2>4, <3>1, <5>2
            <6> QED BY <6>1, BucketAssumption, Distribute
          <5>4. balance' \in Int /\ 0 <= balance' BY <2>7, <2>2
          <5> HIDE DEF x, y
          <5>5. x <= Full + y
            <6>1. \A b \in Nat : x + b <= Full + y => x <= Full + y BY <5>3
            <6>2. balance' \in Nat BY <5>4
            <6> QED BY <5>1, <6>1, <6>2
          <5> QED BY <5>5, <4>1, <3>1 DEF x, y
        <4>2. CASE j \in i .. n
          <5>1. i \in 1 .. n /\ j \in 1 .. n /\ grants'[i] = grants[i] /\ grants'[j] = grants[j]
            BY <4>2, <2>4, <3>1
          <5>2. (j - i + 1) * Cost <= Full + RefillTokens * (grants[j] - grants[i])
            BY <4>2, <5>1 DEF WindowBound
          <5> QED BY <5>1, <5>2
        <4> QED BY <4>1, <4>2, <2>4
      <3> QED BY <3>4, <3>5
    <2> QED BY <2>3, <2>6, <2>7
  <1>5. CASE UNCHANGED vars
    BY <1>5 DEF vars, Accounted, WindowBound
  <1> QED BY <1>1, <1>2, <1>3, <1>4, <1>5 DEF Next

\* No span of time, however the clock readings were reordered, admits more
\* requests of one client than the burst plus what accrued in it.
THEOREM WindowSafe == Spec => []WindowBound
  <1>1. Init => TypeOK /\ BalanceBounds /\ StampsPast /\ Accounted /\ WindowBound
    <2>1. Init => Accounted /\ WindowBound
      BY EmptySeq DEF Init, Accounted, WindowBound
    <2> QED BY <2>1, InitType
  <1> QED BY <1>1, TypeStep, AccountedStep, PTL DEF Spec
-----------------------------------------------------------------------------
(* Retry-After. *)

\* Rounding up gives the least multiple that reaches a.
LEMMA CeilDivFacts ==
  ASSUME NEW a \in Int, NEW b \in Nat \ {0}
  PROVE  /\ CeilDiv(a, b) \in Int
         /\ b * CeilDiv(a, b) >= a /\ b * (CeilDiv(a, b) - 1) < a
  <1> DEFINE q == (a + b - 1) \div b
             r == (a + b - 1) % b
  <1>1. q \in Int /\ r \in 0 .. b - 1 /\ a + b - 1 = b * q + r
    OBVIOUS
  <1>2. b * (q - 1) = b * q - b /\ b * q \in Int
    <2>1. b \in Int /\ 1 \in Int /\ b * 1 = b OBVIOUS
    <2>2. q \in Int BY <1>1
    <2> HIDE DEF q
    <2> QED BY <2>1, <2>2, Distribute
  <1> DEFINE p == b * q
  <1>3. p \in Int /\ a + b - 1 = p + r /\ b * (q - 1) = p - b /\ r \in 0 .. b - 1 BY <1>1, <1>2
  <1> HIDE DEF q, r
  <1>4. p >= a /\ p - b < a
    <2> HIDE DEF p
    <2> QED BY <1>3
  <1> QED BY <1>1, <1>3, <1>4 DEF CeilDiv, q

LEMMA Scale ==
  ASSUME NEW r \in Nat, NEW a \in Int, NEW b \in Int, a <= b
  PROVE  r * a <= r * b /\ r * a \in Int /\ r * b \in Int
  <1>1. b - a \in Nat OBVIOUS
  <1>2. r * (b - a) \in Nat BY <1>1
  <1>3. r * (b - a) = r * b - r * a /\ r * a \in Int /\ r * b \in Int BY Distribute
  <1> QED BY <1>2, <1>3

LEMMA Regroup == ASSUME NEW a \in Int, NEW b \in Int, NEW c \in Int PROVE a * b * c = a * (b * c)
  OBVIOUS

\* The seconds are the least that bring the missing units, and at least one.
LEMMA SecondsFacts ==
  ASSUME NEW bal \in Int, bal < Cost
  PROVE  /\ SecondsUntilToken(bal) \in Nat
         /\ After(bal, SecondsUntilToken(bal)) >= Cost
         /\ After(bal, SecondsUntilToken(bal) - 1) < Cost
  <1> DEFINE need  == Cost - bal
             ticks == CeilDiv(need, RefillTokens)
             secs  == CeilDiv(ticks, TicksPerSecond)
  <1>0. /\ RefillTokens \in Nat \ {0} /\ TicksPerSecond \in Nat \ {0} /\ Cost \in Nat
        /\ need \in Int /\ need > 0
    BY BucketAssumption, ConstantsType
  <1>a. SecondsUntilToken(bal) = IF secs < 1 THEN 1 ELSE secs
    BY DEF SecondsUntilToken
  <1> HIDE DEF need
  <1>1. ticks \in Int /\ RefillTokens * ticks >= need /\ RefillTokens * (ticks - 1) < need
    BY <1>0, CeilDivFacts
  <1> HIDE DEF ticks
  <1>2. secs \in Int /\ TicksPerSecond * secs >= ticks /\ TicksPerSecond * (secs - 1) < ticks
    BY <1>0, <1>1, CeilDivFacts
  <1> HIDE DEF secs
  <1>3. ticks >= 1
    <2>1. ASSUME ticks <= 0 PROVE FALSE
      <3>1. RefillTokens * ticks <= RefillTokens * 0 BY <1>0, <1>1, <2>1, Scale
      <3>2. RefillTokens * ticks \in Int BY <1>0, <1>1, Distribute
      <3> QED BY <3>1, <3>2, <1>0, <1>1
    <2> QED BY <1>1, <2>1
  <1>4. secs >= 1
    <2>1. ASSUME secs <= 0 PROVE FALSE
      <3>1. TicksPerSecond * secs <= TicksPerSecond * 0 BY <1>0, <1>2, <2>1, Scale
      <3>2. TicksPerSecond * secs \in Int BY <1>0, <1>2, Distribute
      <3> QED BY <3>1, <3>2, <1>0, <1>1, <1>2, <1>3
    <2> QED BY <1>2, <2>1
  <1> DEFINE full  == TicksPerSecond * secs
             short == TicksPerSecond * (secs - 1)
  <1>5. full \in Int /\ short \in Int /\ full >= ticks /\ short <= ticks - 1
    <2>1. full \in Int /\ short \in Int
      <3>1. secs - 1 \in Int BY <1>2
      <3> QED BY <3>1, <1>0, <1>2, Distribute
    <2> HIDE DEF full, short
    <2>2. full >= ticks /\ short < ticks BY <1>2 DEF full, short
    <2> QED BY <2>1, <2>2, <1>1
  <1>6. /\ RefillTokens * TicksPerSecond * secs = RefillTokens * full
        /\ RefillTokens * TicksPerSecond * (secs - 1) = RefillTokens * short
    <2>1. secs - 1 \in Int BY <1>2
    <2> QED BY <2>1, <1>0, <1>2, Regroup
  <1> HIDE DEF full, short
  <1>7. RefillTokens * full >= need /\ RefillTokens * full \in Int
    <2>1. /\ RefillTokens * ticks <= RefillTokens * full
          /\ RefillTokens * ticks \in Int /\ RefillTokens * full \in Int
      BY <1>0, <1>1, <1>5, Scale
    <2> QED BY <2>1, <1>0, <1>1
  <1>8. RefillTokens * short < need /\ RefillTokens * short \in Int
    <2>1. ticks - 1 \in Int BY <1>1
    <2>2. /\ RefillTokens * short <= RefillTokens * (ticks - 1)
          /\ RefillTokens * (ticks - 1) \in Int /\ RefillTokens * short \in Int
      BY <2>1, <1>0, <1>5, Scale
    <2> QED BY <2>2, <1>0, <1>1
  <1>9. bal + RefillTokens * full >= Cost /\ bal + RefillTokens * short < Cost
    <2> DEFINE x == RefillTokens * full
               y == RefillTokens * short
    <2>1. x \in Int /\ y \in Int /\ x >= Cost - bal /\ y < Cost - bal BY <1>7, <1>8 DEF need
    <2> HIDE DEF x, y
    <2>2. bal + x >= Cost /\ bal + y < Cost BY <2>1, <1>0
    <2> QED BY <2>2 DEF x, y
  <1>10. SecondsUntilToken(bal) = secs BY <1>a, <1>2, <1>4
  <1> QED BY <1>2, <1>4, <1>6, <1>9, <1>10 DEF After

\* A refused client is told the least number of whole seconds after which a token is
\* there, for every rate and resolution, whatever the interleaving.
THEOREM RetryAfterSafe == Spec => RetryAfterHonest
  <1>1. TypeOK /\ BalanceBounds /\ StampsPast /\ [Next]_vars =>
          [\A t \in Threads : AnswerHonest(t)]_vars
    <2> SUFFICES ASSUME TypeOK, BalanceBounds, StampsPast, Next, NEW t \in Threads,
                        pc[t] = "stamped", pc'[t] = "idle", retryAfter'[t] > 0
                 PROVE  /\ After(balance', retryAfter'[t]) >= Cost
                        /\ After(balance', retryAfter'[t] - 1) < Cost
      BY DEF AnswerHonest
    <2>1. TryConsume(t)
      BY DEF Next, Tick, FindBucket, ReadClock, TryConsume, TypeOK
    <2> DEFINE bal == Refilled(stamp[t])
    <2>2. bal \in Int
      <3>1. stamp[t] \in Nat /\ stamp[t] <= clock BY DEF TypeOK, StampsPast
      <3> QED BY <3>1, RefillFacts
    <2>3. \/ retryAfter' = [retryAfter EXCEPT ![t] = 0]
          \/ /\ bal < Cost /\ balance' = bal
             /\ retryAfter' = [retryAfter EXCEPT ![t] = SecondsUntilToken(bal)]
      BY <2>1 DEF TryConsume
    <2> HIDE DEF bal
    <2>4. bal < Cost /\ balance' = bal /\ retryAfter'[t] = SecondsUntilToken(bal)
      BY <2>3 DEF TypeOK
    <2> QED BY <2>2, <2>4, SecondsFacts
  <1> QED BY <1>1, InitType, TypeStep, PTL DEF Spec, RetryAfterHonest
=============================================================================
