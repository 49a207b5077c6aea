------------------------ MODULE ResilientVerifyProofs ------------------------
(***************************************************************************)
(* For any number of servlet threads, any pool, queue and breaker settings *)
(* and calls that hang or fail anyhow: no permission of the breaker leaks, *)
(* a request is answered for the token it carries, and only failures that  *)
(* are not a rejected token open the breaker.                              *)
(***************************************************************************)
EXTENDS ResilientVerify, FiniteSetTheorems, SequenceTheorems, TLAPS

States == {"idle", "call", "submit", "wait", "backoff"}

\* The breaker's part of the invariant: only a half-open breaker has permits.
Metered == ProbesBounded /\ (breaker # "halfOpen" => permits = 0)

PInv == TypeOK /\ Metered

\* A call in the pool is the one its servlet thread waits for: it is there
\* once, in the queue or on a thread, and its future is not done.
Waiting(w) == pc[w] = "wait" /\ outcome[w] = "none"

Placed ==
  /\ \A w \in running : Waiting(w)
  /\ \A n \in DOMAIN queue :
       queue[n] # Dead => Waiting(queue[n]) /\ queue[n] \notin running
  /\ \A m, n \in DOMAIN queue : queue[m] # Dead /\ queue[m] = queue[n] => m = n

\* What a future holds is about the token of the request that waits for it.
OwnResult ==
  \A w \in Workers : pc[w] = "wait" =>
    /\ outcome[w] = "ok" => ~bad[w]
    /\ outcome[w] = "wrapped" => bad[w]

OInv == PInv /\ Placed /\ OwnResult /\ OutageNever401

-----------------------------------------------------------------------------
(* Steps of the parts *)

LEMMA GotoType ==
  ASSUME TypeOK, NEW w \in Workers, NEW to \in States, Goto(w, to)
  PROVE  /\ pc' \in [Workers -> States] /\ pc'[w] = to
         /\ \A v \in Workers \ {w} : pc'[v] = pc[v]
  BY DEF TypeOK, Goto, States

LEMMA FlightFinite == /\ IsFiniteSet(InFlight)
                      /\ Cardinality(InFlight) \in Nat
  <1>1. InFlight \in SUBSET Workers BY DEF InFlight
  <1>2. IsFiniteSet(InFlight) BY <1>1, FS_Subset, VerifyAssumption
  <1> QED BY <1>2, FS_CardinalityType

\* An attempt that is over has given up its place.
LEMMA FlightLess ==
  ASSUME TypeOK, NEW w \in InFlight, NEW to \in {"idle", "backoff"}, Goto(w, to)
  PROVE  Cardinality(InFlight') = Cardinality(InFlight) - 1
  <1>1. InFlight' = InFlight \ {w}
    BY DEF InFlight, Goto, TypeOK
  <1> QED BY <1>1, FlightFinite, FS_RemoveElement

LEMMA FlightMore ==
  ASSUME TypeOK, NEW w \in Workers, pc[w] = "call", Goto(w, "submit")
  PROVE  Cardinality(InFlight') = Cardinality(InFlight) + 1
  <1>1. InFlight' = InFlight \cup {w} /\ w \notin InFlight
    BY DEF InFlight, Goto, TypeOK
  <1> QED BY <1>1, FlightFinite, FS_AddElement

LEMMA SlideLen ==
  ASSUME NEW win \in Seq(BOOLEAN), win # << >>, Len(win) <= WindowSize + 1
  PROVE  Slide(win) \in Seq(BOOLEAN) /\ Len(Slide(win)) <= WindowSize
  <1>1. Tail(win) \in Seq(BOOLEAN) /\ Len(Tail(win)) = Len(win) - 1
    BY HeadTailProperties
  <1>2. Len(win) \in Nat /\ WindowSize \in Nat
    BY VerifyAssumption, LenProperties
  <1>3. CASE Len(win) <= WindowSize
    BY <1>3 DEF Slide
  <1>4. CASE ~(Len(win) <= WindowSize)
    <2>1. Slide(win) = Tail(win) BY <1>4 DEF Slide
    <2> QED BY <1>1, <1>2, <1>4, <2>1
  <1> QED BY <1>3, <1>4

\* Recording a result takes one place of a half-open window, or ends the state.
LEMMA RecordStep ==
  ASSUME PInv, NEW ok \in BOOLEAN, Record(ok)
  PROVE  /\ breaker' \in {"closed", "open", "halfOpen"}
         /\ window' \in Seq(BOOLEAN)
         /\ Len(window') <= IF breaker' = "halfOpen" THEN HalfOpenCalls - 1 ELSE WindowSize
         /\ permits' \in 0 .. HalfOpenCalls
         /\ breaker' # "halfOpen" => permits' = 0
         /\ breaker' = "halfOpen" =>
              breaker = "halfOpen" /\ permits' = permits /\ Len(window') = Len(window) + 1
  <1> DEFINE win == Append(window, ok)
  <1>1. win \in Seq(BOOLEAN) /\ Len(win) = Len(window) + 1 /\ win # << >> /\ Len(window) \in Nat
    BY AppendProperties, LenProperties DEF PInv, TypeOK
  <1>2. << >> \in Seq(BOOLEAN) /\ Len(<< >>) = 0
    OBVIOUS
  <1>3. WindowSize \in Nat /\ HalfOpenCalls \in Nat \ {0}
    BY VerifyAssumption
  <1> HIDE DEF win
  <1>4. CASE breaker = "closed" /\ RecordClosed(Slide(win))
    <2>1. Len(win) <= WindowSize + 1
      BY <1>1, <1>3, <1>4 DEF PInv, TypeOK
    <2>2. Slide(win) \in Seq(BOOLEAN) /\ Len(Slide(win)) <= WindowSize
      BY <1>1, <2>1, SlideLen
    <2>3. permits' = permits /\ permits = 0
      BY <1>4 DEF RecordClosed, PInv, Metered
    <2>4. CASE breaker' = "open" /\ window' = << >>
      BY <1>2, <1>3, <2>3, <2>4
    <2>5. CASE breaker' = breaker /\ window' = Slide(win)
      BY <1>3, <1>4, <2>2, <2>3, <2>5
    <2> QED BY <1>4, <2>4, <2>5 DEF RecordClosed
  <1>5. CASE breaker = "halfOpen" /\ RecordHalfOpen(win)
    <2>1. CASE Len(win) < HalfOpenCalls
      BY <1>1, <1>3, <1>5, <2>1 DEF RecordHalfOpen, PInv, TypeOK
    <2>2. CASE ~(Len(win) < HalfOpenCalls)
      BY <1>2, <1>3, <1>5, <2>2 DEF RecordHalfOpen, CloseOrOpen
    <2> QED BY <2>1, <2>2
  <1>6. CASE breaker = "open" /\ UNCHANGED <<breaker, window, permits>>
    BY <1>3, <1>6 DEF PInv, TypeOK, Metered
  <1> QED BY <1>4, <1>5, <1>6 DEF Record, win

LEMMA NoteType ==
  ASSUME TypeOK, NEW fault, Note(fault)
  PROVE  failed' \in 0 .. MinCalls
  BY VerifyAssumption DEF TypeOK, Note

LEMMA RetryType ==
  ASSUME TypeOK, NEW w \in Workers, Retry(w)
  PROVE  /\ tries' \in [Workers -> 0 .. MaxAttempts - 1]
         /\ reply' \in [Workers -> {"none", "verified", "401", "503"}]
         /\ \E to \in {"idle", "backoff"} : Goto(w, to)
  <1>1. CASE tries[w] + 1 < MaxAttempts
    <2>1. /\ tries' = [tries EXCEPT ![w] = tries[w] + 1]
          /\ Goto(w, "backoff") /\ reply' = reply
      BY <1>1 DEF Retry
    <2>2. tries[w] + 1 \in 0 .. MaxAttempts - 1
      BY <1>1, VerifyAssumption DEF TypeOK
    <2> QED BY <2>1, <2>2 DEF TypeOK
  <1>2. CASE ~(tries[w] + 1 < MaxAttempts)
    BY <1>2 DEF TypeOK, Retry, Answer
  <1> QED BY <1>1, <1>2

LEMMA AnswerType ==
  ASSUME TypeOK, NEW w \in Workers, NEW r \in {"verified", "401", "503"}, Answer(w, r)
  PROVE  /\ reply' \in [Workers -> {"none", "verified", "401", "503"}]
         /\ reply'[w] = r /\ \A v \in Workers \ {w} : reply'[v] = reply[v]
         /\ Goto(w, "idle")
  BY DEF TypeOK, Answer

\* An attempt ends and its result is recorded.
LEMMA EndRecorded ==
  ASSUME PInv, NEW w \in InFlight, NEW to \in {"idle", "backoff"}, Goto(w, to),
         NEW ok \in BOOLEAN, Record(ok)
  PROVE  Metered'
  <1>1. Cardinality(InFlight') = Cardinality(InFlight) - 1
    BY FlightLess DEF PInv
  <1>2. Cardinality(InFlight) \in Nat /\ permits \in Nat /\ Len(window) \in Nat
    BY FlightFinite, LenProperties DEF PInv, TypeOK
  <1> QED BY <1>1, <1>2, RecordStep DEF PInv, Metered, ProbesBounded

-----------------------------------------------------------------------------
(* The invariant of the breaker and the pool *)

LEMMA InitPInv == Init => PInv
  <1> SUFFICES ASSUME Init PROVE PInv
    OBVIOUS
  <1>1. TypeOK
    <2>1. Cardinality({}) = 0 BY FS_EmptySet
    <2>2. << >> \in Seq(Workers \cup {Dead}) /\ << >> \in Seq(BOOLEAN) /\ Len(<< >>) = 0
      BY EmptySeq
    <2> QED BY <2>1, <2>2, VerifyAssumption DEF Init, TypeOK
  <1>2. Metered BY DEF Init, Metered, ProbesBounded
  <1> QED BY <1>1, <1>2 DEF PInv

LEMMA PoolSizes ==
  ASSUME TypeOK
  PROVE  /\ IsFiniteSet(running) /\ Cardinality(running) \in Nat
         /\ orphans \in Nat /\ started \in 0 .. PoolSize /\ PoolSize \in Nat
         /\ Cardinality(running) + orphans <= started
         /\ Len(queue) \in Nat
  <1>1. running \in SUBSET Workers /\ queue \in Seq(Workers \cup {Dead}) BY DEF TypeOK
  <1>2. IsFiniteSet(running) BY <1>1, FS_Subset, VerifyAssumption
  <1>3. Cardinality(running) \in Nat BY <1>2, FS_CardinalityType
  <1>4. Len(queue) \in Nat BY <1>1, LenProperties
  <1> QED BY <1>2, <1>3, <1>4, VerifyAssumption DEF TypeOK

LEMMA RequestPInv ==
  ASSUME PInv, NEW w \in Workers, Request(w)
  PROVE  PInv'
  <1>1. /\ pc' \in [Workers -> States] /\ pc'[w] = "call" /\ pc[w] = "idle"
        /\ \A v \in Workers \ {w} : pc'[v] = pc[v]
    BY GotoType DEF PInv, Request, States
  <1>a. bad' \in [Workers -> BOOLEAN]
    BY DEF PInv, TypeOK, Request
  <1>b. /\ tries' \in [Workers -> 0 .. MaxAttempts - 1]
        /\ reply' \in [Workers -> {"none", "verified", "401", "503"}]
    BY VerifyAssumption DEF PInv, TypeOK, Request
  <1>2. TypeOK'
    BY <1>1, <1>a, <1>b DEF PInv, TypeOK, Request, pool, circuit, States
  <1>3. InFlight' = InFlight BY <1>1 DEF InFlight
  <1> QED BY <1>2, <1>3 DEF PInv, Metered, ProbesBounded, Request, circuit

LEMMA BackoffPInv ==
  ASSUME PInv, NEW w \in Workers, Backoff(w)
  PROVE  PInv'
  <1>1. /\ pc' \in [Workers -> States] /\ pc'[w] = "call" /\ pc[w] = "backoff"
        /\ \A v \in Workers \ {w} : pc'[v] = pc[v]
    BY GotoType DEF PInv, Backoff, States
  <1>2. TypeOK'
    BY <1>1 DEF PInv, TypeOK, Backoff, pool, circuit, States
  <1>3. InFlight' = InFlight BY <1>1 DEF InFlight
  <1> QED BY <1>2, <1>3 DEF PInv, Metered, ProbesBounded, Backoff, circuit

LEMMA AdmitPInv ==
  ASSUME PInv, NEW w \in Workers, Admit(w)
  PROVE  PInv'
  <1>0. permits \in Nat /\ permits <= HalfOpenCalls /\ HalfOpenCalls \in Nat
        /\ Len(window) \in Nat /\ Cardinality(InFlight) \in Nat
    BY VerifyAssumption, FlightFinite, LenProperties DEF PInv, TypeOK
  <1>1. permits' \in 0 .. HalfOpenCalls
    BY <1>0 DEF Admit
  <1>2. CASE breaker = "closed" \/ permits > 0
    <2>1. Goto(w, "submit") /\ reply' = reply /\ pc[w] = "call" BY <1>2 DEF Admit
    <2>2. TypeOK'
      BY <1>1, <2>1, GotoType DEF PInv, TypeOK, Admit, pool, States
    <2>3. Cardinality(InFlight') = Cardinality(InFlight) + 1
      BY <2>1, FlightMore DEF PInv
    <2>4. CASE breaker = "halfOpen"
      <3>1. permits' = permits - 1 BY <1>0, <1>2, <2>4 DEF Admit
      <3> QED BY <1>0, <2>2, <2>3, <2>4, <3>1 DEF PInv, Metered, ProbesBounded, Admit
    <2>5. CASE breaker # "halfOpen"
      BY <1>0, <2>2, <2>5 DEF PInv, Metered, ProbesBounded, Admit
    <2> QED BY <2>4, <2>5
  <1>3. CASE ~(breaker = "closed" \/ permits > 0)
    <2>1. Answer(w, "503") /\ pc[w] = "call" /\ permits' = permits BY <1>0, <1>3 DEF Admit
    <2>2. TypeOK'
      BY <1>1, <2>1, GotoType, AnswerType DEF PInv, TypeOK, Admit, pool, States
    <2>3. InFlight' = InFlight
      BY <2>1 DEF InFlight, Answer, Goto, PInv, TypeOK
    <2> QED BY <2>1, <2>2, <2>3 DEF PInv, Metered, ProbesBounded, Admit
  <1> QED BY <1>2, <1>3

LEMMA SubmitPInv ==
  ASSUME PInv, NEW w \in Workers, Submit(w)
  PROVE  PInv'
  <1>0. w \in InFlight /\ pc[w] = "submit" BY DEF Submit, InFlight
  <1>1. CASE Accept(w)
    <2>1. /\ pc' \in [Workers -> States] /\ pc'[w] = "wait"
          /\ \A v \in Workers \ {w} : pc'[v] = pc[v]
      BY <1>1, GotoType DEF PInv, Accept, States
    <2>2. /\ running' \subseteq Workers
          /\ started' \in 0 .. PoolSize
          /\ Cardinality(running') + orphans <= started'
          /\ queue' \in Seq(Workers \cup {Dead}) /\ Len(queue') <= QueueCapacity
      <3>0. /\ IsFiniteSet(running) /\ Cardinality(running) \in Nat
            /\ orphans \in Nat /\ started \in 0 .. PoolSize /\ PoolSize \in Nat
            /\ Cardinality(running) + orphans <= started /\ Len(queue) \in Nat
            /\ QueueCapacity \in Nat
        BY PoolSizes, VerifyAssumption DEF PInv
      <3>1. CASE started < PoolSize
        <4>1. /\ Cardinality(running \cup {w}) \in Nat
              /\ Cardinality(running \cup {w}) <= Cardinality(running) + 1
          <5>1. Cardinality(running \cup {w}) = IF w \in running THEN Cardinality(running)
                                                ELSE Cardinality(running) + 1
            BY <3>0, FS_AddElement
          <5> QED BY <3>0, <5>1
        <4>2. started' = started + 1 /\ running' = running \cup {w} /\ queue' = queue
          BY <1>1, <3>1 DEF Accept
        <4>3. Cardinality(running') + orphans <= started'
          BY <3>0, <4>1, <4>2
        <4> QED BY <3>0, <3>1, <4>2, <4>3 DEF PInv, TypeOK
      <3>2. CASE ~(started < PoolSize)
        <4>1. /\ Append(queue, w) \in Seq(Workers \cup {Dead})
              /\ Len(Append(queue, w)) = Len(queue) + 1
          BY AppendProperties DEF PInv, TypeOK
        <4>2. /\ Len(queue) < QueueCapacity /\ queue' = Append(queue, w)
              /\ started' = started /\ running' = running
          BY <1>1, <3>2 DEF Accept
        <4> QED BY <3>0, <4>1, <4>2 DEF PInv, TypeOK
      <3> QED BY <3>1, <3>2
    <2>3. TypeOK'
      BY <1>1, <2>1, <2>2 DEF PInv, TypeOK, Accept, Submit, circuit, States
    <2>4. InFlight' = InFlight BY <1>0, <2>1 DEF InFlight
    <2> QED BY <1>1, <2>3, <2>4 DEF PInv, Metered, ProbesBounded, Accept, circuit
  <1>2. CASE Reject(w)
    <2>1. PICK to \in {"idle", "backoff"} : Goto(w, to)
      BY <1>2, RetryType DEF PInv, Reject
    <2>2. TypeOK'
      BY <1>2, <2>1, RetryType, GotoType, RecordStep, NoteType
      DEF PInv, TypeOK, Reject, RecordFault, Submit, pool, States
    <2> QED BY <1>0, <1>2, <2>1, <2>2, EndRecorded DEF PInv, Reject, RecordFault
  <1> QED BY <1>1, <1>2 DEF Submit

LEMMA ReturnPInv ==
  ASSUME PInv, NEW w \in Workers, Return(w)
  PROVE  PInv'
  <1>0. w \in InFlight BY DEF Return, InFlight
  <1>1. CASE outcome[w] = "ok" /\ Record(TRUE) /\ Note(FALSE) /\ Answer(w, "verified")
             /\ UNCHANGED tries
    <2>1. TypeOK'
      BY <1>1, AnswerType, GotoType, RecordStep, NoteType
      DEF PInv, TypeOK, Return, pool, States
    <2>2. Goto(w, "idle") BY <1>1 DEF Answer
    <2> QED BY <1>0, <1>1, <2>1, <2>2, EndRecorded DEF PInv
  <1>2. CASE outcome[w] = "wrapped" /\ Release /\ Note(FALSE) /\ Answer(w, "401")
             /\ UNCHANGED tries
    <2>1. Goto(w, "idle") BY <1>2 DEF Answer
    <2>2. Cardinality(InFlight') = Cardinality(InFlight) - 1
      BY <1>0, <2>1, FlightLess DEF PInv
    <2>3. /\ permits \in Nat /\ permits <= HalfOpenCalls /\ HalfOpenCalls \in Nat
          /\ Len(window) \in Nat /\ Cardinality(InFlight) \in Nat
          /\ Cardinality(InFlight') \in Nat
      <3>1. Cardinality(InFlight) # 0 BY <1>0, FlightFinite, FS_EmptySet
      <3> QED BY <2>2, <3>1, VerifyAssumption, FlightFinite, LenProperties DEF PInv, TypeOK
    <2>4. breaker' = breaker /\ window' = window BY <1>2 DEF Release
    <2>5. Metered'
      BY <1>2, <2>2, <2>3, <2>4 DEF Release, PInv, Metered, ProbesBounded
    <2>6. permits' \in 0 .. HalfOpenCalls
      BY <1>2, <2>3, <2>4, <2>5 DEF Release, Metered, ProbesBounded, PInv, TypeOK
    <2>7. TypeOK'
      BY <1>2, <2>4, <2>6, AnswerType, GotoType, NoteType
      DEF PInv, TypeOK, Return, pool, States
    <2> QED BY <2>5, <2>7 DEF PInv
  <1>3. CASE outcome[w] = "transient" /\ RecordFault /\ Retry(w)
    <2>1. PICK to \in {"idle", "backoff"} : Goto(w, to)
      BY <1>3, RetryType DEF PInv
    <2>2. TypeOK'
      BY <1>3, <2>1, RetryType, GotoType, RecordStep, NoteType
      DEF PInv, TypeOK, RecordFault, Return, pool, States
    <2> QED BY <1>0, <1>3, <2>1, <2>2, EndRecorded DEF PInv, RecordFault
  <1> QED BY <1>1, <1>2, <1>3 DEF Return

\* Cancelled entries keep their places.
LEMMA CancelQueue ==
  ASSUME TypeOK, NEW w \in Workers,
         queue' = [n \in DOMAIN queue |-> IF queue[n] = w THEN Dead ELSE queue[n]]
  PROVE  /\ queue' \in Seq(Workers \cup {Dead}) /\ Len(queue') = Len(queue)
         /\ DOMAIN queue' = DOMAIN queue
         /\ \A n \in DOMAIN queue : queue'[n] = IF queue[n] = w THEN Dead ELSE queue[n]
  <1>1. /\ Len(queue) \in Nat /\ DOMAIN queue = 1 .. Len(queue)
        /\ queue \in [1 .. Len(queue) -> Workers \cup {Dead}]
    BY LenProperties DEF TypeOK
  <1>2. queue' \in [1 .. Len(queue) -> Workers \cup {Dead}]
    BY <1>1
  <1>3. queue' \in Seq(Workers \cup {Dead}) /\ Len(queue') = Len(queue)
    BY <1>1, <1>2, SeqDef, LenProperties
  <1> QED BY <1>1, <1>3

LEMMA TimeoutPInv ==
  ASSUME PInv, NEW w \in Workers, Timeout(w)
  PROVE  PInv'
  <1>0. w \in InFlight BY DEF Timeout, InFlight
  <1>1. Record(FALSE) /\ Note(TRUE) /\ Answer(w, "503") /\ Goto(w, "idle")
    BY DEF Timeout, RecordFault, Answer
  <1>2. /\ IsFiniteSet(running) /\ Cardinality(running) \in Nat
        /\ orphans \in Nat /\ started \in 0 .. PoolSize
        /\ Cardinality(running) + orphans <= started
    BY PoolSizes DEF PInv
  <1>3. /\ running' \subseteq Workers /\ orphans' \in Nat
        /\ Cardinality(running') + orphans' <= started
        /\ queue' \in Seq(Workers \cup {Dead}) /\ Len(queue') <= QueueCapacity
    <2>1. CASE w \in running
      <3>1. Cardinality(running \ {w}) = Cardinality(running) - 1
        BY <1>2, <2>1, FS_RemoveElement
      <3>2. running' = running \ {w} /\ orphans' = orphans + 1 /\ queue' = queue
        BY <2>1 DEF Timeout
      <3>3. started \in Nat /\ Cardinality(running') + orphans' <= started
        BY <1>2, <3>1, <3>2, VerifyAssumption
      <3> QED BY <1>2, <3>2, <3>3 DEF PInv, TypeOK
    <2>2. CASE w \notin running
      BY <1>2, <2>2, CancelQueue DEF PInv, TypeOK, Timeout
    <2> QED BY <2>1, <2>2
  <1>4. TypeOK'
    BY <1>1, <1>3, AnswerType, GotoType, RecordStep, NoteType
    DEF PInv, TypeOK, Timeout, States
  <1> QED BY <1>0, <1>1, <1>4, EndRecorded DEF PInv

LEMMA TakePInv ==
  ASSUME PInv, Take
  PROVE  PInv'
  <1>1. /\ IsFiniteSet(running) /\ Cardinality(running) \in Nat
        /\ orphans \in Nat /\ started \in Nat /\ Len(queue) \in Nat
        /\ Cardinality(running) + orphans < started
    BY PoolSizes DEF PInv, Take
  <1>2. /\ Head(queue) \in Workers \cup {Dead}
        /\ Tail(queue) \in Seq(Workers \cup {Dead}) /\ Len(Tail(queue)) = Len(queue) - 1
    BY HeadTailProperties DEF PInv, TypeOK, Take
  <1>3. running' \subseteq Workers /\ Cardinality(running') + orphans <= started
    <2>1. CASE Head(queue) = Dead
      <3>1. running' = running BY <2>1 DEF Take
      <3> QED BY <1>1, <3>1 DEF PInv, TypeOK
    <2>2. CASE Head(queue) # Dead
      <3>1. running' = running \cup {Head(queue)} BY <2>2 DEF Take
      <3>2. Cardinality(running') = IF Head(queue) \in running THEN Cardinality(running)
                                    ELSE Cardinality(running) + 1
        BY <1>1, <3>1, FS_AddElement
      <3> QED BY <1>1, <1>2, <2>2, <3>1, <3>2 DEF PInv, TypeOK
    <2> QED BY <2>1, <2>2
  <1>4. TypeOK'
    BY <1>1, <1>2, <1>3, VerifyAssumption DEF PInv, TypeOK, Take, circuit
  <1>5. InFlight' = InFlight BY DEF InFlight, Take
  <1> QED BY <1>4, <1>5 DEF PInv, Metered, ProbesBounded, Take, circuit

LEMMA FinishPInv ==
  ASSUME PInv, NEW w \in Workers, Finish(w)
  PROVE  PInv'
  <1>1. outcome' \in [Workers -> {"none", "ok", "wrapped", "transient"}]
    BY VerifyAssumption DEF PInv, TypeOK, Finish, Verify
  <1>2. Cardinality(running') = Cardinality(running) - 1 /\ running' \subseteq Workers
    BY PoolSizes, FS_RemoveElement DEF PInv, TypeOK, Finish
  <1>3. Cardinality(running') + orphans <= started
    BY <1>2, PoolSizes DEF PInv
  <1>4. TypeOK'
    BY <1>1, <1>2, <1>3 DEF PInv, TypeOK, Finish, circuit
  <1>5. InFlight' = InFlight BY DEF InFlight, Finish
  <1> QED BY <1>4, <1>5 DEF PInv, Metered, ProbesBounded, Finish, circuit

LEMMA FinishOrphanPInv ==
  ASSUME PInv, FinishOrphan
  PROVE  PInv'
  <1>1. orphans' \in Nat /\ Cardinality(running) + orphans' <= started
    BY PoolSizes DEF PInv, FinishOrphan
  <1>2. TypeOK'
    BY <1>1 DEF PInv, TypeOK, FinishOrphan, circuit
  <1>3. InFlight' = InFlight BY DEF InFlight, FinishOrphan
  <1> QED BY <1>2, <1>3 DEF PInv, Metered, ProbesBounded, FinishOrphan, circuit

LEMMA HalfOpenPInv ==
  ASSUME PInv, HalfOpen
  PROVE  PInv'
  <1>1. InFlight' = {} BY DEF InFlight, HalfOpen
  <1>2. HalfOpenCalls \in Nat \ {0} /\ << >> \in Seq(BOOLEAN) /\ Len(<< >>) = 0
    BY VerifyAssumption, EmptySeq
  <1>3. TypeOK'
    BY <1>2 DEF PInv, TypeOK, HalfOpen, pool
  <1>4. Cardinality(InFlight') = 0 BY <1>1, FS_EmptySet
  <1> QED BY <1>2, <1>3, <1>4 DEF PInv, Metered, ProbesBounded, HalfOpen

LEMMA NextPInv == PInv /\ [Next]_vars => PInv'
  <1> SUFFICES ASSUME PInv, [Next]_vars PROVE PInv'
    OBVIOUS
  <1>1. ASSUME NEW w \in Workers, Request(w) \/ Serve(w) \/ Finish(w) PROVE PInv'
    BY <1>1, RequestPInv, AdmitPInv, SubmitPInv, ReturnPInv, TimeoutPInv, BackoffPInv,
       FinishPInv DEF Serve
  <1>2. CASE Take \/ FinishOrphan \/ HalfOpen
    BY <1>2, TakePInv, FinishOrphanPInv, HalfOpenPInv
  <1>3. CASE UNCHANGED vars
    <2>1. TypeOK' BY <1>3 DEF PInv, TypeOK, vars, pool, circuit
    <2>2. InFlight' = InFlight BY <1>3 DEF InFlight, vars
    <2> QED BY <1>3, <2>1, <2>2 DEF PInv, Metered, ProbesBounded, vars, circuit
  <1> QED BY <1>1, <1>2, <1>3 DEF Next

\* No permission of a half-open breaker (the three probe calls of
\* application.yml) is ever lost or handed out twice.
THEOREM ProbesSafe == Spec => [](TypeOK /\ ProbesBounded)
  <1>1. PInv => TypeOK /\ ProbesBounded BY DEF PInv, Metered
  <1> QED BY InitPInv, NextPInv, <1>1, PTL DEF Spec

\* The pool never runs or queues more than it may, and each thread's answer is one of the
\* answers there are.
THEOREM TypesSafe == Spec => []TypeOK
  <1>1. PInv => TypeOK BY DEF PInv
  <1> QED BY InitPInv, NextPInv, <1>1, PTL DEF Spec

-----------------------------------------------------------------------------
(* Answers *)

LEMMA QueueType ==
  ASSUME TypeOK
  PROVE  /\ Len(queue) \in Nat /\ DOMAIN queue = 1 .. Len(queue)
         /\ \A n \in DOMAIN queue : queue[n] \in Workers \cup {Dead}
  BY LenProperties, ElementOfSeq DEF TypeOK

\* A step of a servlet thread that has no call in the pool.
LEMMA PlacedKept ==
  ASSUME OInv, UNCHANGED <<queue, running>>, NEW w \in Workers, ~Waiting(w),
         \A v \in Workers \ {w} : pc'[v] = pc[v] /\ outcome'[v] = outcome[v]
  PROVE  Placed'
  <1>1. \A v \in running : v # w /\ Waiting(v)' BY DEF OInv, PInv, TypeOK, Placed, Waiting
  <1>2. \A n \in DOMAIN queue : queue[n] # Dead => queue[n] # w /\ Waiting(queue[n])'
    BY QueueType DEF OInv, PInv, Placed, Waiting
  <1> QED BY <1>1, <1>2 DEF OInv, Placed, Waiting

\* A step after which nobody waits for a future he did not wait for before.
LEMMA OwnKept ==
  ASSUME OInv,
         \A v \in Workers : pc'[v] = "wait" =>
            pc[v] = "wait" /\ outcome'[v] = outcome[v] /\ bad'[v] = bad[v]
  PROVE  OwnResult'
  BY DEF OInv, OwnResult

\* A step that answers nobody, or one request, and for its token.
LEMMA AnswersKept ==
  ASSUME OInv, NEW w \in Workers,
         \A v \in Workers \ {w} : reply'[v] = reply[v] /\ bad'[v] = bad[v],
         \/ reply'[w] = reply[w] /\ bad'[w] = bad[w]
         \/ reply'[w] \in {"none", "503"}
         \/ reply'[w] = "verified" /\ ~bad'[w]
         \/ reply'[w] = "401" /\ bad'[w]
  PROVE  OutageNever401'
  BY DEF OInv, OutageNever401

LEMMA RetryAnswers ==
  ASSUME OInv, NEW w \in Workers, Retry(w)
  PROVE  /\ pc'[w] # "wait" /\ \A v \in Workers \ {w} : pc'[v] = pc[v] /\ reply'[v] = reply[v]
         /\ reply'[w] = reply[w] \/ reply'[w] = "503"
  BY DEF OInv, PInv, TypeOK, Retry, Answer, Goto

LEMMA AnswerOne ==
  ASSUME OInv, NEW w \in Workers, NEW r, Answer(w, r)
  PROVE  /\ pc'[w] = "idle" /\ reply'[w] = r
         /\ \A v \in Workers \ {w} : pc'[v] = pc[v] /\ reply'[v] = reply[v]
  BY DEF OInv, PInv, TypeOK, Answer, Goto

LEMMA RequestOInv ==
  ASSUME OInv, NEW w \in Workers, Request(w)
  PROVE  (Placed /\ OwnResult /\ OutageNever401)'
  <1>1. /\ pc[w] = "idle" /\ pc'[w] = "call" /\ reply'[w] = "none" /\ outcome' = outcome
        /\ \A v \in Workers \ {w} : pc'[v] = pc[v] /\ bad'[v] = bad[v] /\ reply'[v] = reply[v]
    BY DEF OInv, PInv, TypeOK, Request, Goto
  <1>2. Placed' BY <1>1, PlacedKept DEF Request, pool, Waiting
  <1>3. OwnResult' BY <1>1, OwnKept
  <1>4. OutageNever401' BY <1>1, AnswersKept
  <1> QED BY <1>2, <1>3, <1>4

LEMMA AdmitOInv ==
  ASSUME OInv, NEW w \in Workers, Admit(w) \/ Backoff(w)
  PROVE  (Placed /\ OwnResult /\ OutageNever401)'
  <1>1. /\ pc[w] # "wait" /\ pc'[w] # "wait" /\ outcome' = outcome /\ bad' = bad
        /\ reply'[w] \in {reply[w], "503"}
        /\ \A v \in Workers \ {w} : pc'[v] = pc[v] /\ reply'[v] = reply[v]
    BY DEF OInv, PInv, TypeOK, Admit, Backoff, Answer, Goto
  <1>2. Placed' BY <1>1, PlacedKept DEF Admit, Backoff, pool, Waiting
  <1>3. OwnResult' BY <1>1, OwnKept
  <1>4. OutageNever401' BY <1>1, AnswersKept
  <1> QED BY <1>2, <1>3, <1>4

LEMMA SubmitOInv ==
  ASSUME OInv, NEW w \in Workers, Submit(w)
  PROVE  (Placed /\ OwnResult /\ OutageNever401)'
  <1>1. pc[w] = "submit" /\ ~Waiting(w) /\ bad' = bad BY DEF Submit, Waiting
  <1>2. CASE Reject(w)
    <2>1. /\ pc'[w] # "wait" /\ outcome' = outcome /\ reply'[w] \in {reply[w], "503"}
          /\ \A v \in Workers \ {w} : pc'[v] = pc[v] /\ reply'[v] = reply[v]
      BY <1>2, RetryAnswers DEF Reject
    <2>2. Placed' BY <1>1, <1>2, <2>1, PlacedKept DEF Reject, pool
    <2>3. OwnResult' BY <1>1, <2>1, OwnKept
    <2>4. OutageNever401' BY <1>1, <2>1, AnswersKept
    <2> QED BY <2>2, <2>3, <2>4
  <1>3. CASE Accept(w)
    <2>1. /\ Waiting(w)' /\ reply' = reply
          /\ \A v \in Workers \ {w} : pc'[v] = pc[v] /\ outcome'[v] = outcome[v]
      BY <1>3 DEF OInv, PInv, TypeOK, Accept, Goto, Waiting
    <2>2. /\ w \notin running
          /\ \A n \in DOMAIN queue : queue[n] # w
          /\ running \subseteq Workers /\ w # Dead
      BY <1>1, VerifyAssumption DEF OInv, PInv, TypeOK, Placed
    <2>3. /\ \A v \in running : Waiting(v)'
          /\ \A n \in DOMAIN queue : queue[n] # Dead =>
               pc'[queue[n]] = "wait" /\ outcome'[queue[n]] = "none"
      BY <2>1, <2>2, QueueType DEF OInv, PInv, Placed, Waiting
    <2>4. Placed'
      <3>1. CASE started < PoolSize
        <4>1. running' = running \cup {w} /\ queue' = queue BY <1>3, <3>1 DEF Accept
        <4> QED BY <2>1, <2>2, <2>3, <4>1 DEF OInv, Placed, Waiting
      <3>2. CASE ~(started < PoolSize)
        <4>1. running' = running /\ queue' = Append(queue, w) BY <1>3, <3>2 DEF Accept
        <4>2. /\ DOMAIN queue' = DOMAIN queue \cup {Len(queue) + 1}
              /\ Len(queue) + 1 \notin DOMAIN queue
              /\ queue'[Len(queue) + 1] = w
              /\ \A n \in DOMAIN queue : queue'[n] = queue[n]
          <5>1. queue \in Seq(Workers \cup {Dead}) BY DEF OInv, PInv, TypeOK
          <5>2. /\ queue' \in Seq(Workers \cup {Dead}) /\ Len(queue') = Len(queue) + 1
                /\ \A i \in 1 .. Len(queue) : queue'[i] = queue[i]
                /\ queue'[Len(queue) + 1] = w
            BY <4>1, <5>1, AppendProperties
          <5> QED BY <5>1, <5>2, LenProperties
        <4> QED BY <2>1, <2>2, <2>3, <4>1, <4>2 DEF OInv, Placed, Waiting
      <3> QED BY <3>1, <3>2
    <2>5. OwnResult' BY <1>1, <2>1 DEF OInv, OwnResult, Waiting
    <2>6. OutageNever401' BY <1>1, <2>1, AnswersKept
    <2> QED BY <2>4, <2>5, <2>6
  <1> QED BY <1>2, <1>3 DEF Submit

LEMMA ReturnOInv ==
  ASSUME OInv, NEW w \in Workers, Return(w)
  PROVE  (Placed /\ OwnResult /\ OutageNever401)'
  <1>1. /\ pc[w] = "wait" /\ ~Waiting(w) /\ bad' = bad /\ outcome' = outcome
        /\ UNCHANGED <<queue, running>>
    BY DEF Return, Waiting, pool
  <1>2. /\ pc'[w] # "wait"
        /\ \A v \in Workers \ {w} : pc'[v] = pc[v] /\ reply'[v] = reply[v]
        /\ \/ reply'[w] = reply[w] \/ reply'[w] = "503"
           \/ reply'[w] = "verified" /\ outcome[w] = "ok"
           \/ reply'[w] = "401" /\ outcome[w] = "wrapped"
    BY AnswerOne, RetryAnswers DEF Return
  <1>3. Placed' BY <1>1, <1>2, PlacedKept
  <1>4. OwnResult' BY <1>1, <1>2, OwnKept
  <1>5. OutageNever401'
    <2>1. /\ outcome[w] = "ok" => ~bad[w]
          /\ outcome[w] = "wrapped" => bad[w]
      BY <1>1 DEF OInv, OwnResult
    <2> QED BY <1>1, <1>2, <2>1, AnswersKept
  <1> QED BY <1>3, <1>4, <1>5

LEMMA TimeoutOInv ==
  ASSUME OInv, NEW w \in Workers, Timeout(w)
  PROVE  (Placed /\ OwnResult /\ OutageNever401)'
  <1>1. /\ bad' = bad /\ outcome' = outcome /\ pc'[w] = "idle" /\ reply'[w] = "503"
        /\ \A v \in Workers \ {w} : pc'[v] = pc[v] /\ reply'[v] = reply[v]
    BY AnswerOne DEF Timeout
  <1>2. running \subseteq Workers /\ Dead \notin Workers
    BY VerifyAssumption DEF OInv, PInv, TypeOK
  <1>3. /\ running' = running \ {w}
        /\ DOMAIN queue' = DOMAIN queue
        /\ \A n \in DOMAIN queue : queue'[n] = IF queue[n] = w THEN Dead ELSE queue[n]
    <2>1. CASE w \in running
      <3>1. \A n \in DOMAIN queue : queue[n] # w
        BY <1>2, <2>1 DEF OInv, Placed
      <3> QED BY <2>1, <3>1 DEF Timeout
    <2>2. CASE w \notin running
      BY <2>2, CancelQueue DEF OInv, PInv, Timeout
    <2> QED BY <2>1, <2>2
  <1>4. \A v \in Workers \ {w} : Waiting(v) => Waiting(v)'
    BY <1>1 DEF Waiting
  <1>5. Placed'
    <2>1. \A v \in running' : Waiting(v)'
      BY <1>2, <1>3, <1>4 DEF OInv, Placed
    <2>2. \A n \in DOMAIN queue' : queue'[n] # Dead =>
             Waiting(queue[n])' /\ queue'[n] \notin running'
      <3> SUFFICES ASSUME NEW n \in DOMAIN queue, queue'[n] # Dead
                   PROVE  Waiting(queue[n])' /\ queue'[n] \notin running'
        BY <1>3
      <3>1. queue'[n] = queue[n] /\ queue[n] # w /\ queue[n] \in Workers
        BY <1>3, QueueType DEF OInv, PInv
      <3>2. Waiting(queue[n]) /\ queue[n] \notin running
        BY <3>1 DEF OInv, Placed
      <3>3. Waiting(queue[n])' BY <1>1, <3>1, <3>2, QueueType DEF OInv, PInv, Waiting
      <3> QED BY <1>3, <3>1, <3>2, <3>3 DEF Waiting
    <2>3. \A m, n \in DOMAIN queue' : queue'[m] # Dead /\ queue'[m] = queue'[n] => m = n
      BY <1>3 DEF OInv, Placed
    <2> QED BY <2>1, <2>2, <2>3 DEF Placed, Waiting
  <1>6. OwnResult' BY <1>1, OwnKept
  <1>7. OutageNever401' BY <1>1, AnswersKept
  <1> QED BY <1>5, <1>6, <1>7

LEMMA TakeOInv ==
  ASSUME OInv, Take
  PROVE  (Placed /\ OwnResult /\ OutageNever401)'
  <1>1. UNCHANGED <<pc, bad, outcome, reply>> BY DEF Take
  <1>2. queue \in Seq(Workers \cup {Dead}) /\ queue # << >> BY DEF OInv, PInv, TypeOK, Take
  <1>3. /\ Len(queue) \in Nat \ {0} /\ DOMAIN queue = 1 .. Len(queue)
        /\ Head(queue) = queue[1]
        /\ DOMAIN queue' = 1 .. Len(queue) - 1
        /\ \A n \in DOMAIN queue' : n + 1 \in DOMAIN queue /\ queue'[n] = queue[n + 1]
    <2>1. /\ queue' \in Seq(Workers \cup {Dead}) /\ Len(queue') = Len(queue) - 1
          /\ \A i \in 1 .. Len(queue') : queue'[i] = queue[i + 1]
      BY <1>2, HeadTailProperties DEF Take
    <2>2. Len(queue) \in Nat /\ DOMAIN queue = 1 .. Len(queue) /\ Len(queue) # 0
      BY <1>2, LenProperties, EmptySeq
    <2> QED BY <1>2, <2>1, <2>2, LenProperties
  <1>4. running' = IF queue[1] = Dead THEN running ELSE running \cup {queue[1]}
    BY <1>3 DEF Take
  <1>5. 1 \in DOMAIN queue BY <1>3
  <1>6. \A n \in DOMAIN queue' : queue'[n] # Dead => queue'[n] # queue[1]
    BY <1>3, <1>5 DEF OInv, Placed
  <1>7. Placed'
    <2>1. \A v \in running' : Waiting(v)
      BY <1>4, <1>5 DEF OInv, Placed
    <2>2. \A n \in DOMAIN queue' : queue'[n] # Dead =>
             Waiting(queue'[n]) /\ queue'[n] \notin running'
      BY <1>3, <1>4, <1>6 DEF OInv, Placed
    <2>3. \A m, n \in DOMAIN queue' : queue'[m] # Dead /\ queue'[m] = queue'[n] => m = n
      BY <1>3 DEF OInv, Placed
    <2> QED BY <1>1, <2>1, <2>2, <2>3 DEF Placed, Waiting
  <1>8. OwnResult' BY <1>1, OwnKept
  <1>9. OutageNever401' BY <1>1 DEF OInv, OutageNever401
  <1> QED BY <1>7, <1>8, <1>9

LEMMA FinishOInv ==
  ASSUME "keys" \notin Faults, OInv, NEW w \in Workers, Finish(w)
  PROVE  (Placed /\ OwnResult /\ OutageNever401)'
  <1>1. UNCHANGED <<pc, bad, reply, queue>> /\ running' = running \ {w} /\ w \in running
    BY DEF Finish
  <1>2. \A v \in Workers \ {w} : outcome'[v] = outcome[v]
    BY DEF OInv, PInv, TypeOK, Finish
  <1>3. outcome'[w] \in {IF bad[w] THEN "wrapped" ELSE "ok", "transient"}
    BY VerifyAssumption DEF OInv, PInv, TypeOK, Finish, Verify
  <1>4. \A n \in DOMAIN queue : queue[n] # Dead => queue[n] \in Workers \ {w}
    BY <1>1, QueueType DEF OInv, PInv, Placed
  <1>5. Placed'
    <2>1. \A v \in running' : Waiting(v)'
      BY <1>1, <1>2 DEF OInv, PInv, TypeOK, Placed, Waiting
    <2>2. \A n \in DOMAIN queue : queue[n] # Dead => Waiting(queue[n])'
      BY <1>1, <1>2, <1>4 DEF OInv, Placed, Waiting
    <2> QED BY <1>1, <2>1, <2>2 DEF OInv, Placed, Waiting
  <1>6. OwnResult' BY <1>1, <1>2, <1>3 DEF OInv, OwnResult
  <1>7. OutageNever401' BY <1>1 DEF OInv, OutageNever401
  <1> QED BY <1>5, <1>6, <1>7

LEMMA InitOInv == Init => OInv
  <1> SUFFICES ASSUME Init PROVE OInv
    OBVIOUS
  <1>1. Placed BY DEF Init, Placed
  <1>2. OwnResult BY DEF Init, OwnResult
  <1>3. OutageNever401 BY DEF Init, OutageNever401
  <1> QED BY <1>1, <1>2, <1>3, InitPInv DEF OInv

LEMMA NextOInv == "keys" \notin Faults /\ OInv /\ [Next]_vars => OInv'
  <1> SUFFICES ASSUME "keys" \notin Faults, OInv, [Next]_vars PROVE OInv'
    OBVIOUS
  <1>0. PInv' BY NextPInv DEF OInv
  <1>1. ASSUME NEW w \in Workers, Request(w) \/ Serve(w) \/ Finish(w)
        PROVE  (Placed /\ OwnResult /\ OutageNever401)'
    BY <1>1, RequestOInv, AdmitOInv, SubmitOInv, ReturnOInv, TimeoutOInv, FinishOInv
    DEF Serve
  <1>2. CASE Take BY <1>2, TakeOInv, <1>0 DEF OInv
  <1>3. CASE FinishOrphan \/ HalfOpen \/ UNCHANGED vars
    <2>1. UNCHANGED <<pc, bad, outcome, reply, queue, running>>
      BY <1>3 DEF FinishOrphan, HalfOpen, vars, pool
    <2> QED BY <1>0, <2>1 DEF OInv, Placed, Waiting, OwnResult, OutageNever401
  <1> QED BY <1>0, <1>1, <1>2, <1>3 DEF Next, OInv

\* While the signing keys can be fetched, a request is accepted only if its own
\* token is good and refused only if it is not, whatever timed out before it.
THEOREM OwnTokenSafe ==
  ASSUME "keys" \notin Faults
  PROVE  Spec => []OutageNever401
  <1>1. OInv => OutageNever401 BY DEF OInv
  <1>2. OInv /\ [Next]_vars => OInv' BY NextOInv
  <1> QED BY InitOInv, <1>1, <1>2, PTL DEF Spec

-----------------------------------------------------------------------------
(* What opens a closed breaker. *)

\* The failures a window holds.
Bad(win) == {n \in DOMAIN win : ~win[n]}

LEMMA BadFinite ==
  ASSUME NEW win \in Seq(BOOLEAN)
  PROVE  IsFiniteSet(Bad(win)) /\ Cardinality(Bad(win)) \in Nat
  <1>1. Len(win) \in Nat /\ DOMAIN win = 1 .. Len(win) BY LenProperties
  <1>2. IsFiniteSet(DOMAIN win) BY <1>1, FS_Interval
  <1>3. Bad(win) \in SUBSET DOMAIN win BY DEF Bad
  <1>4. IsFiniteSet(Bad(win)) BY <1>2, <1>3, FS_Subset
  <1> QED BY <1>4, FS_CardinalityType

\* A result adds one failure or none.
LEMMA BadAppend ==
  ASSUME NEW win \in Seq(BOOLEAN), NEW ok \in BOOLEAN
  PROVE  /\ Append(win, ok) \in Seq(BOOLEAN)
         /\ ok => Cardinality(Bad(Append(win, ok))) = Cardinality(Bad(win))
         /\ ~ok => Cardinality(Bad(Append(win, ok))) = Cardinality(Bad(win)) + 1
  <1> DEFINE new == Append(win, ok)
             last == Len(win) + 1
  <1>1. /\ new \in Seq(BOOLEAN) /\ Len(new) = last /\ new[last] = ok
        /\ \A n \in 1 .. Len(win) : new[n] = win[n]
        /\ DOMAIN win = 1 .. Len(win) /\ DOMAIN new = 1 .. last /\ Len(win) \in Nat
    BY AppendProperties, LenProperties
  <1> HIDE DEF new
  <1>2. DOMAIN new = DOMAIN win \cup {last} /\ last \notin DOMAIN win
    BY <1>1
  <1>3. \A n \in DOMAIN win : n \in Bad(new) <=> n \in Bad(win)
    BY <1>1, <1>2 DEF Bad
  <1>4. last \notin Bad(win) /\ Bad(win) \subseteq DOMAIN win /\ Bad(new) \subseteq DOMAIN new
    BY <1>2 DEF Bad
  <1>5. CASE ok
    <2>1. last \notin Bad(new) BY <1>1, <1>5 DEF Bad
    <2>2. Bad(new) = Bad(win) BY <1>2, <1>3, <1>4, <2>1
    <2> QED BY <1>1, <1>5, <2>2 DEF new
  <1>6. CASE ~ok
    <2>1. last \in Bad(new) BY <1>1, <1>2, <1>6 DEF Bad
    <2>2. Bad(new) = Bad(win) \cup {last} BY <1>2, <1>3, <1>4, <2>1
    <2>3. Cardinality(Bad(new)) = Cardinality(Bad(win)) + 1
      BY <1>4, <2>2, BadFinite, FS_AddElement
    <2> QED BY <1>1, <1>6, <2>3 DEF new
  <1> QED BY <1>5, <1>6

\* Sliding the window on adds none.
LEMMA BadSlide ==
  ASSUME NEW win \in Seq(BOOLEAN), win # << >>
  PROVE  Slide(win) \in Seq(BOOLEAN) /\ Cardinality(Bad(Slide(win))) <= Cardinality(Bad(win))
  <1>1. CASE Slide(win) = win
    BY <1>1, BadFinite
  <1>2. CASE Slide(win) = Tail(win)
    <2> DEFINE rest == Tail(win)
    <2>1. /\ rest \in Seq(BOOLEAN) /\ Len(rest) = Len(win) - 1 /\ Len(win) \in Nat
          /\ DOMAIN rest = 1 .. Len(win) - 1 /\ DOMAIN win = 1 .. Len(win)
          /\ \A n \in 1 .. Len(rest) : rest[n] = win[n + 1]
      BY HeadTailProperties, LenProperties
    <2> HIDE DEF rest
    <2>2. \A n \in Bad(rest) : n \in Nat /\ n + 1 \in Bad(win)
      <3> SUFFICES ASSUME NEW n \in Bad(rest) PROVE n \in Nat /\ n + 1 \in Bad(win)
        OBVIOUS
      <3>1. n \in DOMAIN rest /\ ~rest[n] BY DEF Bad
      <3>2. n \in Nat /\ n \in 1 .. Len(rest) /\ n + 1 \in DOMAIN win BY <2>1, <3>1
      <3>3. rest[n] = win[n + 1] BY <2>1, <3>2
      <3> QED BY <3>1, <3>2, <3>3 DEF Bad
    <2> DEFINE f == [n \in Bad(rest) |-> n + 1]
    <2>3. f \in Injection(Bad(rest), Bad(win))
      <3>1. f \in [Bad(rest) -> Bad(win)] BY <2>2
      <3>2. \A m, n \in Bad(rest) : f[m] = f[n] => m = n
        <4>1. \A m, n \in Nat : m + 1 = n + 1 => m = n OBVIOUS
        <4> QED BY <2>2, <4>1
      <3> HIDE DEF f
      <3>3. DOMAIN f = Bad(rest) BY <3>1
      <3>4. IsInjective(f) BY <3>2, <3>3 DEF IsInjective
      <3> QED BY <3>1, <3>4 DEF Injection
    <2>4. IsFiniteSet(Bad(win)) BY BadFinite
    <2> HIDE DEF f
    <2>5. Cardinality(Bad(rest)) <= Cardinality(Bad(win)) BY <2>3, <2>4, FS_Injection
    <2> QED BY <1>2, <2>1, <2>5 DEF rest
  <1> QED BY <1>1, <1>2 DEF Slide

\* While the breaker is closed its window holds no more failures than were noted; the
\* note stops at the fewest calls the breaker judges by.
Noted == breaker = "closed" => Cardinality(Bad(window)) <= failed \/ failed = MinCalls

\* A result and its note: the note is a fault exactly when the result is a failure.
LEMMA RecordNoted ==
  ASSUME PInv, Noted, NEW ok \in BOOLEAN, NEW fault \in BOOLEAN, fault <=> ~ok,
         Record(ok), Note(fault)
  PROVE  /\ Noted'
         /\ breaker = "closed" /\ breaker' = "open" => 2 * failed' >= MinCalls
  <1> DEFINE more == Append(window, ok)
             win  == Slide(more)
  <1>0. /\ window \in Seq(BOOLEAN) /\ failed \in 0 .. MinCalls /\ MinCalls \in Nat \ {0}
        /\ breaker \in {"closed", "open", "halfOpen"}
        /\ Cardinality(Bad(window)) \in Nat
    BY VerifyAssumption, BadFinite DEF PInv, TypeOK
  <1>1. CASE breaker = "closed" /\ RecordClosed(win)
    <2>1. more \in Seq(BOOLEAN) /\ more # << >>
      BY <1>0, AppendProperties
    <2>2. /\ ok => Cardinality(Bad(more)) = Cardinality(Bad(window))
          /\ ~ok => Cardinality(Bad(more)) = Cardinality(Bad(window)) + 1
      BY <1>0, BadAppend
    <2> HIDE DEF more
    <2>3. /\ win \in Seq(BOOLEAN) /\ Cardinality(Bad(win)) \in Nat
          /\ Cardinality(Bad(win)) <= Cardinality(Bad(more))
      BY <2>1, BadSlide, BadFinite
    <2> HIDE DEF win
    <2>4. failed' = IF fault /\ failed < MinCalls THEN failed + 1 ELSE failed
      BY <1>1 DEF Note
    <2>5. Cardinality(Bad(win)) <= failed' \/ failed' = MinCalls
      <3>1. Cardinality(Bad(window)) <= failed \/ failed = MinCalls BY <1>1 DEF Noted
      <3>2. CASE ok
        <4>1. failed' = failed BY <2>4, <3>2
        <4> QED BY <1>0, <2>2, <2>3, <3>1, <3>2, <4>1
      <3>3. CASE ~ok
        <4>1. failed' = IF failed < MinCalls THEN failed + 1 ELSE failed BY <2>4, <3>3
        <4> QED BY <1>0, <2>2, <2>3, <3>1, <3>3, <4>1
      <3> QED BY <3>2, <3>3
    <2>6. CASE Len(win) >= MinCalls /\ TooMany(win)
      <3>1. breaker' = "open" BY <1>1, <2>6 DEF RecordClosed
      <3>2. 2 * Cardinality(Bad(win)) >= Len(win) BY <2>6 DEF TooMany, Bad
      <3>3. Len(win) \in Nat BY <2>3, LenProperties
      <3>4. 2 * failed' >= MinCalls
        <4>1. failed' \in Nat BY <1>0, <2>4
        <4> DEFINE k == Cardinality(Bad(win))
        <4>2. k \in Nat /\ 2 * k >= MinCalls BY <1>0, <2>3, <2>6, <3>2, <3>3
        <4>3. k <= failed' \/ failed' = MinCalls BY <2>5
        <4> HIDE DEF k
        <4>4. \A m \in Nat : k <= m \/ m = MinCalls => 2 * m >= MinCalls BY <1>0, <4>2
        <4> QED BY <4>1, <4>3, <4>4
      <3> QED BY <3>1, <3>4 DEF Noted
    <2>7. CASE ~(Len(win) >= MinCalls /\ TooMany(win))
      <3>1. breaker' = breaker /\ window' = win BY <1>1, <2>7 DEF RecordClosed
      <3> QED BY <1>1, <2>5, <3>1 DEF Noted
    <2> QED BY <2>6, <2>7
  <1>2. CASE breaker = "halfOpen" /\ RecordHalfOpen(more)
    <2>1. failed' = 0 BY <1>2 DEF Note
    <2>2. CASE breaker' = "closed"
      <3>1. window' = << >> BY <1>2, <2>2 DEF RecordHalfOpen, CloseOrOpen
      <3>2. Bad(window') = {} BY <3>1 DEF Bad
      <3>3. Cardinality(Bad(window')) = 0 BY <3>2, FS_EmptySet
      <3>4. Cardinality(Bad(window')) <= failed' BY <2>1, <3>3
      <3> QED BY <1>2, <3>4 DEF Noted
    <2> QED BY <1>2, <2>2 DEF Noted
  <1>3. CASE breaker = "open" /\ UNCHANGED <<breaker, window, permits>>
    BY <1>3 DEF Noted
  <1> QED BY <1>1, <1>2, <1>3 DEF Record

LEMMA NextNoted ==
  ASSUME PInv, Noted, [Next]_vars
  PROVE  /\ Noted'
         /\ breaker = "closed" /\ breaker' = "open" => 2 * failed' >= MinCalls
  <1>1. CASE UNCHANGED <<breaker, window, failed>>
    BY <1>1 DEF Noted
  <1>2. CASE RecordFault
    BY <1>2, RecordNoted DEF RecordFault
  <1>3. CASE Record(TRUE) /\ Note(FALSE)
    BY <1>3, RecordNoted
  <1>4. CASE Release /\ Note(FALSE)
    <2>1. UNCHANGED <<breaker, window>> BY <1>4 DEF Release
    <2>2. breaker = "closed" => failed' = failed BY <1>4 DEF Note
    <2> QED BY <2>1, <2>2 DEF Noted
  <1>5. CASE HalfOpen
    BY <1>5 DEF HalfOpen, Noted
  <1>6. ASSUME NEW w \in Workers, Request(w) \/ Serve(w) \/ Finish(w)
        PROVE  \/ UNCHANGED <<breaker, window, failed>> \/ RecordFault
               \/ Record(TRUE) /\ Note(FALSE)
               \/ Release /\ Note(FALSE)
    <2>1. CASE Request(w) \/ Admit(w) \/ Backoff(w) \/ Finish(w)
      BY <2>1 DEF Request, Admit, Backoff, Finish, circuit
    <2>2. CASE Submit(w) BY <2>2 DEF Submit, Accept, Reject, circuit
    <2>3. CASE Return(w) BY <2>3 DEF Return
    <2>4. CASE Timeout(w) BY <2>4 DEF Timeout
    <2> QED BY <1>6, <2>1, <2>2, <2>3, <2>4 DEF Serve
  <1>7. CASE Take \/ FinishOrphan \/ UNCHANGED vars
    BY <1>1, <1>7 DEF Take, FinishOrphan, vars, circuit
  <1> QED BY <1>1, <1>2, <1>3, <1>4, <1>5, <1>6, <1>7 DEF Next

\* A closed breaker opens only on failures of the system: rejected tokens, however many
\* and in whatever order, are in no window (the wrapper is an ignored exception).
THEOREM OpeningSafe == Spec => OpenedByFaults
  <1>1. Init => Noted
    <2> SUFFICES ASSUME Init PROVE Cardinality(Bad(window)) = 0 /\ failed = 0
      BY DEF Noted
    <2>1. Bad(window) = {} BY DEF Init, Bad
    <2> QED BY <2>1, FS_EmptySet DEF Init
  <1>2. PInv /\ Noted /\ [Next]_vars => Noted' BY NextNoted
  <1>3. PInv /\ Noted /\ [Next]_vars =>
          [breaker = "closed" /\ breaker' = "open" => 2 * failed' >= MinCalls]_vars
    BY NextNoted
  <1> QED BY InitPInv, NextPInv, <1>1, <1>2, <1>3, PTL DEF Spec, OpenedByFaults

=============================================================================
