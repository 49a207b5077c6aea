--------------------------- MODULE ResilientVerify ---------------------------
(***************************************************************************)
(* Token verification of one instance (auth/ResilientTokenVerifier.java):  *)
(* Retry(CircuitBreaker(TimeLimiter(call))), the call on a bounded pool.   *)
(*                                                                         *)
(* A worker is a servlet thread with one request.  It asks the breaker for *)
(* a permission, submits the call, and waits for its future until the      *)
(* timeout.  A timed-out call is cancelled: in the queue it stays as a     *)
(* dead entry, on a pool thread it may hold the thread until the SDK       *)
(* returns.                                                                *)
(*                                                                         *)
(* The breaker, the retry and the time limit are Resilience4j's, set up by *)
(* application.yml; the SDK is Firebase's.  An attempt lasts at most the   *)
(* timeout (2 s), which is shorter than the breaker's open state (10 s),   *)
(* so no attempt admitted before it opened is left when it half-opens.     *)
(***************************************************************************)
EXTENDS Integers, FiniteSets, Sequences

CONSTANTS Workers,
          PoolSize, QueueCapacity,
          MaxAttempts,          \* retry: max-attempts
          WindowSize, MinCalls, \* breaker: sliding-window-size, minimum-number-of-calls
          HalfOpenCalls,        \* breaker: permitted-number-of-calls-in-half-open-state
          Dead,                 \* a cancelled entry of the queue
          Faults                \* how the SDK may fail: see Verify

ASSUME VerifyAssumption ==
  /\ IsFiniteSet(Workers) /\ Dead \notin Workers
  /\ PoolSize \in Nat \ {0} /\ QueueCapacity \in Nat \ {0}
  /\ MaxAttempts \in Nat \ {0}
  /\ WindowSize \in Nat \ {0} /\ MinCalls \in 1 .. WindowSize
  /\ HalfOpenCalls \in Nat \ {0}
  /\ Faults \subseteq {"transient", "keys"}

VARIABLES pc,
          bad,       \* per worker: its token is one Firebase rejects
          tries,     \* per worker: attempts that failed and were retried
          outcome,   \* per worker: what the future it waits for holds
          reply,     \* per worker: how its request was answered
          queue,     \* the pool's queue
          running,   \* workers whose call is on a pool thread
          orphans,   \* pool threads on a call nobody waits for
          started,   \* pool threads created so far
          breaker, window, permits,
          failed     \* history: faults while the breaker is closed, up to MinCalls

pool    == <<queue, running, orphans, started>>
circuit == <<breaker, window, permits, failed>>
vars    == <<pc, bad, tries, outcome, reply, pool, circuit>>

TypeOK ==
  /\ pc \in [Workers -> {"idle", "call", "submit", "wait", "backoff"}]
  /\ bad \in [Workers -> BOOLEAN]
  /\ tries \in [Workers -> 0 .. MaxAttempts - 1]
  /\ outcome \in [Workers -> {"none", "ok", "wrapped", "transient"}]
  /\ reply \in [Workers -> {"none", "verified", "401", "503"}]
  /\ queue \in Seq(Workers \cup {Dead}) /\ Len(queue) <= QueueCapacity
  /\ running \subseteq Workers
  /\ orphans \in Nat /\ started \in 0 .. PoolSize
  /\ Cardinality(running) + orphans <= started
  /\ breaker \in {"closed", "open", "halfOpen"}
  /\ window \in Seq(BOOLEAN)
  /\ Len(window) <= IF breaker = "halfOpen" THEN HalfOpenCalls - 1 ELSE WindowSize
  /\ permits \in 0 .. HalfOpenCalls
  /\ failed \in 0 .. MinCalls

Init ==
  /\ pc = [w \in Workers |-> "idle"]
  /\ bad = [w \in Workers |-> FALSE]
  /\ tries = [w \in Workers |-> 0]
  /\ outcome = [w \in Workers |-> "none"]
  /\ reply = [w \in Workers |-> "none"]
  /\ queue = << >> /\ running = {} /\ orphans = 0 /\ started = 0
  /\ breaker = "closed" /\ window = << >> /\ permits = 0 /\ failed = 0

Goto(w, to) == pc' = [pc EXCEPT ![w] = to]
Answer(w, r) == Goto(w, "idle") /\ reply' = [reply EXCEPT ![w] = r]

\* Attempts that hold a permission of the breaker.
InFlight == {w \in Workers : pc[w] \in {"submit", "wait"}}

-----------------------------------------------------------------------------
(* The breaker *)

\* failure-rate-threshold: 50
TooMany(win) == 2 * Cardinality({n \in DOMAIN win : ~win[n]}) >= Len(win)

Slide(win) == IF Len(win) <= WindowSize THEN win ELSE Tail(win)

CloseOrOpen(win) ==
  /\ breaker' = IF TooMany(win) THEN "open" ELSE "closed"
  /\ window' = << >> /\ permits' = 0

\* A closed breaker judges its window after every result, once it is long enough.
RecordClosed(win) ==
  /\ IF Len(win) >= MinCalls /\ TooMany(win)
       THEN breaker' = "open" /\ window' = << >>
       ELSE UNCHANGED breaker /\ window' = win
  /\ UNCHANGED permits

\* A half-open one judges when all its probes are in.
RecordHalfOpen(win) ==
  IF Len(win) < HalfOpenCalls
    THEN window' = win /\ UNCHANGED <<breaker, permits>>
    ELSE CloseOrOpen(win)

\* A result goes to the state the breaker is in when it arrives; an open one
\* ignores it.
Record(ok) ==
  \/ breaker = "closed" /\ RecordClosed(Slide(Append(window, ok)))
  \/ breaker = "halfOpen" /\ RecordHalfOpen(Append(window, ok))
  \/ breaker = "open" /\ UNCHANGED <<breaker, window, permits>>

\* The history of a step that records a result, a fault or not.
Note(fault) ==
  failed' = IF breaker # "closed" THEN 0
            ELSE IF fault /\ failed < MinCalls THEN failed + 1 ELSE failed

RecordFault == Record(FALSE) /\ Note(TRUE)

\* (a slip) The breaker keeps the permission of an attempt it ignores.
KeepPermit == UNCHANGED <<breaker, window, permits>>

\* An ignored exception gives the permission back.
Release ==
  /\ permits' = IF breaker = "halfOpen" THEN permits + 1 ELSE permits
  /\ UNCHANGED <<breaker, window>>

\* automatic-transition-from-open-to-half-open-enabled
HalfOpen ==
  /\ breaker = "open" /\ InFlight = {}
  /\ breaker' = "halfOpen" /\ window' = << >> /\ permits' = HalfOpenCalls
  /\ UNCHANGED <<failed, pc, bad, tries, outcome, reply, pool>>

-----------------------------------------------------------------------------
(* The servlet threads *)

\* A request with a bearer token reaches the filter.
Request(w) ==
  /\ pc[w] = "idle"
  /\ \E b \in BOOLEAN : bad' = [bad EXCEPT ![w] = b]
  /\ tries' = [tries EXCEPT ![w] = 0]
  /\ reply' = [reply EXCEPT ![w] = "none"]
  /\ Goto(w, "call")
  /\ UNCHANGED <<outcome, pool, circuit>>

\* The breaker admits the attempt, or CallNotPermittedException, which is not retried.
Admit(w) ==
  /\ pc[w] = "call"
  /\ IF breaker = "closed" \/ permits > 0
       THEN Goto(w, "submit") /\ UNCHANGED reply
       ELSE Answer(w, "503")
  /\ permits' = IF permits > 0 THEN permits - 1 ELSE permits
  /\ UNCHANGED <<bad, tries, outcome, pool, breaker, window, failed>>

\* (a slip) Retries used up read as a rejected token.
GiveUpAs401(w) ==
  IF tries[w] + 1 < MaxAttempts
    THEN /\ tries' = [tries EXCEPT ![w] = @ + 1]
         /\ Goto(w, "backoff") /\ UNCHANGED reply
    ELSE Answer(w, "401") /\ UNCHANGED tries

\* A failure the retry does not ignore: wait and try again, or give up.
Retry(w) ==
  IF tries[w] + 1 < MaxAttempts
    THEN /\ tries' = [tries EXCEPT ![w] = @ + 1]
         /\ Goto(w, "backoff") /\ UNCHANGED reply
    ELSE Answer(w, "503") /\ UNCHANGED tries

Backoff(w) ==
  /\ pc[w] = "backoff"
  /\ Goto(w, "call")
  /\ UNCHANGED <<bad, tries, outcome, reply, pool, circuit>>

\* (a slip) A queue without a bound.
AcceptAll(w) ==
  /\ queue' = Append(queue, w) /\ started' = PoolSize
  /\ Goto(w, "wait")
  /\ outcome' = [outcome EXCEPT ![w] = "none"]
  /\ UNCHANGED <<tries, reply, running, orphans, circuit>>

\* executor.submit: a new thread while there are fewer than PoolSize, else the
\* queue, else RejectedExecutionException.
Accept(w) ==
  /\ IF started < PoolSize
       THEN /\ started' = started + 1 /\ running' = running \cup {w}
            /\ UNCHANGED queue
       ELSE /\ Len(queue) < QueueCapacity /\ queue' = Append(queue, w)
            /\ UNCHANGED <<started, running>>
  /\ Goto(w, "wait")
  /\ outcome' = [outcome EXCEPT ![w] = "none"]
  /\ UNCHANGED <<tries, reply, orphans, circuit>>

Reject(w) ==
  /\ started = PoolSize /\ Len(queue) = QueueCapacity
  /\ RecordFault /\ Retry(w)
  /\ UNCHANGED <<outcome, pool>>

Submit(w) ==
  /\ pc[w] = "submit"
  /\ Accept(w) \/ Reject(w)
  /\ UNCHANGED bad

\* (a slip) AuthFailureWrapper is not among the breaker's ignore-exceptions.
RecordWrapper(w) ==
  /\ pc[w] = "wait" /\ outcome[w] # "none"
  /\ Record(outcome[w] = "ok") /\ Note(outcome[w] = "transient")
  /\ Answer(w, IF outcome[w] = "ok" THEN "verified" ELSE "401")
  /\ UNCHANGED <<bad, tries, outcome, pool>>

\* The future is done in time.
Return(w) ==
  /\ pc[w] = "wait" /\ outcome[w] # "none"
  /\ \/ outcome[w] = "ok" /\ Record(TRUE) /\ Note(FALSE)
        /\ Answer(w, "verified") /\ UNCHANGED tries
     \/ outcome[w] = "wrapped" /\ Release /\ Note(FALSE)
        /\ Answer(w, "401") /\ UNCHANGED tries
     \/ outcome[w] = "transient" /\ RecordFault /\ Retry(w)
  /\ UNCHANGED <<bad, outcome, pool>>

\* (a slip) The time limit starts when the call does, not when it is submitted.
TimeoutRunning(w) ==
  /\ w \in running
  /\ running' = running \ {w} /\ orphans' = orphans + 1
  /\ RecordFault /\ Answer(w, "503")
  /\ UNCHANGED <<bad, tries, outcome, queue, started>>

\* It is not: it is cancelled, and the TimeoutException is recorded, not retried.
Timeout(w) ==
  /\ pc[w] = "wait" /\ outcome[w] = "none"
  /\ IF w \in running
       THEN /\ running' = running \ {w} /\ orphans' = orphans + 1
            /\ UNCHANGED queue
       ELSE /\ queue' = [n \in DOMAIN queue |-> IF queue[n] = w THEN Dead ELSE queue[n]]
            /\ UNCHANGED <<running, orphans>>
  /\ RecordFault /\ Answer(w, "503")
  /\ UNCHANGED <<bad, tries, outcome, started>>

-----------------------------------------------------------------------------
(* The pool and the SDK *)

\* A free thread takes the next entry; a cancelled one is over at once.
Take ==
  /\ queue # << >> /\ Cardinality(running) + orphans < started
  /\ running' = running \cup ({Head(queue)} \ {Dead})
  /\ queue' = Tail(queue)
  /\ UNCHANGED <<pc, bad, tries, outcome, reply, orphans, started, circuit>>

\* FirebaseTokenVerifier.verify: every FirebaseAuthException is a
\* TokenVerificationException, the rejected token as well as signing keys that
\* cannot be fetched ("keys"); any other failure ("transient") passes as it is.
Verify(result) == IF result \in {"rejected", "keys"} THEN "wrapped" ELSE result

Finish(w) ==
  /\ w \in running
  /\ \E result \in {IF bad[w] THEN "rejected" ELSE "ok"} \cup Faults :
       outcome' = [outcome EXCEPT ![w] = Verify(result)]
  /\ running' = running \ {w}
  /\ UNCHANGED <<pc, bad, tries, reply, queue, orphans, started, circuit>>

FinishOrphan ==
  /\ orphans > 0
  /\ orphans' = orphans - 1
  /\ UNCHANGED <<pc, bad, tries, outcome, reply, queue, running, started, circuit>>

-----------------------------------------------------------------------------
Serve(w) == Admit(w) \/ Submit(w) \/ Return(w) \/ Timeout(w) \/ Backoff(w)

Next ==
  \/ \E w \in Workers : Request(w) \/ Serve(w) \/ Finish(w)
  \/ Take \/ FinishOrphan \/ HalfOpen

Spec == Init /\ [][Next]_vars

\* A servlet thread runs and its timer fires; nothing is assumed of the pool's
\* threads or of the SDK, which may hang for ever.
FairSpec == Spec /\ \A w \in Workers : WF_vars(Serve(w))

-----------------------------------------------------------------------------
(* Properties *)

\* Every permission of a half-open breaker is unused, held by an attempt, or
\* its result is in the window: none leaks, so the breaker is never left
\* half-open with nothing to decide it, and no extra probe gets through.
ProbesBounded ==
  breaker = "halfOpen" =>
    permits + Cardinality(InFlight) + Len(window) = HalfOpenCalls

\* "bad tokens can never open the breaker": when a closed breaker opens, at
\* least half of the fewest calls it judges by were failures that are not a
\* rejected token (errors, timeouts, calls the full pool turned away).
OpenedByFaults ==
  [][breaker = "closed" /\ breaker' = "open" => 2 * failed' >= MinCalls]_vars

\* A request is answered for the token it carries, also when an earlier call of
\* the same servlet thread is still in the pool: accepted only if Firebase
\* accepts it, and 401 only if Firebase rejects it (ResilientTokenVerifier's
\* "a real outage can never masquerade as a 401").
OutageNever401 ==
  \A w \in Workers : /\ reply[w] = "verified" => ~bad[w]
                     /\ reply[w] = "401" => bad[w]

\* Every request is answered, even when every pool thread hangs for ever.
Answered == \A w \in Workers : pc[w] = "call" ~> pc[w] = "idle"
=============================================================================
