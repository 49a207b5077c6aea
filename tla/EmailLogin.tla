------------------------------ MODULE EmailLogin ------------------------------
(***************************************************************************)
(* Passwordless sign-in by emailed code, for one address (login/).  Rows   *)
(* and throttle keys of different addresses share nothing, so one address  *)
(* shows everything.                                                       *)
(*                                                                         *)
(* A worker is a request thread of any instance.  issue and consume are    *)
(* transactions at PostgreSQL's default READ COMMITTED: findByEmail takes  *)
(* no lock, the entity has no @Version, and Hibernate writes every column  *)
(* back from the entity it read.  So each is a read step and a write step, *)
(* and the writes of other workers may fall between the two.               *)
(*                                                                         *)
(* The code mailed for the n-th issue is the number n and its hash is n    *)
(* too: the hash is injective on the codes of one address and two draws    *)
(* of the random generator are taken to differ.  0 is a guess that matches *)
(* no code.                                                                *)
(***************************************************************************)
EXTENDS Integers, FiniteSets

CONSTANTS Workers,
          MaxAttempts,  \* app.email-login.max-attempts
          Ttl,          \* app.email-login.ttl, in ticks
          Faults,       \* subset of {"crash", "outage", "conflict"}: what may go wrong
          MaxIssues,    \* bound: codes issued
          MaxVerifies,  \* bound: verify requests
          Horizon       \* bound: the clock stops here

ASSUME EmailLoginAssumption ==
  /\ MaxAttempts \in Nat \ {0}
  /\ Ttl \in Nat \ {0}
  /\ Faults \subseteq {"crash", "outage", "conflict"}
  /\ MaxIssues \in Nat /\ MaxVerifies \in Nat /\ Horizon \in Nat

VARIABLES clock,
          row,       \* the email_login_codes row of the address
          firebase,  \* Firebase has a user with this address
          issued,    \* codes generated so far
          verifies,  \* verify requests made so far
          pc, job,   \* per worker: where it is, and what it carries
          mailed,    \* codes handed to the mail sender
          latest,    \* history: the code of the last committed issue
          deadline,  \* history: the expiry given to each code
          accepts,   \* history: committed successful verifications of each code
          misses,    \* history: committed wrong guesses against each code
          minted     \* history: custom tokens minted for each code

vars == <<clock, row, firebase, issued, verifies, pc, job, mailed,
          latest, deadline, accepts, misses, minted>>

Codes == 1 .. MaxIssues
Rows  == [code : Codes, expires : Nat, attempts : 0 .. MaxAttempts, consumed : BOOLEAN]
NoRow == [code |-> 0, expires |-> 0, attempts |-> 0, consumed |-> FALSE]
Jobs  == [code : 0 .. MaxIssues, at : Nat, seen : Rows \cup {NoRow}]
Idle  == [code |-> 0, at |-> 0, seen |-> NoRow]

Steps == {"idle", "issue", "insert", "mail", "consume", "miss", "spend",
          "resolve", "create", "reread", "provision", "mint"}

\* The stored counter never passes the cap, however many workers miss at once:
\* each writes one more than a count it read below it (EmailLoginCodeStore).
TypeOK ==
  /\ clock \in Nat /\ issued \in 0 .. MaxIssues /\ verifies \in Nat
  /\ row \in Rows \cup {NoRow}
  /\ firebase \in BOOLEAN
  /\ pc \in [Workers -> Steps]
  /\ job \in [Workers -> Jobs]
  /\ mailed \subseteq Codes
  /\ latest \in 0 .. MaxIssues
  /\ deadline \in [Codes -> Nat]
  /\ accepts \in [Codes -> Nat] /\ misses \in [Codes -> Nat] /\ minted \in [Codes -> Nat]

Init ==
  /\ clock = 0 /\ issued = 0 /\ verifies = 0
  /\ row = NoRow
  /\ firebase \in BOOLEAN
  /\ pc = [w \in Workers |-> "idle"]
  /\ job = [w \in Workers |-> Idle]
  /\ mailed = {}
  /\ latest = 0
  /\ deadline = [c \in Codes |-> 0]
  /\ accepts = [c \in Codes |-> 0]
  /\ misses = [c \in Codes |-> 0]
  /\ minted = [c \in Codes |-> 0]

\* Worker w moves on, or answers its request.
Goto(w, from, to) == pc[w] = from /\ pc' = [pc EXCEPT ![w] = to]
End(w) == pc' = [pc EXCEPT ![w] = "idle"] /\ job' = [job EXCEPT ![w] = Idle]

Tick ==
  /\ clock < Horizon
  /\ clock' = clock + 1
  /\ UNCHANGED <<row, firebase, issued, verifies, pc, job, mailed,
                 latest, deadline, accepts, misses, minted>>

\* A request that enforceRateLimit refuses (TokenBucket decides) or a verify
\* that finds no Admin client is answered 429 or 503 before anything is read
\* or spent: it is not a step here.

-----------------------------------------------------------------------------
(* start *)

\* generateNumericCode, hash, clock.instant(): all before the transaction.
Start(w) ==
  /\ issued < MaxIssues
  /\ Goto(w, "idle", "issue")
  /\ issued' = issued + 1
  /\ job' = [job EXCEPT ![w].code = issued', ![w].at = clock]
  /\ deadline' = [deadline EXCEPT ![issued'] = clock + Ttl]
  /\ UNCHANGED <<clock, row, firebase, verifies, mailed, latest, accepts, misses, minted>>

\* issue: findByEmail, without a lock.
IssueRead(w) ==
  /\ Goto(w, "issue", "insert")
  /\ job' = [job EXCEPT ![w].seen = row]
  /\ UNCHANGED <<clock, row, firebase, issued, verifies, mailed,
                 latest, deadline, accepts, misses, minted>>

\* (a slip) The re-issue forgets the attempt counter and the consumed mark.
IssuedRowKeepMarks(w) ==
  [code |-> job[w].code, expires |-> job[w].at + Ttl,
   attempts |-> job[w].seen.attempts, consumed |-> job[w].seen.consumed]

\* (a slip) The re-issue forgets to store the new hash.
IssuedRowKeepHash(w) ==
  [code |-> IF job[w].seen = NoRow THEN job[w].code ELSE job[w].seen.code,
   expires |-> job[w].at + Ttl, attempts |-> 0, consumed |-> FALSE]

\* (a slip) The re-issue forgets to refresh the expiry.
IssuedRowKeepExpiry(w) ==
  [code |-> job[w].code,
   expires |-> IF job[w].seen = NoRow THEN job[w].at + Ttl ELSE job[w].seen.expires,
   attempts |-> 0, consumed |-> FALSE]

IssuedRow(w) == [code |-> job[w].code, expires |-> job[w].at + Ttl,
                 attempts |-> 0, consumed |-> FALSE]

\* saveAndFlush: an update by id when a row was read, else an insert, which
\* the UNIQUE index on email refuses if another start inserted meanwhile.
IssueWrite(w) ==
  /\ pc[w] = "insert"
  /\ \/ /\ job[w].seen # NoRow \/ row = NoRow
        /\ row' = IssuedRow(w)
        /\ latest' = job[w].code
        /\ Goto(w, "insert", "mail")
        /\ UNCHANGED job
     \/ /\ job[w].seen = NoRow /\ row # NoRow
        /\ End(w)
        /\ UNCHANGED <<row, latest>>
  /\ UNCHANGED <<clock, firebase, issued, verifies, mailed, deadline, accepts, misses, minted>>

Dispatch(w) ==
  /\ pc[w] = "mail"
  /\ mailed' = mailed \cup {job[w].code}
  /\ End(w)
  /\ UNCHANGED <<clock, row, firebase, issued, verifies,
                 latest, deadline, accepts, misses, minted>>

-----------------------------------------------------------------------------
(* verify *)

\* The submitted code is hashed and the clock read before the transaction.
VerifyBegin(w) ==
  /\ verifies < MaxVerifies
  /\ verifies' = verifies + 1
  /\ Goto(w, "idle", "consume")
  /\ \E guess \in 0 .. issued : job' = [job EXCEPT ![w].code = guess, ![w].at = clock]
  /\ UNCHANGED <<clock, row, firebase, issued, mailed,
                 latest, deadline, accepts, misses, minted>>

\* (a slip) The consumed mark is not looked at.
SpendableAgain(r, at) == r # NoRow /\ at < r.expires /\ r.attempts < MaxAttempts

\* (a slip) The cap is checked one too late.
SpendableOneMore(r, at) == r # NoRow /\ ~r.consumed /\ at < r.expires /\ r.attempts <= MaxAttempts

\* consume's checks on the row it read.
Spendable(r, at) ==
  /\ r # NoRow
  /\ ~r.consumed
  /\ at < r.expires
  /\ r.attempts < MaxAttempts

ConsumeRead(w) ==
  /\ pc[w] = "consume"
  /\ \/ /\ ~Spendable(row, job[w].at)
        /\ End(w)
     \/ /\ Spendable(row, job[w].at)
        /\ Goto(w, "consume", IF job[w].code = row.code THEN "spend" ELSE "miss")
        /\ job' = [job EXCEPT ![w].seen = row]
  /\ UNCHANGED <<clock, row, firebase, issued, verifies, mailed,
                 latest, deadline, accepts, misses, minted>>

\* (a slip) The attempts count down.
MissedDown(w) == [job[w].seen EXCEPT !.attempts = @ - 1]

\* The commit writes every column of the entity as it was read, plus the change.
Missed(w) == [job[w].seen EXCEPT !.attempts = @ + 1]
Spent(w)  == [job[w].seen EXCEPT !.consumed = TRUE]

MissWrite(w) ==
  /\ pc[w] = "miss"
  /\ row' = Missed(w)
  /\ misses' = [misses EXCEPT ![job[w].seen.code] = @ + 1]
  /\ End(w)
  /\ UNCHANGED <<clock, firebase, issued, verifies, mailed, latest, deadline, accepts, minted>>

SpendWrite(w) ==
  /\ Goto(w, "spend", "resolve")
  /\ row' = Spent(w)
  /\ accepts' = [accepts EXCEPT ![job[w].seen.code] = @ + 1]
  /\ UNCHANGED <<clock, firebase, issued, verifies, job, mailed, latest, deadline, misses, minted>>

-----------------------------------------------------------------------------
(* verify, after the code is spent: nothing below undoes the spending. *)

\* getUserByEmail, then createUser when there is none; EMAIL_ALREADY_EXISTS
\* (a concurrent create won) is answered by reading again.
Resolve(w) ==
  /\ Goto(w, "resolve", IF firebase THEN "provision" ELSE "create")
  /\ UNCHANGED <<clock, row, firebase, issued, verifies, job, mailed,
                 latest, deadline, accepts, misses, minted>>

\* (a slip) A create that loses the race to another worker is an outage.
CreateOrFail(w) ==
  /\ pc[w] = "create"
  /\ \/ ~firebase /\ Goto(w, "create", "provision") /\ UNCHANGED job
     \/ firebase /\ End(w)
  /\ firebase' = TRUE
  /\ UNCHANGED <<clock, row, issued, verifies, mailed,
                 latest, deadline, accepts, misses, minted>>

Create(w) ==
  /\ Goto(w, "create", IF firebase THEN "reread" ELSE "provision")
  /\ firebase' = TRUE
  /\ UNCHANGED <<clock, row, issued, verifies, job, mailed,
                 latest, deadline, accepts, misses, minted>>

Reread(w) ==
  /\ firebase
  /\ Goto(w, "reread", "provision")
  /\ UNCHANGED <<clock, row, firebase, issued, verifies, job, mailed,
                 latest, deadline, accepts, misses, minted>>

\* UserService.provisionFromToken, which AccountIdentity models: it may end
\* in an unresolved conflict.
Provision(w) ==
  /\ pc[w] = "provision"
  /\ \/ Goto(w, "provision", "mint") /\ UNCHANGED job
     \/ "conflict" \in Faults /\ End(w)
  /\ UNCHANGED <<clock, row, firebase, issued, verifies, mailed,
                 latest, deadline, accepts, misses, minted>>

Mint(w) ==
  /\ pc[w] = "mint"
  /\ minted' = [minted EXCEPT ![job[w].seen.code] = @ + 1]
  /\ End(w)
  /\ UNCHANGED <<clock, row, firebase, issued, verifies, mailed,
                 latest, deadline, accepts, misses>>

\* A FirebaseAuthException at any call, answered with a 503.
Outage(w) ==
  /\ "outage" \in Faults
  /\ pc[w] \in {"resolve", "create", "reread", "mint"}
  /\ End(w)
  /\ UNCHANGED <<clock, row, firebase, issued, verifies, mailed,
                 latest, deadline, accepts, misses, minted>>

\* The instance dies, or the database connection does: an open transaction
\* rolls back, what was committed stays, nobody is answered.
Crash(w) ==
  /\ "crash" \in Faults
  /\ pc[w] # "idle"
  /\ End(w)
  /\ UNCHANGED <<clock, row, firebase, issued, verifies, mailed,
                 latest, deadline, accepts, misses, minted>>

Progress(w) ==
  \/ IssueRead(w) \/ IssueWrite(w) \/ Dispatch(w)
  \/ ConsumeRead(w) \/ MissWrite(w) \/ SpendWrite(w)
  \/ Resolve(w) \/ Create(w) \/ Reread(w) \/ Provision(w) \/ Mint(w)

\* Nobody has to send a request: with none under way the system may rest.
Rest == (\A w \in Workers : pc[w] = "idle") /\ UNCHANGED vars

Next ==
  \/ Tick
  \/ Rest
  \/ \E w \in Workers :
       Start(w) \/ VerifyBegin(w) \/ Progress(w) \/ Outage(w) \/ Crash(w)

Spec == Init /\ [][Next]_vars

\* A request thread, once it has a request, is scheduled until it answers;
\* nobody has to send a request.
Fairness == \A w \in Workers : WF_vars(Progress(w))
FairSpec == Spec /\ Fairness

-----------------------------------------------------------------------------
(* What holds whatever the workers do. *)

\* The row's hash and expiry always belong together, and a code is accepted
\* only if the request read the clock before that code's own expiry
\* (EmailLoginCodeStore.consume): stale reads and full-row writes may bring
\* an old code back, but never under another code's lifetime.
ExpiryKept ==
  /\ row # NoRow => row.expires = deadline[row.code]
  /\ \A w \in Workers :
       pc[w] = "spend" => /\ job[w].seen.code = job[w].code
                          /\ job[w].at < deadline[job[w].code]

\* Workers that have spent code c and have not answered yet.
SigningIn(c) == {w \in Workers :
  pc[w] \in {"resolve", "create", "reread", "provision", "mint"} /\ job[w].seen.code = c}

\* "an infrastructure outage never burns the caller's valid code": every
\* spent code has become a token, or its request is still on the way to one.
\* And no token comes from anything but a spent code.
SpentCodeYieldsToken ==
  \A c \in Codes : accepts[c] = minted[c] + Cardinality(SigningIn(c))

\* With no fault, a spent code ends in a sign-in, also for the request that
\* loses the race to create the Firebase user.
SpentLeadsToToken == \A c \in Codes : accepts[c] > 0 ~> minted[c] > 0

-----------------------------------------------------------------------------
(* What holds when the requests of one address come one at a time. *)

\* "the code can never be replayed": each code is accepted at most once.
SingleUse == \A c \in Codes : accepts[c] <= 1

\* "once it reaches the configured maximum the code is dead even before it
\* expires": never more than MaxAttempts wrong guesses judged against a code.
AttemptsCapped == \A c \in Codes : misses[c] <= MaxAttempts

\* Issuing overwrites the row "with the new hash, TTL, a reset attempt
\* counter and a cleared consumed marker": the last issued code is the one
\* that counts, until the next issue.
LatestWins == row.code = latest

\* start "always issues + sends and the endpoint returns 202": a start that
\* reaches the database goes on to send its code.
StartAlwaysSends ==
  [][\A w \in Workers : pc[w] = "insert" /\ pc'[w] # "insert" => pc'[w] = "mail"]_vars

InPlay == IF row # NoRow /\ ~row.consumed /\ row.attempts < MaxAttempts
            THEN {row.code} ELSE {}

\* The row implements the one-time code: OneTimeCode sees each commit as one
\* atomic step.
OneTime == INSTANCE OneTimeCode
  WITH inPlay <- InPlay, newest <- latest, wrong <- row.attempts
ImplementsOneTimeCode == OneTime!Spec
=============================================================================
