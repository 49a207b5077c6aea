--------------------------- MODULE EmailLoginProofs ---------------------------
(***************************************************************************)
(* For every set of workers, attempt cap, lifetime and set of faults:      *)
(* expiry and hash stay together, and a code makes no more tokens than it  *)
(* was accepted times.  When nothing fails a spent code is a token or on   *)
(* its way to one.  When the requests of an address come one at a time:    *)
(* each code is single use, the cap holds, the newest code wins, and the   *)
(* row implements OneTimeCode.                                             *)
(***************************************************************************)
EXTENDS EmailLogin, FiniteSetTheorems, TLAPS

\* A row, stored or read, carries the expiry its own code was given.
RowOK(r) == r # NoRow => r \in Rows /\ r.code <= issued /\ r.expires = deadline[r.code]

JobOK(w) ==
  /\ pc[w] \in {"issue", "insert", "mail"} =>
       /\ job[w].code \in 1 .. issued
       /\ job[w].at + Ttl = deadline[job[w].code]
  /\ RowOK(job[w].seen)
  /\ pc[w] \in {"miss", "spend"} => job[w].seen # NoRow
  /\ pc[w] = "miss" => job[w].seen.attempts < MaxAttempts
  /\ pc[w] = "spend" => /\ job[w].seen.code = job[w].code
                        /\ job[w].at < job[w].seen.expires

IInv == TypeOK /\ RowOK(row) /\ \A w \in Workers : JobOK(w)

LEMMA NoRowFacts == NoRow \notin Rows /\ NoRow.code = 0 /\ NoRow.attempts = 0 /\ ~NoRow.consumed
  BY DEF NoRow, Rows, Codes

LEMMA JobUpdate ==
  ASSUME NEW j \in Jobs, NEW c \in 0 .. MaxIssues, NEW t \in Nat
  PROVE  /\ [j EXCEPT !.code = c, !.at = t] \in Jobs
         /\ [j EXCEPT !.code = c, !.at = t].code = c
         /\ [j EXCEPT !.code = c, !.at = t].at = t
         /\ [j EXCEPT !.code = c, !.at = t].seen = j.seen
  BY DEF Jobs

LEMMA RowUpdate ==
  ASSUME NEW r \in Rows
  PROVE  /\ r.attempts < MaxAttempts => [r EXCEPT !.attempts = @ + 1] \in Rows
         /\ [r EXCEPT !.consumed = TRUE] \in Rows
         /\ r # NoRow /\ r.code \in Codes
  <1>1. r.attempts < MaxAttempts => [r EXCEPT !.attempts = @ + 1] \in Rows
    <2>1. r.attempts < MaxAttempts => r.attempts + 1 \in 0 .. MaxAttempts
      BY EmailLoginAssumption DEF Rows
    <2> QED BY <2>1 DEF Rows
  <1>2. [r EXCEPT !.consumed = TRUE] \in Rows BY DEF Rows
  <1>3. r # NoRow BY NoRowFacts
  <1>4. r.code \in Codes BY DEF Rows
  <1> QED BY <1>1, <1>2, <1>3, <1>4

LEMMA InitIInv == Init => IInv
  <1> SUFFICES ASSUME Init PROVE IInv
    OBVIOUS
  <1>1. TypeOK BY EmailLoginAssumption DEF Init, TypeOK, Steps, Jobs, Idle, NoRow, Codes
  <1>2. RowOK(row) BY DEF Init, RowOK
  <1>3. \A w \in Workers : JobOK(w) BY DEF Init, JobOK, RowOK, Idle
  <1> QED BY <1>1, <1>2, <1>3 DEF IInv

\* Steps that write neither the row nor the deadlines only have to account
\* for the worker they move.
LEMMA MoveStep ==
  ASSUME IInv, NEW w \in Workers,
         UNCHANGED <<clock, row, issued, latest, deadline, accepts, misses>>,
         NEW to \in Steps, pc' = [pc EXCEPT ![w] = to],
         job' \in [Workers -> Jobs],
         \A v \in Workers \ {w} : job'[v] = job[v],
         JobOK(w)', firebase' \in BOOLEAN, verifies' \in Nat, mailed' \subseteq Codes,
         minted' \in [Codes -> Nat]
  PROVE  IInv'
  <1>1. TypeOK' BY DEF IInv, TypeOK
  <1>2. RowOK(row)' BY DEF IInv, RowOK
  <1>3. ASSUME NEW v \in Workers PROVE JobOK(v)'
    <2>1. CASE v = w BY <2>1
    <2>2. CASE v # w
      <3>1. pc'[v] = pc[v] /\ job'[v] = job[v] BY <2>2 DEF IInv, TypeOK
      <3>2. JobOK(v) BY DEF IInv
      <3> QED BY <3>1, <3>2 DEF JobOK, RowOK
    <2> QED BY <2>1, <2>2
  <1> QED BY <1>1, <1>2, <1>3 DEF IInv

LEMMA EndStep ==
  ASSUME IInv, NEW w \in Workers, End(w),
         UNCHANGED <<clock, row, issued, latest, deadline, accepts, misses>>,
         firebase' \in BOOLEAN, verifies' \in Nat, mailed' \subseteq Codes,
         minted' \in [Codes -> Nat]
  PROVE  IInv'
  <1>1. job' = [job EXCEPT ![w] = Idle] /\ pc' = [pc EXCEPT ![w] = "idle"] BY DEF End
  <1>2. Idle \in Jobs
    BY EmailLoginAssumption DEF Idle, Jobs
  <1>3. job' \in [Workers -> Jobs]
    BY <1>1, <1>2 DEF IInv, TypeOK
  <1>4. pc'[w] = "idle" /\ job'[w] = Idle BY <1>1 DEF IInv, TypeOK
  <1>5. JobOK(w)' BY <1>4 DEF JobOK, RowOK, Idle
  <1>6. "idle" \in Steps BY DEF Steps
  <1>7. \A v \in Workers \ {w} : job'[v] = job[v] BY <1>1 DEF IInv, TypeOK
  <1> QED BY <1>1, <1>3, <1>5, <1>6, <1>7, MoveStep

LEMMA GotoStep ==
  ASSUME IInv, NEW w \in Workers, NEW from \in Steps, NEW to \in Steps \ {"issue", "insert", "mail", "miss", "spend"},
         Goto(w, from, to), job' = job,
         UNCHANGED <<clock, row, issued, latest, deadline, accepts, misses>>,
         firebase' \in BOOLEAN, verifies' \in Nat, mailed' \subseteq Codes,
         minted' \in [Codes -> Nat]
  PROVE  IInv'
  <1>1. pc' = [pc EXCEPT ![w] = to] BY DEF Goto
  <1>2. pc'[w] = to BY <1>1 DEF IInv, TypeOK
  <1>3. JobOK(w)' BY <1>2 DEF JobOK, RowOK, IInv
  <1>4. job' \in [Workers -> Jobs]
    BY DEF IInv, TypeOK
  <1> QED BY <1>1, <1>3, <1>4, MoveStep

\* Steps that write the row: the new row must be the moving worker's to write.
LEMMA WriteStep ==
  ASSUME IInv, NEW w \in Workers,
         UNCHANGED <<clock, firebase, issued, verifies, mailed, deadline, minted>>,
         NEW to \in Steps \ {"issue", "insert", "miss", "spend"}, pc' = [pc EXCEPT ![w] = to],
         \/ job' = job \/ job' = [job EXCEPT ![w] = Idle],
         to = "mail" => pc[w] = "insert" /\ job' = job,
         row' \in Rows, RowOK(row)', latest' \in 0 .. MaxIssues,
         accepts' \in [Codes -> Nat], misses' \in [Codes -> Nat]
  PROVE  IInv'
  <1>1. Idle \in Jobs
    BY EmailLoginAssumption DEF Idle, Jobs
  <1>2. job' \in [Workers -> Jobs]
    BY <1>1 DEF IInv, TypeOK
  <1>3. TypeOK' BY <1>2 DEF IInv, TypeOK
  <1>4. ASSUME NEW v \in Workers PROVE JobOK(v)'
    <2>1. JobOK(v) BY DEF IInv
    <2>2. CASE v # w
      <3>1. pc'[v] = pc[v] /\ job'[v] = job[v] BY <2>2 DEF IInv, TypeOK
      <3> QED BY <2>1, <3>1 DEF JobOK, RowOK
    <2>3. CASE v = w
      <3>1. pc'[v] = to BY <2>3 DEF IInv, TypeOK
      <3>2. job'[v] = job[v] \/ job'[v] = Idle BY <2>3 DEF IInv, TypeOK
      <3> QED BY <2>1, <3>1, <3>2 DEF JobOK, RowOK, Idle
    <2> QED BY <2>2, <2>3
  <1> QED BY <1>3, <1>4 DEF IInv

LEMMA StepIInv == IInv /\ [Next]_vars => IInv'
  <1> SUFFICES ASSUME IInv, [Next]_vars PROVE IInv'
    OBVIOUS
  <1>0. /\ \A w \in Workers : JobOK(w) /\ RowOK(job[w].seen)
        /\ \A w \in Workers : job[w] \in Jobs
        /\ clock \in Nat /\ verifies \in Nat /\ firebase \in BOOLEAN /\ mailed \subseteq Codes
        /\ minted \in [Codes -> Nat] /\ accepts \in [Codes -> Nat] /\ misses \in [Codes -> Nat]
        /\ latest \in 0 .. MaxIssues /\ issued \in 0 .. MaxIssues
    BY DEF IInv, TypeOK, JobOK
  <1> USE DEF Jobs
  <1>1. CASE Tick
    <2>1. TypeOK' BY <1>1 DEF Tick, IInv, TypeOK
    <2>2. RowOK(row)' BY <1>1 DEF Tick, IInv, RowOK
    <2>3. \A w \in Workers : JobOK(w)' BY <1>1 DEF Tick, IInv, JobOK, RowOK
    <2> QED BY <2>1, <2>2, <2>3 DEF IInv
  <1>2. ASSUME NEW w \in Workers, Start(w) PROVE IInv'
    <2>1. /\ issued' = issued + 1 /\ issued' \in 1 .. MaxIssues
          /\ deadline' = [deadline EXCEPT ![issued + 1] = clock + Ttl]
          /\ pc' = [pc EXCEPT ![w] = "issue"]
          /\ job' = [job EXCEPT ![w].code = issued + 1, ![w].at = clock]
          /\ UNCHANGED <<clock, row, firebase, verifies, mailed, latest, accepts, misses, minted>>
      BY <1>2, <1>0, EmailLoginAssumption DEF Start, Goto
    <2>2. /\ job'[w] = [job[w] EXCEPT !.code = issued + 1, !.at = clock]
          /\ job' = [job EXCEPT ![w] = [job[w] EXCEPT !.code = issued + 1, !.at = clock]]
          /\ job'[w].code = issued + 1 /\ job'[w].at = clock /\ job'[w].seen = job[w].seen
          /\ \A v \in Workers \ {w} : job'[v] = job[v]
      <3>1. job \in [Workers -> Jobs]
        BY DEF IInv, TypeOK
      <3> QED BY <2>1, <3>1
    <2>3. /\ deadline'[issued + 1] = clock + Ttl /\ clock + Ttl \in Nat
          /\ \A c \in 1 .. issued : deadline'[c] = deadline[c]
      <3>1. deadline \in [Codes -> Nat] /\ clock \in Nat /\ Ttl \in Nat
        BY EmailLoginAssumption DEF IInv, TypeOK
      <3>2. clock + Ttl \in Nat BY <3>1
      <3>3. issued + 1 \in Codes /\ \A c \in 1 .. issued : c \in Codes /\ c # issued + 1
        <4>1. issued + 1 \in 1 .. MaxIssues /\ issued \in Nat BY <2>1, <1>0
        <4> QED BY <4>1, EmailLoginAssumption DEF Codes
      <3>4. deadline' = [deadline EXCEPT ![issued + 1] = clock + Ttl] BY <2>1
      <3> HIDE DEF Codes
      <3> QED BY <3>1, <3>2, <3>3, <3>4
    <2>4. TypeOK'
      <3>1. job' \in [Workers -> Jobs]
        <4>1. [job[w] EXCEPT !.code = issued + 1, !.at = clock]
                \in Jobs
          <5>1. issued + 1 \in 0 .. MaxIssues BY <2>1, <1>0
          <5> HIDE DEF Jobs
          <5> QED BY <5>1, <1>0, JobUpdate
        <4> QED BY <4>1, <2>2 DEF IInv, TypeOK
      <3>2. deadline' \in [Codes -> Nat] BY <2>1, <2>3 DEF IInv, TypeOK
      <3>3. pc' \in [Workers -> Steps] BY <2>1 DEF IInv, TypeOK, Steps
      <3> QED BY <2>1, <3>1, <3>2, <3>3, <1>0 DEF IInv, TypeOK
    <2>5. \A r : RowOK(r) => (r # NoRow => /\ r \in Rows /\ r.code <= issued'
                                           /\ r.expires = deadline'[r.code])
      <3> SUFFICES ASSUME NEW r, RowOK(r), r # NoRow
                   PROVE  /\ r \in Rows /\ r.code <= issued'
                          /\ r.expires = deadline'[r.code]
        OBVIOUS
      <3>1. r \in Rows /\ r.code <= issued /\ r.expires = deadline[r.code] BY DEF RowOK
      <3>2. r.code \in Nat \ {0} /\ issued \in Nat BY <3>1, <1>0 DEF Rows, Codes
      <3>3. r.code \in 1 .. issued /\ issued' = issued + 1 BY <2>1, <3>1, <3>2
      <3> QED BY <2>3, <3>1, <3>2, <3>3
    <2>6. RowOK(row)' BY <2>1, <2>5 DEF IInv, RowOK
    <2>7. ASSUME NEW v \in Workers PROVE JobOK(v)'
      <3>1. job'[v].seen = job[v].seen BY <2>2
      <3>2. job'[v].seen # NoRow => /\ job'[v].seen \in Rows /\ job'[v].seen.code <= issued'
                                    /\ job'[v].seen.expires = deadline'[job'[v].seen.code]
        BY <3>1, <2>5, <1>0
      <3>3. CASE v = w
        <4>1. pc'[v] = "issue" BY <3>3, <2>1 DEF IInv, TypeOK
        <4> QED BY <4>1, <3>2, <3>3, <2>1, <2>2, <2>3, <1>0 DEF JobOK, RowOK
      <3>4. CASE v # w
        <4>1. pc'[v] = pc[v] /\ job'[v] = job[v] BY <3>4, <2>1, <2>2 DEF IInv, TypeOK
        <4>2. JobOK(v) BY <1>0
        <4> QED BY <4>1, <4>2, <3>2, <2>1, <2>3, <1>0 DEF JobOK, RowOK
      <3> QED BY <3>3, <3>4
    <2> QED BY <2>4, <2>6, <2>7 DEF IInv
  <1>3. ASSUME NEW w \in Workers, IssueRead(w) PROVE IInv'
    <2>1. /\ pc[w] = "issue" /\ pc' = [pc EXCEPT ![w] = "insert"]
          /\ job' = [job EXCEPT ![w].seen = row]
          /\ UNCHANGED <<clock, row, firebase, issued, verifies, mailed,
                          latest, deadline, accepts, misses, minted>>
      BY <1>3 DEF IssueRead, Goto
    <2>2. /\ job' \in [Workers -> Jobs]
          /\ job'[w].code = job[w].code /\ job'[w].at = job[w].at /\ job'[w].seen = row
          /\ \A v \in Workers \ {w} : job'[v] = job[v]
          /\ pc'[w] = "insert"
      BY <2>1 DEF IInv, TypeOK
    <2>3. JobOK(w)' BY <2>1, <2>2, <1>0 DEF JobOK, RowOK, IInv
    <2>4. "insert" \in Steps BY DEF Steps
    <2> QED BY <2>1, <2>2, <2>3, <2>4, <1>0, MoveStep
  <1>4. ASSUME NEW w \in Workers, IssueWrite(w) PROVE IInv'
    <2>1. pc[w] = "insert" BY <1>4 DEF IssueWrite
    <2>2. CASE End(w) /\ UNCHANGED <<row, latest>>
      BY <2>2, <1>4, <1>0, EndStep DEF IssueWrite
    <2>3. CASE row' = IssuedRow(w) /\ latest' = job[w].code /\ Goto(w, "insert", "mail") /\ job' = job
      <3>1. job[w].code \in 1 .. issued /\ job[w].at + Ttl = deadline[job[w].code] /\ job[w].at \in Nat
        BY <2>1, <1>0 DEF JobOK
      <3>2. row' \in Rows
        <4>1. 0 \in 0 .. MaxAttempts /\ job[w].at + Ttl \in Nat
          BY <3>1, EmailLoginAssumption
        <4>2. job[w].code \in Codes BY <3>1, <1>0, EmailLoginAssumption DEF Codes
        <4> QED BY <2>3, <4>1, <4>2 DEF IssuedRow, Rows
      <3>3. UNCHANGED <<clock, firebase, issued, verifies, mailed, deadline, accepts, misses, minted>>
        BY <1>4 DEF IssueWrite
      <3>4. RowOK(row)' BY <2>3, <3>1, <3>2, <3>3, <1>0 DEF RowOK, IssuedRow
      <3>5. latest' \in 0 .. MaxIssues BY <2>3, <3>1, <1>0
      <3>6. "mail" \in Steps \ {"issue", "insert", "miss", "spend"} BY DEF Steps
      <3> QED BY <2>3, <3>2, <3>3, <3>4, <3>5, <3>6, <1>0, WriteStep DEF Goto
    <2> QED BY <1>4, <2>2, <2>3 DEF IssueWrite
  <1>5. ASSUME NEW w \in Workers, Dispatch(w) PROVE IInv'
    <2>1. job[w].code \in Codes BY <1>5, <1>0 DEF Dispatch, JobOK, Codes
    <2> QED BY <2>1, <1>5, <1>0, EndStep DEF Dispatch
  <1>6. ASSUME NEW w \in Workers, VerifyBegin(w) PROVE IInv'
    <2>1. PICK guess \in 0 .. issued :
            /\ job' = [job EXCEPT ![w].code = guess, ![w].at = clock]
            /\ verifies' = verifies + 1 /\ pc' = [pc EXCEPT ![w] = "consume"]
            /\ UNCHANGED <<clock, row, firebase, issued, mailed,
                            latest, deadline, accepts, misses, minted>>
      BY <1>6 DEF VerifyBegin, Goto
    <2> DEFINE new == [job[w] EXCEPT !.code = guess, !.at = clock]
    <2>2. new \in Jobs /\ new.seen = job[w].seen
      <3>1. guess \in 0 .. MaxIssues BY <1>0, EmailLoginAssumption
      <3> HIDE DEF Jobs
      <3>2. job[w] \in Jobs /\ clock \in Nat BY <1>0
      <3> HIDE DEF new
      <3>3. new = [job[w] EXCEPT !.code = guess, !.at = clock] BY DEF new
      <3>4. [job[w] EXCEPT !.code = guess, !.at = clock] \in Jobs BY <3>1, <3>2, JobUpdate
      <3>5. [job[w] EXCEPT !.code = guess, !.at = clock].seen = job[w].seen BY <3>2 DEF Jobs
      <3> QED BY <3>3, <3>4, <3>5
    <2>3. job' = [job EXCEPT ![w] = new] BY <2>1
    <2> HIDE DEF new
    <2>4. /\ job' \in [Workers -> Jobs]
          /\ job'[w] = new /\ pc'[w] = "consume"
          /\ \A v \in Workers \ {w} : job'[v] = job[v]
      BY <2>1, <2>2, <2>3 DEF IInv, TypeOK
    <2>5. JobOK(w)' BY <2>1, <2>2, <2>4, <1>0 DEF JobOK, RowOK
    <2>6. "consume" \in Steps /\ verifies' \in Nat BY <2>1, <1>0 DEF Steps
    <2> QED BY <2>1, <2>4, <2>5, <2>6, <1>0, MoveStep
  <1>7. ASSUME NEW w \in Workers, ConsumeRead(w) PROVE IInv'
    <2>1. CASE End(w)
      BY <2>1, <1>7, <1>0, EndStep DEF ConsumeRead
    <2>2. CASE ~End(w)
      <3> DEFINE to == IF job[w].code = row.code THEN "spend" ELSE "miss"
      <3>1. /\ Spendable(row, job[w].at)
            /\ pc' = [pc EXCEPT ![w] = to]
            /\ job' = [job EXCEPT ![w].seen = row]
            /\ UNCHANGED <<clock, row, firebase, issued, verifies, mailed,
                            latest, deadline, accepts, misses, minted>>
        BY <2>2, <1>7 DEF ConsumeRead, Goto
      <3>2. to \in Steps BY DEF Steps
      <3>3. /\ job' \in [Workers -> Jobs]
            /\ job'[w].code = job[w].code /\ job'[w].at = job[w].at /\ job'[w].seen = row
            /\ \A v \in Workers \ {w} : job'[v] = job[v]
            /\ pc'[w] = to
        BY <3>1 DEF IInv, TypeOK
      <3>4. JobOK(w)' BY <3>1, <3>3, <1>0 DEF JobOK, RowOK, IInv, Spendable
      <3> HIDE DEF to
      <3> QED BY <3>1, <3>2, <3>3, <3>4, <1>0, MoveStep
    <2> QED BY <2>1, <2>2
  <1>8. ASSUME NEW w \in Workers, MissWrite(w) \/ SpendWrite(w) PROVE IInv'
    <2>1. job[w].seen \in Rows /\ RowOK(job[w].seen)
      BY <1>8, <1>0 DEF MissWrite, SpendWrite, Goto, JobOK
    <2>2. /\ pc[w] = "miss" => Missed(w) \in Rows
          /\ Missed(w).code = job[w].seen.code /\ Missed(w).expires = job[w].seen.expires
          /\ Spent(w) \in Rows /\ Spent(w).code = job[w].seen.code /\ Spent(w).expires = job[w].seen.expires
      <3>1. pc[w] = "miss" => job[w].seen.attempts < MaxAttempts BY <1>0 DEF JobOK
      <3>2. (pc[w] = "miss" => Missed(w) \in Rows) /\ Spent(w) \in Rows
        BY <2>1, <3>1, RowUpdate DEF Missed, Spent
      <3> QED BY <2>1, <3>2 DEF Missed, Spent, Rows
    <2>3. \A c \in Codes : /\ [accepts EXCEPT ![c] = @ + 1] \in [Codes -> Nat]
                           /\ [misses EXCEPT ![c] = @ + 1] \in [Codes -> Nat]
      BY <1>0
    <2>4. job[w].seen.code \in Codes /\ job[w].seen # NoRow BY <2>1, NoRowFacts DEF Rows
    <2>5. {"idle", "resolve"} \subseteq Steps \ {"issue", "insert", "mail", "miss", "spend"} BY DEF Steps
    <2>6. CASE MissWrite(w)
      <3>1. /\ pc[w] = "miss"
            /\ row' = Missed(w) /\ misses' = [misses EXCEPT ![job[w].seen.code] = @ + 1]
            /\ pc' = [pc EXCEPT ![w] = "idle"] /\ job' = [job EXCEPT ![w] = Idle]
            /\ UNCHANGED <<clock, firebase, issued, verifies, mailed, latest, deadline, accepts, minted>>
        BY <2>6 DEF MissWrite, End
      <3>2. RowOK(row)' /\ row' \in Rows BY <3>1, <2>1, <2>2, <2>4 DEF RowOK
      <3>3. misses' \in [Codes -> Nat] BY <3>1, <2>3, <2>4
      <3> QED BY <3>1, <3>2, <3>3, <2>5, <1>0, WriteStep
    <2>7. CASE SpendWrite(w)
      <3>1. /\ row' = Spent(w) /\ accepts' = [accepts EXCEPT ![job[w].seen.code] = @ + 1]
            /\ pc' = [pc EXCEPT ![w] = "resolve"] /\ job' = job
            /\ UNCHANGED <<clock, firebase, issued, verifies, mailed, latest, deadline, misses, minted>>
        BY <2>7 DEF SpendWrite, Goto
      <3>2. RowOK(row)' /\ row' \in Rows BY <3>1, <2>1, <2>2, <2>4 DEF RowOK
      <3>3. accepts' \in [Codes -> Nat] BY <3>1, <2>3, <2>4
      <3> QED BY <3>1, <3>2, <3>3, <2>5, <1>0, WriteStep
    <2> QED BY <1>8, <2>6, <2>7
  <1>9. ASSUME NEW w \in Workers, Resolve(w) \/ Create(w) \/ Reread(w) \/ Provision(w) PROVE IInv'
    <2>1. {"resolve", "create", "reread", "provision", "mint"}
             \subseteq Steps \ {"issue", "insert", "mail", "miss", "spend"}
      BY DEF Steps
    <2>2. CASE Resolve(w) BY <2>1, <2>2, <1>0, GotoStep DEF Resolve
    <2>3. CASE Create(w) BY <2>1, <2>3, <1>0, GotoStep DEF Create
    <2>4. CASE Reread(w) BY <2>1, <2>4, <1>0, GotoStep DEF Reread
    <2>5. CASE Provision(w) BY <2>1, <2>5, <1>0, GotoStep, EndStep DEF Provision
    <2> QED BY <1>9, <2>2, <2>3, <2>4, <2>5
  <1>10. ASSUME NEW w \in Workers, Mint(w) PROVE IInv'
    <2>1. minted' \in [Codes -> Nat]
      <3>1. \A c \in Codes : minted[c] \in Nat /\ minted[c] + 1 \in Nat BY <1>0
      <3>2. minted' = [minted EXCEPT ![job[w].seen.code] = minted[job[w].seen.code] + 1]
        BY <1>10 DEF Mint
      <3> QED BY <3>1, <3>2, <1>0
    <2> QED BY <2>1, <1>10, <1>0, EndStep DEF Mint
  <1>11. ASSUME NEW w \in Workers, Outage(w) \/ Crash(w) PROVE IInv'
    BY <1>11, <1>0, EndStep DEF Outage, Crash
  <1>12. CASE UNCHANGED vars
    BY <1>12 DEF vars, IInv, TypeOK, RowOK, JobOK
  <1> QED BY <1>1, <1>2, <1>3, <1>4, <1>5, <1>6, <1>7, <1>8, <1>9, <1>10, <1>11, <1>12
        DEF Next, Progress, Rest

\* However requests interleave and fail, the hash and the expiry in the row
\* belong together, and a code is accepted only within its own lifetime.
THEOREM ExpirySafe == Spec => [](TypeOK /\ ExpiryKept)
  <1>1. IInv => TypeOK /\ ExpiryKept
    BY DEF IInv, ExpiryKept, RowOK, JobOK
  <1> QED BY InitIInv, StepIInv, <1>1, PTL DEF Spec

\* Every request thread and the row stay well formed: no fault leaves a request with a
\* row it has not read, or a counter outside its range.
THEOREM TypesSafe == Spec => []TypeOK
  <1>1. IInv => TypeOK BY DEF IInv
  <1> QED BY InitIInv, StepIInv, <1>1, PTL DEF Spec

-----------------------------------------------------------------------------
(* Spent codes and tokens. *)

Signing == {"resolve", "create", "reread", "provision", "mint"}

\* Only a fault lets a spent code go without a token.
Tally ==
  \A c \in Codes :
    /\ minted[c] + Cardinality(SigningIn(c)) <= accepts[c]
    /\ Faults = {} => accepts[c] = minted[c] + Cardinality(SigningIn(c))

LEMMA SigningFinite ==
  ASSUME IsFiniteSet(Workers), NEW c
  PROVE  IsFiniteSet(SigningIn(c)) /\ Cardinality(SigningIn(c)) \in Nat
  <1>1. SigningIn(c) \in SUBSET Workers BY DEF SigningIn
  <1>2. IsFiniteSet(SigningIn(c)) BY <1>1, FS_Subset
  <1> QED BY <1>2, FS_CardinalityType

\* What one worker's step does to the number of workers that are signing in with a code.
LEMMA SigningStep ==
  ASSUME IsFiniteSet(Workers), NEW c, NEW w \in Workers,
         \A v \in Workers \ {w} : pc'[v] = pc[v] /\ job'[v] = job[v]
  PROVE  /\ (w \in SigningIn(c)' <=> w \in SigningIn(c)) =>
              Cardinality(SigningIn(c)') = Cardinality(SigningIn(c))
         /\ w \in SigningIn(c)' /\ w \notin SigningIn(c) =>
              Cardinality(SigningIn(c)') = Cardinality(SigningIn(c)) + 1
         /\ w \notin SigningIn(c)' /\ w \in SigningIn(c) =>
              Cardinality(SigningIn(c)') = Cardinality(SigningIn(c)) - 1
  <1>1. \A v \in Workers \ {w} : v \in SigningIn(c)' <=> v \in SigningIn(c)
    BY DEF SigningIn
  <1>2. SigningIn(c)' \subseteq Workers /\ SigningIn(c) \subseteq Workers BY DEF SigningIn
  <1>3. IsFiniteSet(SigningIn(c)) BY SigningFinite
  <1>4. CASE w \in SigningIn(c)' <=> w \in SigningIn(c)
    <2>1. SigningIn(c)' = SigningIn(c) BY <1>1, <1>2, <1>4
    <2> QED BY <2>1, <1>4
  <1>5. CASE w \in SigningIn(c)' /\ w \notin SigningIn(c)
    <2>1. SigningIn(c)' = SigningIn(c) \cup {w} BY <1>1, <1>2, <1>5
    <2> QED BY <2>1, <1>3, <1>5, FS_AddElement
  <1>6. CASE w \notin SigningIn(c)' /\ w \in SigningIn(c)
    <2>1. SigningIn(c)' = SigningIn(c) \ {w} BY <1>1, <1>2, <1>6
    <2> QED BY <2>1, <1>3, <1>6, FS_RemoveElement
  <1> QED BY <1>4, <1>5, <1>6

\* A step of a worker that is as much signing in after it as before.
LEMMA TallyKept ==
  ASSUME IsFiniteSet(Workers), Tally, NEW w \in Workers, UNCHANGED <<accepts, minted>>,
         \A v \in Workers \ {w} : pc'[v] = pc[v] /\ job'[v] = job[v],
         \/ pc[w] \notin Signing /\ pc'[w] \notin Signing
         \/ pc[w] \in Signing /\ pc'[w] \in Signing /\ job'[w] = job[w]
  PROVE  Tally'
  <1>1. \A c \in Codes : w \in SigningIn(c)' <=> w \in SigningIn(c)
    BY DEF SigningIn, Signing
  <1>2. \A c \in Codes : Cardinality(SigningIn(c)') = Cardinality(SigningIn(c))
    BY <1>1, SigningStep
  <1> QED BY <1>2 DEF Tally

\* A step that gives a request up.
LEMMA TallyGivenUp ==
  ASSUME IInv, IsFiniteSet(Workers), Tally, Faults # {}, NEW w \in Workers, End(w),
         UNCHANGED <<accepts, minted>>
  PROVE  Tally'
  <1>1. /\ \A v \in Workers \ {w} : pc'[v] = pc[v] /\ job'[v] = job[v]
        /\ \A c \in Codes : w \notin SigningIn(c)'
    BY DEF End, IInv, TypeOK, SigningIn
  <1>2. ASSUME NEW c \in Codes
        PROVE  minted'[c] + Cardinality(SigningIn(c)') <= accepts'[c]
    <2>1. Cardinality(SigningIn(c)') \in {Cardinality(SigningIn(c)), Cardinality(SigningIn(c)) - 1}
      BY <1>1, SigningStep
    <2>2. Cardinality(SigningIn(c)) \in Nat BY SigningFinite
    <2>3. minted[c] \in Nat /\ accepts[c] \in Nat BY DEF IInv, TypeOK
    <2> QED BY <2>1, <2>2, <2>3 DEF Tally
  <1> QED BY <1>2 DEF Tally

LEMMA InitTally == Init => Tally
  <1> SUFFICES ASSUME Init, NEW c \in Codes
               PROVE  minted[c] = 0 /\ accepts[c] = 0 /\ Cardinality(SigningIn(c)) = 0
    BY DEF Tally
  <1>1. SigningIn(c) = {} BY DEF Init, SigningIn
  <1> QED BY <1>1, FS_EmptySet DEF Init

LEMMA StepTally ==
  ASSUME IsFiniteSet(Workers), IInv, Tally, [Next]_vars PROVE Tally'
  <1>0. /\ pc \in [Workers -> Steps] /\ job \in [Workers -> Jobs]
        /\ minted \in [Codes -> Nat] /\ accepts \in [Codes -> Nat]
        /\ \A c \in Codes : Cardinality(SigningIn(c)) \in Nat
    BY SigningFinite DEF IInv, TypeOK
  <1>1. CASE Tick \/ UNCHANGED vars
    BY <1>1 DEF Tick, vars, Tally, SigningIn
  <1>2. ASSUME NEW w \in Workers,
               \/ Start(w) \/ IssueRead(w) \/ IssueWrite(w) \/ Dispatch(w)
               \/ VerifyBegin(w) \/ ConsumeRead(w) \/ MissWrite(w)
        PROVE  Tally'
    <2>1. /\ pc[w] \notin Signing /\ pc'[w] \notin Signing /\ UNCHANGED <<accepts, minted>>
          /\ \A v \in Workers \ {w} : pc'[v] = pc[v] /\ job'[v] = job[v]
      BY <1>0, <1>2 DEF Start, IssueRead, IssueWrite, Dispatch, VerifyBegin, ConsumeRead,
                        MissWrite, Goto, End, Signing
    <2> QED BY <2>1, TallyKept
  <1>3. ASSUME NEW w \in Workers, SpendWrite(w) PROVE Tally'
    <2> DEFINE d == job[w].seen.code
    <2>1. /\ pc[w] = "spend" /\ pc'[w] = "resolve" /\ job' = job /\ minted' = minted
          /\ \A v \in Workers \ {w} : pc'[v] = pc[v] /\ job'[v] = job[v]
          /\ \A c \in Codes : accepts'[c] = IF c = d THEN accepts[c] + 1 ELSE accepts[c]
      BY <1>0, <1>3 DEF SpendWrite, Goto
    <2>2. \A c \in Codes : w \notin SigningIn(c) /\ (w \in SigningIn(c)' <=> c = d)
      BY <2>1 DEF SigningIn
    <2>3. \A c \in Codes : Cardinality(SigningIn(c)')
                             = IF c = d THEN Cardinality(SigningIn(c)) + 1 ELSE Cardinality(SigningIn(c))
      BY <2>1, <2>2, SigningStep
    <2> HIDE DEF d
    <2> QED BY <2>1, <2>3, <1>0 DEF Tally
  <1>4. ASSUME NEW w \in Workers, Mint(w) PROVE Tally'
    <2> DEFINE d == job[w].seen.code
    <2>1. /\ pc[w] = "mint" /\ pc'[w] = "idle" /\ accepts' = accepts
          /\ \A v \in Workers \ {w} : pc'[v] = pc[v] /\ job'[v] = job[v]
          /\ \A c \in Codes : minted'[c] = IF c = d THEN minted[c] + 1 ELSE minted[c]
      BY <1>0, <1>4 DEF Mint, End
    <2>2. \A c \in Codes : w \notin SigningIn(c)' /\ (w \in SigningIn(c) <=> c = d)
      BY <2>1 DEF SigningIn
    <2>3. \A c \in Codes : Cardinality(SigningIn(c)')
                             = IF c = d THEN Cardinality(SigningIn(c)) - 1 ELSE Cardinality(SigningIn(c))
      BY <2>1, <2>2, SigningStep
    <2> HIDE DEF d
    <2> QED BY <2>1, <2>3, <1>0 DEF Tally
  <1>5. ASSUME NEW w \in Workers, Resolve(w) \/ Create(w) \/ Reread(w) \/ Provision(w) PROVE Tally'
    <2>1. UNCHANGED <<accepts, minted>>
      BY <1>5 DEF Resolve, Create, Reread, Provision
    <2>2. CASE End(w) /\ Faults # {} BY <2>1, <2>2, TallyGivenUp
    <2>3. CASE ~(End(w) /\ Faults # {})
      <3>1. PICK from \in Signing, to \in Signing : Goto(w, from, to) /\ job' = job
        BY <1>5, <2>3 DEF Resolve, Create, Reread, Provision, Goto, Signing
      <3>2. /\ pc[w] \in Signing /\ pc'[w] \in Signing
            /\ \A v \in Workers \ {w} : pc'[v] = pc[v] /\ job'[v] = job[v]
        BY <1>0, <3>1 DEF Goto
      <3> QED BY <2>1, <3>1, <3>2, TallyKept
    <2> QED BY <2>2, <2>3
  <1>6. ASSUME NEW w \in Workers, Outage(w) \/ Crash(w) PROVE Tally'
    BY <1>6, TallyGivenUp DEF Outage, Crash
  <1> QED BY <1>1, <1>2, <1>3, <1>4, <1>5, <1>6 DEF Next, Progress, Rest

\* However many workers there are: while nothing fails, every spent code is a token or
\* on its way to one, also for the worker that loses the race to create the account.
THEOREM SpentCodeSafe ==
  ASSUME IsFiniteSet(Workers), Faults = {}
  PROVE  Spec => []SpentCodeYieldsToken
  <1>1. Tally => SpentCodeYieldsToken BY DEF Tally, SpentCodeYieldsToken
  <1>2. IInv /\ Tally /\ [Next]_vars => Tally' BY StepTally
  <1> QED BY InitIInv, StepIInv, InitTally, <1>1, <1>2, PTL DEF Spec

\* Whatever crashes or is down, no code gives more tokens than it was accepted times
\* (verify mints only after consume returned true).
THEOREM TokensPaidFor ==
  ASSUME IsFiniteSet(Workers)
  PROVE  Spec => [](\A c \in Codes : minted[c] <= accepts[c])
  <1>1. IInv /\ Tally => \A c \in Codes : minted[c] <= accepts[c]
    <2> SUFFICES ASSUME IInv, Tally, NEW c \in Codes PROVE minted[c] <= accepts[c]
      OBVIOUS
    <2>1. Cardinality(SigningIn(c)) \in Nat BY SigningFinite
    <2>2. minted[c] \in Nat /\ accepts[c] \in Nat BY DEF IInv, TypeOK
    <2> QED BY <2>1, <2>2 DEF Tally
  <1>2. IInv /\ Tally /\ [Next]_vars => Tally' BY StepTally
  <1> QED BY InitIInv, StepIInv, InitTally, <1>1, <1>2, PTL DEF Spec

-----------------------------------------------------------------------------
(* One request at a time. *)

OneAtATime == \A v, w \in Workers : v = w

\* What a request read is still there when it writes, and the history
\* counters are what the row says.
Undisturbed(w) ==
  /\ pc[w] \in {"issue", "insert"} => latest < job[w].code
  /\ pc[w] \in {"insert", "miss", "spend"} => job[w].seen = row
  /\ pc[w] \in {"miss", "spend"} => ~row.consumed /\ row.attempts < MaxAttempts

RowTellsHistory ==
  /\ row.code = latest /\ latest <= issued
  /\ row # NoRow => /\ row.attempts <= MaxAttempts
                    /\ misses[row.code] = row.attempts
                    /\ accepts[row.code] = IF row.consumed THEN 1 ELSE 0

PastCapped ==
  \A c \in Codes : /\ accepts[c] <= 1 /\ misses[c] <= MaxAttempts
                   /\ c > latest => accepts[c] = 0 /\ misses[c] = 0

SInv == RowTellsHistory /\ PastCapped /\ \A w \in Workers : Undisturbed(w)

Abs == OneTime!Next \/ UNCHANGED <<InPlay, latest, row.attempts>>

\* A step that leaves the row and its history alone and ends, or goes on to a
\* place where nothing is held against the row.
LEMMA QuietStep ==
  ASSUME OneAtATime, IInv, SInv, NEW w \in Workers,
         UNCHANGED <<row, issued, latest, accepts, misses>>,
         NEW to \in Steps \ {"issue", "insert", "miss", "spend"}, pc' = [pc EXCEPT ![w] = to]
  PROVE  SInv' /\ Abs
  <1>1. pc'[w] = to /\ \A v \in Workers : v = w BY DEF OneAtATime, IInv, TypeOK
  <1>2. \A v \in Workers : Undisturbed(v)' BY <1>1 DEF Undisturbed
  <1>3. RowTellsHistory' /\ PastCapped' BY DEF SInv, RowTellsHistory, PastCapped
  <1>4. InPlay' = InPlay /\ (row.attempts)' = row.attempts BY DEF InPlay
  <1> QED BY <1>2, <1>3, <1>4 DEF SInv, Abs

LEMMA StepSInv ==
  ASSUME OneAtATime, IInv, SInv, [Next]_vars PROVE SInv' /\ Abs
  <1>0. /\ \A w \in Workers : JobOK(w) /\ job[w] \in Jobs /\ Undisturbed(w)
        /\ latest \in 0 .. MaxIssues /\ issued \in 0 .. MaxIssues /\ MaxAttempts \in Nat \ {0}
        /\ accepts \in [Codes -> Nat] /\ misses \in [Codes -> Nat] /\ row \in Rows \cup {NoRow}
        /\ pc \in [Workers -> Steps] /\ job \in [Workers -> Jobs]
    BY EmailLoginAssumption DEF IInv, TypeOK, SInv
  <1> DEFINE Calm == Steps \ {"issue", "insert", "miss", "spend"}
  <1>a. {"idle", "mail", "consume", "resolve", "create", "reread", "provision", "mint"} \subseteq Calm
    BY DEF Steps
  <1>1. CASE Tick \/ UNCHANGED vars
    <2>1. UNCHANGED <<row, issued, latest, accepts, misses, pc, job>> BY <1>1 DEF Tick, vars
    <2>2. SInv' BY <2>1 DEF SInv, RowTellsHistory, PastCapped, Undisturbed
    <2> QED BY <2>1, <2>2 DEF Abs, InPlay
  <1>2. ASSUME NEW w \in Workers, Start(w) PROVE SInv' /\ Abs
    <2>1. /\ issued' = issued + 1 /\ pc' = [pc EXCEPT ![w] = "issue"]
          /\ job' = [job EXCEPT ![w].code = issued + 1, ![w].at = clock]
          /\ UNCHANGED <<row, latest, accepts, misses>>
      BY <1>2 DEF Start, Goto
    <2>2. pc'[w] = "issue" /\ job'[w].code = issued + 1 /\ \A v \in Workers : v = w
      BY <2>1, <1>0 DEF OneAtATime, Jobs
    <2>3. latest < issued + 1 BY <1>0 DEF SInv, RowTellsHistory
    <2>4. \A v \in Workers : Undisturbed(v)' BY <2>1, <2>2, <2>3 DEF Undisturbed
    <2>5. RowTellsHistory' BY <2>1, <1>0 DEF SInv, RowTellsHistory
    <2>6. PastCapped' BY <2>1 DEF SInv, PastCapped
    <2>7. Abs BY <2>1 DEF Abs, InPlay
    <2> QED BY <2>4, <2>5, <2>6, <2>7 DEF SInv
  <1>3. ASSUME NEW w \in Workers, IssueRead(w) PROVE SInv' /\ Abs
    <2>1. /\ pc[w] = "issue" /\ pc' = [pc EXCEPT ![w] = "insert"]
          /\ job' = [job EXCEPT ![w].seen = row]
          /\ UNCHANGED <<row, issued, latest, accepts, misses>>
      BY <1>3 DEF IssueRead, Goto
    <2>2. /\ pc'[w] = "insert" /\ job'[w].code = job[w].code /\ job'[w].seen = row
          /\ \A v \in Workers : v = w
      BY <2>1, <1>0 DEF OneAtATime, Jobs
    <2>3. latest < job[w].code BY <2>1, <1>0 DEF Undisturbed
    <2>4. \A v \in Workers : Undisturbed(v)' BY <2>1, <2>2, <2>3 DEF Undisturbed
    <2>5. RowTellsHistory' /\ PastCapped' BY <2>1 DEF SInv, RowTellsHistory, PastCapped
    <2>6. Abs BY <2>1 DEF Abs, InPlay
    <2> QED BY <2>4, <2>5, <2>6 DEF SInv
  <1>4. ASSUME NEW w \in Workers, IssueWrite(w) PROVE SInv' /\ Abs
    <2>1. /\ pc[w] = "insert" /\ latest < job[w].code /\ job[w].seen = row
          /\ job[w].code \in 1 .. issued /\ \A v \in Workers : v = w
      BY <1>4, <1>0 DEF IssueWrite, Undisturbed, JobOK, OneAtATime
    <2>2. /\ row' = IssuedRow(w) /\ latest' = job[w].code /\ pc' = [pc EXCEPT ![w] = "mail"]
          /\ UNCHANGED <<issued, accepts, misses, job>>
      BY <1>4, <2>1 DEF IssueWrite, Goto
    <2> DEFINE c == job[w].code
    <2>3. /\ row'.code = c /\ row'.attempts = 0 /\ row'.consumed = FALSE /\ c \in Codes
          /\ row' # NoRow
      <3>1. c \in Codes /\ c # 0 BY <2>1, <1>0, EmailLoginAssumption DEF Codes
      <3>2. row'.code = c /\ row'.attempts = 0 /\ row'.consumed = FALSE BY <2>2 DEF IssuedRow
      <3> QED BY <3>1, <3>2, NoRowFacts
    <2>4. accepts[c] = 0 /\ misses[c] = 0
      <3>1. c > latest BY <2>1, <1>0
      <3> QED BY <3>1, <2>3 DEF SInv, PastCapped
    <2>5. RowTellsHistory' BY <2>1, <2>2, <2>3, <2>4, <1>0 DEF RowTellsHistory
    <2>6. PastCapped' BY <2>1, <2>2, <1>0 DEF SInv, PastCapped, Codes
    <2>7. \A v \in Workers : Undisturbed(v)' BY <2>1, <2>2, <1>0 DEF Undisturbed
    <2>8. InPlay' = {c} BY <2>3, <1>0 DEF InPlay
    <2>9. OneTime!Issue(c) BY <2>1, <2>2, <2>3, <2>8 DEF OneTime!Issue
    <2> QED BY <2>3, <2>5, <2>6, <2>7, <2>9 DEF SInv, Abs, OneTime!Next
  <1>5. ASSUME NEW w \in Workers, ConsumeRead(w) PROVE SInv' /\ Abs
    <2>1. CASE End(w)
      <3>1. pc' = [pc EXCEPT ![w] = "idle"] /\ UNCHANGED <<row, issued, latest, accepts, misses>>
        BY <2>1, <1>5 DEF End, ConsumeRead
      <3> QED BY <3>1, <1>a, QuietStep
    <2>2. CASE ~End(w)
      <3>1. /\ Spendable(row, job[w].at) /\ job' = [job EXCEPT ![w].seen = row]
            /\ \/ pc' = [pc EXCEPT ![w] = "spend"] \/ pc' = [pc EXCEPT ![w] = "miss"]
            /\ UNCHANGED <<row, issued, latest, accepts, misses>>
        BY <2>2, <1>5 DEF ConsumeRead, Goto
      <3>2. job'[w].seen = row /\ pc'[w] \in {"spend", "miss"} /\ \A v \in Workers : v = w
        BY <3>1, <1>0 DEF OneAtATime, Jobs
      <3>3. \A v \in Workers : Undisturbed(v)' BY <3>1, <3>2 DEF Undisturbed, Spendable
      <3>4. RowTellsHistory' /\ PastCapped' BY <3>1 DEF SInv, RowTellsHistory, PastCapped
      <3>5. Abs BY <3>1 DEF Abs, InPlay
      <3> QED BY <3>3, <3>4, <3>5 DEF SInv
    <2> QED BY <2>1, <2>2
  <1>6. ASSUME NEW w \in Workers, MissWrite(w) PROVE SInv' /\ Abs
    <2>1. /\ job[w].seen = row /\ row # NoRow /\ row \in Rows /\ \A v \in Workers : v = w
          /\ ~row.consumed /\ row.attempts < MaxAttempts
      BY <1>6, <1>0 DEF MissWrite, Undisturbed, JobOK, OneAtATime
    <2>2. /\ row' = [row EXCEPT !.attempts = row.attempts + 1]
          /\ misses' = [misses EXCEPT ![row.code] = misses[row.code] + 1]
          /\ pc' = [pc EXCEPT ![w] = "idle"]
          /\ UNCHANGED <<issued, latest, accepts>>
      BY <1>6, <2>1 DEF MissWrite, Missed, End
    <2>3. /\ row'.code = row.code /\ row'.attempts = row.attempts + 1 /\ row'.consumed = row.consumed
          /\ row.code \in Codes /\ row.attempts \in Nat
      BY <2>1, <2>2 DEF Rows
    <2>4. row' # NoRow BY <2>3, NoRowFacts DEF Codes
    <2>5. misses'[row.code] = row.attempts + 1 /\ \A d \in Codes \ {row.code} : misses'[d] = misses[d]
      BY <2>1, <2>2, <2>3, <1>0 DEF SInv, RowTellsHistory
    <2>6. RowTellsHistory' BY <2>1, <2>2, <2>3, <2>4, <2>5, <1>0 DEF SInv, RowTellsHistory
    <2>7. PastCapped' BY <2>1, <2>2, <2>3, <2>5, <1>0 DEF SInv, PastCapped, RowTellsHistory
    <2>8. \A v \in Workers : Undisturbed(v)' BY <2>1, <2>2, <1>0 DEF Undisturbed
    <2>9. /\ InPlay = {row.code}
          /\ InPlay' = IF row.attempts + 1 < MaxAttempts THEN InPlay ELSE {}
      BY <2>1, <2>3, <2>4 DEF InPlay
    <2>10. OneTime!Guess BY <2>1, <2>2, <2>3, <2>9 DEF OneTime!Guess
    <2> QED BY <2>6, <2>7, <2>8, <2>10 DEF SInv, Abs, OneTime!Next
  <1>7. ASSUME NEW w \in Workers, SpendWrite(w) PROVE SInv' /\ Abs
    <2>1. /\ job[w].seen = row /\ row # NoRow /\ row \in Rows /\ \A v \in Workers : v = w
          /\ ~row.consumed /\ row.attempts < MaxAttempts
      BY <1>7, <1>0 DEF SpendWrite, Goto, Undisturbed, JobOK, OneAtATime
    <2>2. /\ row' = [row EXCEPT !.consumed = TRUE]
          /\ accepts' = [accepts EXCEPT ![row.code] = accepts[row.code] + 1]
          /\ pc' = [pc EXCEPT ![w] = "resolve"]
          /\ UNCHANGED <<issued, latest, misses>>
      BY <1>7, <2>1 DEF SpendWrite, Spent, Goto
    <2>3. /\ row'.code = row.code /\ row'.attempts = row.attempts /\ row'.consumed = TRUE
          /\ row.code \in Codes /\ row.attempts \in Nat
      BY <2>1, <2>2 DEF Rows
    <2>4. row' # NoRow BY <2>3, NoRowFacts DEF Codes
    <2>5. accepts'[row.code] = 1 /\ \A d \in Codes \ {row.code} : accepts'[d] = accepts[d]
      BY <2>1, <2>2, <2>3, <1>0 DEF SInv, RowTellsHistory
    <2>6. RowTellsHistory' BY <2>1, <2>2, <2>3, <2>4, <2>5, <1>0 DEF SInv, RowTellsHistory
    <2>7. PastCapped' BY <2>1, <2>2, <2>3, <2>5, <1>0 DEF SInv, PastCapped, RowTellsHistory
    <2>8. \A v \in Workers : Undisturbed(v)' BY <2>1, <2>2, <1>0 DEF Undisturbed
    <2>9. InPlay = {row.code} /\ InPlay' = {} BY <2>1, <2>3 DEF InPlay
    <2>10. OneTime!Accept BY <2>2, <2>3, <2>9 DEF OneTime!Accept
    <2> QED BY <2>6, <2>7, <2>8, <2>10 DEF SInv, Abs, OneTime!Next
  <1>8. ASSUME NEW w \in Workers,
               \/ Dispatch(w) \/ VerifyBegin(w) \/ Resolve(w) \/ Create(w) \/ Reread(w)
               \/ Provision(w) \/ Mint(w) \/ Outage(w) \/ Crash(w)
        PROVE  SInv' /\ Abs
    <2>1. PICK to \in Calm : pc' = [pc EXCEPT ![w] = to]
      BY <1>8, <1>a DEF Dispatch, VerifyBegin, Resolve, Create, Reread, Provision, Mint,
                        Outage, Crash, Goto, End
    <2>2. UNCHANGED <<row, issued, latest, accepts, misses>>
      BY <1>8 DEF Dispatch, VerifyBegin, Resolve, Create, Reread, Provision, Mint, Outage, Crash
    <2> QED BY <2>1, <2>2, QuietStep
  <1> QED BY <1>1, <1>2, <1>3, <1>4, <1>5, <1>6, <1>7, <1>8 DEF Next, Progress, Rest

LEMMA InitSInv == Init => SInv /\ OneTime!Init
  <1> SUFFICES ASSUME Init PROVE SInv /\ OneTime!Init
    OBVIOUS
  <1>1. SInv
    BY EmailLoginAssumption DEF Init, SInv, RowTellsHistory, PastCapped, Undisturbed, NoRow
  <1>2. OneTime!Init BY DEF Init, OneTime!Init, InPlay, NoRow
  <1> QED BY <1>1, <1>2

\* When the requests of an address come one at a time, however they fail,
\* each code is used at most once, admits at most MaxAttempts wrong guesses,
\* and the newest one is the one that works.
THEOREM OneAtATimeSafe ==
  ASSUME OneAtATime PROVE Spec => [](SingleUse /\ AttemptsCapped /\ LatestWins)
  <1>1. IInv /\ SInv /\ [Next]_vars => SInv' BY StepSInv
  <1>2. SInv => SingleUse /\ AttemptsCapped /\ LatestWins
    <2>1. SInv => LatestWins BY DEF SInv, RowTellsHistory, LatestWins
    <2>2. SInv => SingleUse /\ AttemptsCapped BY DEF SInv, PastCapped, SingleUse, AttemptsCapped
    <2> QED BY <2>1, <2>2
  <1> QED BY InitIInv, StepIInv, InitSInv, <1>1, <1>2, PTL DEF Spec

\* Then the stored row implements OneTimeCode.
THEOREM OneTimeRefined ==
  ASSUME OneAtATime PROVE Spec => ImplementsOneTimeCode
  <1>1. IInv /\ SInv /\ [Next]_vars => SInv' /\ [OneTime!Next]_<<InPlay, latest, row.attempts>>
    BY StepSInv DEF Abs
  <1>2. OneTime!Spec <=> OneTime!Init /\ [][OneTime!Next]_<<InPlay, latest, row.attempts>>
    BY DEF OneTime!Spec, OneTime!oneTimeVars
  <1> QED BY InitIInv, StepIInv, InitSInv, <1>1, <1>2, PTL DEF Spec, ImplementsOneTimeCode
=============================================================================
