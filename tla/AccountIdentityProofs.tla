------------------------ MODULE AccountIdentityProofs ------------------------
(***************************************************************************)
(* For every set of workers, rows, uids and emails: a deleted row stays    *)
(* deleted.  When each uid always presents the same email, until the first *)
(* deletion an email has one home, and a lost insert finds the winner's    *)
(* row and is refused only when that row has been written once more.       *)
(***************************************************************************)
EXTENDS AccountIdentity, TLAPS

Relinking == {"relink", "relinkAgain"}
Retrying  == {"byUidAgain", "byEmailAgain"}

Typed == WellFormed /\ \A w \in Workers : pc[w] \in Relinking => job[w].id \in Ids

\* Worker w moves, the others stay where they are.
Moves(w) ==
  /\ pc' \in [Workers -> Steps]
  /\ job' \in [Workers -> Jobs]
  /\ \A v \in Workers \ {w} : pc'[v] = pc[v] /\ job'[v] = job[v]

LEMMA InitTyped == Init => Typed
  <1> SUFFICES ASSUME Init PROVE Typed
    OBVIOUS
  <1>1. Absent \in Rows BY DEF Absent, Rows, States
  <1>2. Idle \in Jobs BY <1>1 DEF Idle, Jobs
  <1>3. WellFormed BY <1>1, <1>2 DEF Init, WellFormed, Steps
  <1>4. \A w \in Workers : pc[w] \notin Relinking BY DEF Init, Relinking
  <1> QED BY <1>3, <1>4 DEF Typed

LEMMA FinishFacts ==
  ASSUME Typed, NEW w \in Workers, Finish(w)
  PROVE  Moves(w) /\ pc'[w] = "idle" /\ job'[w] = Idle
  <1>1. Absent \in Rows BY DEF Absent, Rows, States
  <1>2. Idle \in Jobs BY <1>1 DEF Idle, Jobs
  <1> QED BY <1>2 DEF Typed, WellFormed, Finish, Goto, Moves, Steps

LEMMA GotoFacts ==
  ASSUME Typed, NEW w \in Workers, NEW to \in Steps, Goto(w, to), UNCHANGED job
  PROVE  Moves(w) /\ pc'[w] = to /\ job'[w] = job[w]
  BY DEF Typed, WellFormed, Goto, Moves, Steps

LEMMA CarryFacts ==
  ASSUME Typed, NEW w \in Workers, NEW to \in Steps, NEW i \in Ids, Goto(w, to), Carry(w, i)
  PROVE  /\ Moves(w) /\ pc'[w] = to /\ job'[w].id = i
         /\ job'[w].uid = job[w].uid /\ job'[w].email = job[w].email
         /\ job'[w].seen = users[i]
  <1>1. job[w] \in Jobs /\ users[i] \in Rows BY DEF Typed, WellFormed
  <1>2. job' = [job EXCEPT ![w] = [job[w] EXCEPT !.id = i, !.seen = users[i]]]
    BY DEF Carry, Typed, WellFormed
  <1>3. [job[w] EXCEPT !.id = i, !.seen = users[i]] \in Jobs
    BY <1>1 DEF Jobs
  <1>4. job' \in [Workers -> Jobs] /\ job'[w] = [job[w] EXCEPT !.id = i, !.seen = users[i]]
    BY <1>2, <1>3 DEF Typed, WellFormed
  <1>5. \A v \in Workers \ {w} : job'[v] = job[v]
    BY <1>2 DEF Typed, WellFormed
  <1>6. pc' \in [Workers -> Steps] /\ pc'[w] = to /\ \A v \in Workers \ {w} : pc'[v] = pc[v]
    BY DEF Typed, WellFormed, Goto
  <1> QED BY <1>1, <1>4, <1>5, <1>6 DEF Moves, Jobs

\* Return ends the request or leads to the update, and the row joins the home
\* of the email.
LEMMA ReturnFacts ==
  ASSUME Typed, NEW w \in Workers, NEW i \in Ids, Return(w, i)
  PROVE  /\ Moves(w)
         /\ \/ pc'[w] = "idle" /\ job'[w] = Idle
            \/ pc'[w] = "update" /\ job'[w] = job[w]
         /\ home' \in [Emails -> SUBSET Ids]
         /\ job[w].email = None => home' = home
         /\ \A e \in Emails : \A k \in home'[e] :
              k \in home[e] \/ (e = job[w].email /\ k = i)
  <1>1. /\ Moves(w)
        /\ \/ pc'[w] = "idle" /\ job'[w] = Idle
           \/ pc'[w] = "update" /\ job'[w] = job[w]
    <2>1. CASE Finish(w) BY <2>1, FinishFacts
    <2>2. CASE Goto(w, "update") /\ UNCHANGED job BY <2>2, GotoFacts DEF Steps
    <2> QED BY <2>1, <2>2 DEF Return
  <1>2. job[w].email \in Emails \cup {None} BY DEF Typed, WellFormed, Jobs
  <1>3. CASE job[w].email = None
    BY <1>1, <1>3 DEF Return, Typed, WellFormed
  <1>4. CASE job[w].email # None
    <2>1. job[w].email \in Emails BY <1>2, <1>4
    <2>2. home' = [home EXCEPT ![job[w].email] = @ \cup {i}] BY <1>4 DEF Return
    <2>3. home[job[w].email] \cup {i} \in SUBSET Ids BY <2>1 DEF Typed, WellFormed
    <2> QED BY <1>1, <1>4, <2>1, <2>2, <2>3 DEF Typed, WellFormed
  <1> QED BY <1>3, <1>4

-----------------------------------------------------------------------------
(* Types *)

\* Typed survives a move of w that keeps the other variables typed.
LEMMA TypedMove ==
  ASSUME Typed, NEW w \in Workers, Moves(w),
         users' \in [Ids -> Rows], home' \in [Emails -> SUBSET Ids],
         requests' \in Nat, deletes' \in Nat,
         pc'[w] \in Relinking => job'[w].id \in Ids
  PROVE  Typed'
  <1>1. WellFormed' BY DEF WellFormed, Moves
  <1>2. \A v \in Workers : pc'[v] \in Relinking => job'[v].id \in Ids
    BY DEF Moves, Typed
  <1> QED BY <1>1, <1>2 DEF Typed

LEMMA UsersTyped ==
  ASSUME Typed, NEW i \in Ids, NEW r \in Rows
  PROVE  [users EXCEPT ![i] = r] \in [Ids -> Rows]
  BY DEF Typed, WellFormed

LEMMA RowUpdates ==
  ASSUME NEW r \in Rows, NEW u \in Uids \cup {None}, NEW s \in States
  PROVE  /\ [r EXCEPT !.version = @ + 1] \in Rows
         /\ [r EXCEPT !.uid = u, !.version = @ + 1] \in Rows
         /\ [r EXCEPT !.state = s, !.version = @ + 1] \in Rows
  <1>1. r.version + 1 \in Nat BY DEF Rows
  <1> QED BY <1>1 DEF Rows

LEMMA NewRowTyped == ASSUME Typed, NEW w \in Workers PROVE NewRow(w) \in Rows
  <1>1. job[w] \in Jobs BY DEF Typed, WellFormed
  <1> QED BY <1>1 DEF NewRow, Rows, States, Jobs

\* What relinking does to the row it carries.
LEMMA RelinkFacts ==
  ASSUME Typed, NEW w \in Workers, pc[w] \in Relinking,
         users' = [users EXCEPT ![job[w].id].uid = job[w].uid,
                                ![job[w].id].version = @ + 1]
  PROVE  /\ users' \in [Ids -> Rows]
         /\ \A k \in Ids \ {job[w].id} : users'[k] = users[k]
         /\ users'[job[w].id].state = users[job[w].id].state
         /\ users'[job[w].id].email = users[job[w].id].email
         /\ users'[job[w].id].uid = job[w].uid
         /\ users'[job[w].id].version = users[job[w].id].version + 1
  <1> DEFINE i == job[w].id
             r == [users[i] EXCEPT !.uid = job[w].uid, !.version = @ + 1]
  <1>1. i \in Ids /\ users[i] \in Rows /\ job[w].uid \in Uids \cup {None}
    BY DEF Typed, WellFormed, Jobs
  <1>2. users' = [users EXCEPT ![i] = r]
    BY <1>1 DEF Typed, WellFormed
  <1>3. r \in Rows BY <1>1, RowUpdates DEF States
  <1>4. users' \in [Ids -> Rows] BY <1>1, <1>2, <1>3, UsersTyped
  <1>5. users'[i] = r /\ \A k \in Ids \ {i} : users'[k] = users[k]
    BY <1>1, <1>2 DEF Typed, WellFormed
  <1> QED BY <1>1, <1>4, <1>5 DEF Rows

\* What a write of one row's version (and perhaps its state) does.
LEMMA TouchFacts ==
  ASSUME Typed, NEW i \in Ids, NEW s \in States,
         users' = [users EXCEPT ![i] = [users[i] EXCEPT !.state = s, !.version = @ + 1]]
  PROVE  /\ users' \in [Ids -> Rows]
         /\ \A k \in Ids \ {i} : users'[k] = users[k]
         /\ users'[i].state = s
         /\ users'[i].email = users[i].email
         /\ users'[i].uid = users[i].uid
         /\ users'[i].version = users[i].version + 1
  <1>1. users[i] \in Rows BY DEF Typed, WellFormed
  <1>2. [users[i] EXCEPT !.state = s, !.version = @ + 1] \in Rows BY <1>1, RowUpdates
  <1>3. users' \in [Ids -> Rows] BY <1>2, UsersTyped
  <1> QED BY <1>1, <1>2, <1>3 DEF Typed, WellFormed, Rows

\* The three ways rows change, as facts other proofs use.
LEMMA UpdateTouches ==
  ASSUME Typed, NEW i \in Ids, users' = [users EXCEPT ![i].version = @ + 1]
  PROVE  users' = [users EXCEPT ![i] = [users[i] EXCEPT !.state = users[i].state, !.version = @ + 1]]
  <1>1. users[i] \in Rows BY DEF Typed, WellFormed
  <1>2. [users[i] EXCEPT !.version = @ + 1]
          = [users[i] EXCEPT !.state = users[i].state, !.version = @ + 1]
    BY <1>1 DEF Rows
  <1> QED BY <1>2 DEF Typed, WellFormed

LEMMA DeleteTouches ==
  ASSUME Typed, NEW i \in Ids, NEW s \in States,
         users' = [users EXCEPT ![i].state = s, ![i].version = @ + 1]
  PROVE  users' = [users EXCEPT ![i] = [users[i] EXCEPT !.state = s, !.version = @ + 1]]
  <1>1. users[i] \in Rows BY DEF Typed, WellFormed
  <1> QED BY <1>1 DEF Typed, WellFormed, Rows

LEMMA TypedStep == Typed /\ [Next]_vars => Typed'
  <1> SUFFICES ASSUME Typed, [Next]_vars PROVE Typed'
    OBVIOUS
  <1> USE DEF Relinking
  <1>0. /\ users \in [Ids -> Rows] /\ home \in [Emails -> SUBSET Ids]
        /\ requests \in Nat /\ deletes \in Nat
    BY DEF Typed, WellFormed
  <1>1. ASSUME NEW w \in Workers, Request(w) PROVE Typed'
    <2> PICK t \in Tokens :
          job' = [job EXCEPT ![w] = [uid |-> t.uid, email |-> t.email, id |-> None, seen |-> Absent]]
      BY <1>1 DEF Request
    <2>1. t.uid \in Uids /\ t.email \in Emails \cup {None} BY IdentityAssumption
    <2>2. Absent \in Rows BY DEF Absent, Rows, States
    <2>3. [uid |-> t.uid, email |-> t.email, id |-> None, seen |-> Absent] \in Jobs
      BY <2>1, <2>2 DEF Jobs
    <2>4. Moves(w) /\ pc'[w] = "byUid"
      BY <1>1, <2>3 DEF Request, Goto, Moves, Typed, WellFormed, Steps
    <2> QED BY <1>0, <1>1, <2>4, TypedMove DEF Request
  <1>2. ASSUME NEW w \in Workers, FindByUid(w) PROVE Typed'
    <2>1. CASE \E i \in WithUid(job[w].uid) : Return(w, i)
      BY <1>0, <1>2, <2>1, ReturnFacts, TypedMove DEF FindByUid, WithUid
    <2>2. ASSUME NEW to \in {"byEmail", "byEmailAgain"}, Goto(w, to), UNCHANGED <<job, home>>
          PROVE  Typed'
      BY <1>0, <1>2, <2>2, GotoFacts, TypedMove DEF FindByUid, Steps
    <2> QED BY <1>2, <2>1, <2>2 DEF FindByUid
  <1>3. ASSUME NEW w \in Workers, FindByEmail(w) PROVE Typed'
    <2>1. ASSUME NEW i \in WithEmail(job[w].email), Carry(w, i), Goto(w, "relink") PROVE Typed'
      <3>1. i \in Ids BY DEF WithEmail
      <3> QED BY <1>0, <1>3, <2>1, <3>1, CarryFacts, TypedMove DEF FindByEmail, Steps
    <2>2. CASE Goto(w, "insert") /\ UNCHANGED job
      BY <1>0, <1>3, <2>2, GotoFacts, TypedMove DEF FindByEmail, Steps
    <2> QED BY <1>3, <2>1, <2>2 DEF FindByEmail
  <1>4. ASSUME NEW w \in Workers, Insert(w) PROVE Typed'
    <2>1. ASSUME NEW i \in Ids, users' = [users EXCEPT ![i] = NewRow(w)], Return(w, i) PROVE Typed'
      BY <1>0, <1>4, <2>1, NewRowTyped, UsersTyped, ReturnFacts, TypedMove DEF Insert
    <2>2. CASE Goto(w, "byUidAgain") /\ UNCHANGED <<users, job, home>>
      BY <1>0, <1>4, <2>2, GotoFacts, TypedMove DEF Insert, Steps
    <2> QED BY <1>4, <2>1, <2>2 DEF Insert
  <1>5. ASSUME NEW w \in Workers, FindByEmailAgain(w) PROVE Typed'
    <2>1. ASSUME NEW i \in WithEmail(job[w].email), Carry(w, i), Goto(w, "relinkAgain"),
                 UNCHANGED <<users, home>>
          PROVE  Typed'
      <3>1. i \in Ids BY DEF WithEmail
      <3> QED BY <1>0, <1>5, <2>1, <3>1, CarryFacts, TypedMove DEF FindByEmailAgain, Steps
    <2>2. CASE Conflict(w)
      BY <1>0, <1>5, <2>2, FinishFacts, TypedMove DEF FindByEmailAgain, Conflict
    <2> QED BY <1>5, <2>1, <2>2 DEF FindByEmailAgain
  <1>6. ASSUME NEW w \in Workers, Relink(w) PROVE Typed'
    <2>0. job[w].id \in Ids BY <1>6 DEF Relink, Typed
    <2>1. CASE Return(w, job[w].id) /\ UNCHANGED users
      BY <1>0, <1>6, <2>0, <2>1, ReturnFacts, TypedMove DEF Relink
    <2>2. CASE /\ users' = [users EXCEPT ![job[w].id].uid = job[w].uid,
                                         ![job[w].id].version = @ + 1]
               /\ Return(w, job[w].id)
      BY <1>0, <1>6, <2>0, <2>2, RelinkFacts, ReturnFacts, TypedMove DEF Relink
    <2>3. CASE Conflict(w)
      BY <1>0, <1>6, <2>3, FinishFacts, TypedMove DEF Relink, Conflict
    <2> QED BY <1>6, <2>1, <2>2, <2>3 DEF Relink
  <1>7. ASSUME NEW w \in Workers, Update(w) PROVE Typed'
    <2>1. users' \in [Ids -> Rows]
      <3>1. CASE UNCHANGED users BY <1>0, <3>1
      <3>2. ASSUME NEW i \in Ids, users' = [users EXCEPT ![i].version = @ + 1]
            PROVE  users' \in [Ids -> Rows]
        <4>1. users[i].state \in States BY <1>0 DEF Rows
        <4> QED BY <3>2, <4>1, UpdateTouches, TouchFacts
      <3> QED BY <1>7, <3>1, <3>2 DEF Update, WithUid
    <2> QED BY <1>0, <1>7, <2>1, FinishFacts, TypedMove DEF Update
  <1>8. ASSUME NEW i \in Ids, SoftDelete(i) \/ Restore(i) PROVE Typed'
    <2>0. "active" \in States /\ "deleted" \in States BY DEF States
    <2>1. users' \in [Ids -> Rows]
      <3>1. PICK s \in States : users' = [users EXCEPT ![i].state = s, ![i].version = @ + 1]
        BY <1>8, <2>0 DEF SoftDelete, Restore
      <3>2. users' = [users EXCEPT ![i] = [users[i] EXCEPT !.state = s, !.version = @ + 1]]
        BY <3>1, DeleteTouches
      <3> QED BY <3>2, TouchFacts
    <2>2. deletes' \in Nat BY <1>0, <1>8 DEF SoftDelete, Restore
    <2> QED BY <1>0, <1>8, <2>1, <2>2 DEF SoftDelete, Restore, Typed, WellFormed
  <1>9. CASE UNCHANGED vars BY <1>9 DEF vars, Typed, WellFormed
  <1> QED BY <1>1, <1>2, <1>3, <1>4, <1>5, <1>6, <1>7, <1>8, <1>9 DEF Next, Rest

\* A relink that read the row before it was deleted fails its version check,
\* an insert takes a fresh row, and the updates look for active rows.
LEMMA DeletedStep ==
  ASSUME Typed, Next, NEW i \in Ids, users[i].state = "deleted", users'[i] # users[i]
  PROVE  Restore(i)
  <1> USE DEF Relinking
  <1>0. users \in [Ids -> Rows] BY DEF Typed, WellFormed
  <1>1. ASSUME NEW w \in Workers, Request(w) \/ FindByUid(w) \/ FindByEmail(w)
               \/ FindByEmailAgain(w)
        PROVE  FALSE
    BY <1>1 DEF Request, FindByUid, FindByEmail, FindByEmailAgain, Conflict
  <1>2. ASSUME NEW w \in Workers, Insert(w) PROVE FALSE
    BY <1>0, <1>2 DEF Insert, Absent
  <1>3. ASSUME NEW w \in Workers, Relink(w) PROVE FALSE
    <2>1. CASE UNCHANGED users BY <2>1
    <2>2. CASE /\ users[job[w].id].state = "active" /\ job[w].id \in Ids
               /\ users' = [users EXCEPT ![job[w].id].uid = job[w].uid,
                                         ![job[w].id].version = @ + 1]
      BY <1>0, <2>2
    <2> QED BY <1>3, <2>1, <2>2 DEF Relink, Conflict, Typed
  <1>4. ASSUME NEW w \in Workers, Update(w) PROVE FALSE
    BY <1>0, <1>4 DEF Update, WithUid
  <1>5. ASSUME NEW k \in Ids, SoftDelete(k) PROVE FALSE
    BY <1>0, <1>5 DEF SoftDelete
  <1>6. ASSUME NEW k \in Ids, Restore(k) PROVE k = i
    BY <1>0, <1>6 DEF Restore
  <1>7. CASE Rest BY <1>7 DEF Rest, vars
  <1> QED BY <1>1, <1>2, <1>3, <1>4, <1>5, <1>6, <1>7 DEF Next

\* A move of w keeps every identity if it keeps those of the rows and w's own.
LEMMA IdentifiedMove ==
  ASSUME Identified, NEW w \in Workers, Moves(w),
         \A i \in Ids : users'[i].state # "absent" => users'[i].uid # None,
         pc'[w] # "idle" => job'[w].uid # None
  PROVE  Identified'
  BY DEF Identified, Moves

\* A new row and a relinked one take the uid of the request; all others keep
\* theirs.
LEMMA IdentifiedStep == Typed /\ Identified /\ [Next]_vars => Identified'
  <1> SUFFICES ASSUME Typed, Identified, [Next]_vars PROVE Identified'
    OBVIOUS
  <1> USE DEF Relinking
  <1>0. /\ users \in [Ids -> Rows]
        /\ \A i \in Ids : users[i].state # "absent" => users[i].uid # None
        /\ \A w \in Workers : pc[w] # "idle" => job[w].uid # None
    BY DEF Typed, WellFormed, Identified
  <1>1. ASSUME NEW w \in Workers, Request(w) PROVE Identified'
    <2> PICK t \in Tokens :
          job' = [job EXCEPT ![w] = [uid |-> t.uid, email |-> t.email, id |-> None, seen |-> Absent]]
      BY <1>1 DEF Request
    <2>1. t.uid # None BY IdentityAssumption
    <2>2. /\ job'[w].uid = t.uid
          /\ \A v \in Workers \ {w} : pc'[v] = pc[v] /\ job'[v] = job[v]
      BY <1>1 DEF Request, Goto, Typed, WellFormed
    <2> QED BY <1>0, <1>1, <2>1, <2>2 DEF Request, Identified
  <1>2. ASSUME NEW w \in Workers, FindByUid(w) PROVE Identified'
    <2>1. UNCHANGED users /\ job[w].uid # None BY <1>0, <1>2 DEF FindByUid
    <2>2. CASE \E i \in WithUid(job[w].uid) : Return(w, i)
      BY <1>0, <2>1, <2>2, ReturnFacts, IdentifiedMove DEF WithUid
    <2>3. ASSUME NEW to \in {"byEmail", "byEmailAgain"}, Goto(w, to), UNCHANGED <<job, home>>
          PROVE  Identified'
      BY <1>0, <2>1, <2>3, GotoFacts, IdentifiedMove DEF Steps
    <2> QED BY <1>2, <2>2, <2>3 DEF FindByUid
  <1>3. ASSUME NEW w \in Workers, FindByEmail(w) \/ FindByEmailAgain(w) PROVE Identified'
    <2>1. UNCHANGED users /\ job[w].uid # None
      BY <1>0, <1>3 DEF FindByEmail, FindByEmailAgain, Conflict
    <2>2. ASSUME NEW i \in WithEmail(job[w].email), NEW to \in Relinking,
                 Carry(w, i), Goto(w, to)
          PROVE  Identified'
      BY <1>0, <2>1, <2>2, CarryFacts, IdentifiedMove DEF Steps, WithEmail
    <2>3. CASE Goto(w, "insert") /\ UNCHANGED job
      BY <1>0, <2>1, <2>3, GotoFacts, IdentifiedMove DEF Steps
    <2>4. CASE Conflict(w)
      BY <1>0, <2>1, <2>4, FinishFacts, IdentifiedMove DEF Conflict
    <2> QED BY <1>3, <2>2, <2>3, <2>4 DEF FindByEmail, FindByEmailAgain
  <1>4. ASSUME NEW w \in Workers, Insert(w) PROVE Identified'
    <2>0. job[w].uid # None BY <1>0, <1>4 DEF Insert
    <2>1. ASSUME NEW i \in Ids, users' = [users EXCEPT ![i] = NewRow(w)], Return(w, i)
          PROVE  Identified'
      <3>1. \A k \in Ids : users'[k].state # "absent" => users'[k].uid # None
        BY <1>0, <2>0, <2>1 DEF NewRow
      <3> QED BY <2>0, <2>1, <3>1, ReturnFacts, IdentifiedMove
    <2>2. CASE Goto(w, "byUidAgain") /\ UNCHANGED <<users, job, home>>
      BY <1>0, <2>0, <2>2, GotoFacts, IdentifiedMove DEF Steps
    <2> QED BY <1>4, <2>1, <2>2 DEF Insert
  <1>5. ASSUME NEW w \in Workers, Relink(w) PROVE Identified'
    <2>0. job[w].uid # None /\ job[w].id \in Ids /\ pc[w] \in Relinking
      BY <1>0, <1>5 DEF Relink, Typed
    <2>1. CASE Return(w, job[w].id) /\ UNCHANGED users
      BY <1>0, <2>0, <2>1, ReturnFacts, IdentifiedMove
    <2>2. CASE /\ users' = [users EXCEPT ![job[w].id].uid = job[w].uid,
                                         ![job[w].id].version = @ + 1]
               /\ Return(w, job[w].id)
      <3>1. \A k \in Ids : users'[k].state # "absent" => users'[k].uid # None
        BY <1>0, <2>0, <2>2, RelinkFacts
      <3> QED BY <2>0, <2>2, <3>1, ReturnFacts, IdentifiedMove
    <2>3. CASE Conflict(w)
      BY <1>0, <2>3, FinishFacts, IdentifiedMove DEF Conflict
    <2> QED BY <1>5, <2>1, <2>2, <2>3 DEF Relink
  <1>6. ASSUME NEW w \in Workers, Update(w) PROVE Identified'
    <2>1. \A k \in Ids : users'[k].state # "absent" => users'[k].uid # None
      <3>1. ASSUME NEW i \in Ids, users' = [users EXCEPT ![i].version = @ + 1]
            PROVE  \A k \in Ids : users'[k].state # "absent" => users'[k].uid # None
        <4>1. users[i].state \in States BY <1>0 DEF Rows
        <4>2. users'[i].state = users[i].state /\ users'[i].uid = users[i].uid
          BY <3>1, <4>1, UpdateTouches, TouchFacts
        <4>3. \A k \in Ids \ {i} : users'[k] = users[k]
          BY <3>1, <4>1, UpdateTouches, TouchFacts
        <4> QED BY <1>0, <4>2, <4>3
      <3> QED BY <1>0, <1>6, <3>1 DEF Update, WithUid
    <2> QED BY <1>0, <1>6, <2>1, FinishFacts, IdentifiedMove DEF Update
  <1>7. ASSUME NEW i \in Ids, SoftDelete(i) \/ Restore(i) PROVE Identified'
    <2>0. "active" \in States /\ "deleted" \in States BY DEF States
    <2>1. PICK s \in States : users' = [users EXCEPT ![i].state = s, ![i].version = @ + 1]
      BY <1>7, <2>0 DEF SoftDelete, Restore
    <2>2. /\ \A k \in Ids \ {i} : users'[k] = users[k]
          /\ users'[i].uid = users[i].uid
      BY <2>1, DeleteTouches, TouchFacts
    <2>3. users[i].state # "absent" BY <1>7 DEF SoftDelete, Restore
    <2>4. UNCHANGED <<pc, job>> BY <1>7 DEF SoftDelete, Restore
    <2> QED BY <1>0, <2>2, <2>3, <2>4 DEF Identified
  <1>8. CASE UNCHANGED vars BY <1>8 DEF vars, Identified
  <1> QED BY <1>1, <1>2, <1>3, <1>4, <1>5, <1>6, <1>7, <1>8 DEF Next, Rest

LEMMA InitIdentified == Init => Identified
  BY DEF Init, Identified, Absent

\* The table and what each request carries of it stay well formed, and every
\* stored row, deleted ones too, has the uid of a token (V2's NOT NULL).
THEOREM TypesSafe == Spec => []TypeOK
  <1>1. Typed /\ Identified => TypeOK BY DEF Typed, TypeOK
  <1> QED BY <1>1, InitTyped, TypedStep, InitIdentified, IdentifiedStep, PTL DEF Spec

\* No request, however long ago it read the row, changes a deleted one
\* (UserService.relinkUid under BaseEntity's version).
THEOREM DeletedSafe == Spec => DeletedStaysDeleted
  <1>1. Typed /\ [Next]_vars =>
          [\A i \in Ids : users[i].state = "deleted" /\ users'[i] # users[i] => Restore(i)]_vars
    <2> SUFFICES ASSUME Typed, Next
                 PROVE  \A i \in Ids : users[i].state = "deleted" /\ users'[i] # users[i] => Restore(i)
      OBVIOUS
    <2> QED BY DeletedStep
  <1> QED BY <1>1, InitTyped, TypedStep, PTL DEF Spec, DeletedStaysDeleted

-----------------------------------------------------------------------------
(* One home *)

\* Each uid always presents the same email.
Stable == \A s, t \in Tokens : s.uid = t.uid => s.email = t.email

Active(i) == users[i].state = "active"

RowsOK ==
  \A i \in Ids :
    /\ users[i].state # "deleted"
    /\ Active(i) => [uid |-> users[i].uid, email |-> users[i].email] \in Tokens

Unique ==
  \A i, k \in Ids :
    Active(i) /\ Active(k) /\ i # k =>
      /\ users[i].uid # users[k].uid
      /\ users[i].email # None => users[i].email # users[k].email

\* Every row that answered a token with email e has this email.
HomeOK == \A e \in Emails : \A i \in home[e] : i \in Ids /\ Active(i) /\ users[i].email = e

\* What a request knows.  After a failed insert the row that refused it is
\* there to be found: by email, or by uid when the token has no email.
JobOK(w) ==
  /\ pc[w] # "idle" => [uid |-> job[w].uid, email |-> job[w].email] \in Tokens
  /\ pc[w] \in Relinking =>
       /\ job[w].id \in Ids /\ Active(job[w].id)
       /\ users[job[w].id].email = job[w].email /\ job[w].email # None
  /\ pc[w] \in Retrying =>
       \E i \in Ids : /\ Active(i) /\ users[i].email = job[w].email
                      /\ job[w].email = None => users[i].uid = job[w].uid
  /\ pc[w] = "byEmailAgain" => job[w].email # None

HInv == Typed /\ deletes = 0 /\ RowsOK /\ Unique /\ HomeOK /\ \A w \in Workers : JobOK(w)

\* Active rows stay, with their email, and those without one with their uid.
Keeps == \A i \in Ids : Active(i) =>
           /\ users'[i].state = "active"
           /\ users'[i].email = users[i].email
           /\ users[i].email = None => users'[i].uid = users[i].uid

LEMMA KeepsJob ==
  ASSUME HInv, Keeps, NEW v \in Workers, JobOK(v), pc'[v] = pc[v], job'[v] = job[v]
  PROVE  JobOK(v)'
  <1> USE DEF Relinking, Retrying, Active
  <1>1. pc'[v] # "idle" => [uid |-> job'[v].uid, email |-> job'[v].email] \in Tokens
    BY DEF JobOK
  <1>2. pc'[v] \in Relinking =>
          /\ job'[v].id \in Ids /\ users'[job'[v].id].state = "active"
          /\ users'[job'[v].id].email = job'[v].email /\ job'[v].email # None
    BY DEF JobOK, Keeps
  <1>3. pc'[v] \in Retrying =>
          \E i \in Ids : /\ users'[i].state = "active" /\ users'[i].email = job'[v].email
                         /\ job'[v].email = None => users'[i].uid = job'[v].uid
    <2> SUFFICES ASSUME pc[v] \in Retrying
                 PROVE  \E i \in Ids : /\ users'[i].state = "active" /\ users'[i].email = job'[v].email
                                       /\ job'[v].email = None => users'[i].uid = job'[v].uid
      OBVIOUS
    <2>1. PICK i \in Ids : /\ Active(i) /\ users[i].email = job[v].email
                           /\ job[v].email = None => users[i].uid = job[v].uid
      BY DEF JobOK
    <2> QED BY <2>1 DEF Keeps
  <1>4. pc'[v] = "byEmailAgain" => job'[v].email # None
    BY DEF JobOK
  <1> QED BY <1>1, <1>2, <1>3, <1>4 DEF JobOK

\* A step of w preserves HInv if it keeps the rows and w's own conjunct.
LEMMA Together ==
  ASSUME HInv, Typed', NEW w \in Workers, Moves(w), Keeps, JobOK(w)',
         RowsOK', Unique', HomeOK', deletes' = deletes
  PROVE  HInv'
  <1>1. \A v \in Workers : JobOK(v)'
    BY KeepsJob DEF Moves, HInv
  <1> QED BY <1>1 DEF HInv

LEMMA SameRows ==
  ASSUME HInv, UNCHANGED users
  PROVE  Keeps /\ RowsOK' /\ Unique'
  BY DEF HInv, Keeps, RowsOK, Unique, Active

\* An answer keeps HomeOK when its row has the token's email.
LEMMA ReturnHome ==
  ASSUME HInv, Keeps, NEW w \in Workers, NEW i \in Ids, Return(w, i),
         users'[i].state = "active", users'[i].email = job[w].email
  PROVE  HomeOK'
  <1> SUFFICES ASSUME NEW e \in Emails, NEW k \in home'[e]
               PROVE  k \in Ids /\ users'[k].state = "active" /\ users'[k].email = e
    BY DEF HomeOK, Active
  <1>1. k \in home[e] \/ (e = job[w].email /\ k = i)
    BY ReturnFacts DEF HInv
  <1>2. CASE k \in home[e] BY <1>2 DEF HInv, HomeOK, Keeps, Active
  <1>3. CASE e = job[w].email /\ k = i BY <1>3
  <1> QED BY <1>1, <1>2, <1>3

LEMMA KeptHome ==
  ASSUME HInv, Keeps, UNCHANGED home
  PROVE  HomeOK'
  BY DEF HInv, HomeOK, Keeps, Active

\* Worker w has answered, or goes on to the update.
LEMMA ReturnJob ==
  ASSUME HInv, NEW w \in Workers, pc[w] # "idle",
         \/ pc'[w] = "idle"
         \/ pc'[w] = "update" /\ job'[w] = job[w]
  PROVE  JobOK(w)'
  BY DEF HInv, JobOK, Relinking, Retrying

\* A row's email is the one its uid presents.
LEMMA SameEmail ==
  ASSUME HInv, Stable, NEW w \in Workers, pc[w] # "idle",
         NEW i \in Ids, Active(i), users[i].uid = job[w].uid
  PROVE  users[i].email = job[w].email
  <1>1. /\ [uid |-> users[i].uid, email |-> users[i].email] \in Tokens
        /\ [uid |-> job[w].uid, email |-> job[w].email] \in Tokens
    BY DEF HInv, RowsOK, JobOK
  <1> DEFINE s == [uid |-> users[i].uid, email |-> users[i].email]
             t == [uid |-> job[w].uid, email |-> job[w].email]
  <1>2. s.uid = t.uid => s.email = t.email BY <1>1 DEF Stable
  <1> QED BY <1>2

LEMMA InitHInv == Init => HInv
  <1> SUFFICES ASSUME Init PROVE HInv
    OBVIOUS
  <1>1. Typed BY InitTyped
  <1>2. \A i \in Ids : users[i].state = "absent" BY DEF Init, Absent
  <1>3. RowsOK /\ Unique BY <1>2 DEF RowsOK, Unique, Active
  <1>4. deletes = 0 /\ HomeOK BY DEF Init, HomeOK
  <1>5. \A w \in Workers : JobOK(w) BY DEF Init, JobOK, Relinking, Retrying
  <1> QED BY <1>1, <1>3, <1>4, <1>5 DEF HInv

\* An insert that the constraints refuse leaves a row to be found.
LEMMA RefusedInsert ==
  ASSUME HInv, Stable, NEW w \in Workers, pc[w] = "insert",
         UidTaken(None, job[w].uid) \/ EmailTaken(None, job[w].email)
  PROVE  \E i \in Ids : /\ Active(i) /\ users[i].email = job[w].email
                        /\ job[w].email = None => users[i].uid = job[w].uid
  <1>0. \A i \in Ids : users[i].state # "absent" => Active(i)
    BY DEF HInv, Typed, WellFormed, Rows, States, RowsOK, Active
  <1>1. CASE UidTaken(None, job[w].uid)
    <2>1. PICK i \in Ids : users[i].state # "absent" /\ users[i].uid = job[w].uid
      BY <1>1 DEF UidTaken
    <2>2. Active(i) BY <1>0, <2>1
    <2>3. users[i].email = job[w].email BY <2>1, <2>2, SameEmail
    <2> QED BY <2>1, <2>2, <2>3
  <1>2. CASE EmailTaken(None, job[w].email)
    <2>1. PICK i \in Ids : i \in WithEmail(job[w].email) BY <1>2 DEF EmailTaken
    <2>2. Active(i) /\ users[i].email = job[w].email /\ job[w].email # None
      BY <2>1 DEF WithEmail, Active
    <2> QED BY <2>2
  <1> QED BY <1>1, <1>2

LEMMA HInsert ==
  ASSUME HInv, Stable, Typed', NEW w \in Workers, Insert(w)
  PROVE  HInv'
  <1> USE DEF Active
  <1>0. /\ users \in [Ids -> Rows] /\ pc[w] = "insert" /\ deletes' = deletes
        /\ [uid |-> job[w].uid, email |-> job[w].email] \in Tokens
    BY DEF HInv, Typed, WellFormed, Insert, JobOK
  <1>1. ASSUME NEW i \in Ids, users[i] = Absent,
               ~UidTaken(i, job[w].uid), ~EmailTaken(i, job[w].email),
               users' = [users EXCEPT ![i] = NewRow(w)], Return(w, i)
        PROVE  HInv'
    <2>1. /\ users'[i].state = "active" /\ users'[i].uid = job[w].uid
          /\ users'[i].email = job[w].email
      BY <1>0, <1>1 DEF NewRow
    <2>2. \A k \in Ids \ {i} : users'[k] = users[k] BY <1>0, <1>1
    <2>3. users[i].state = "absent" BY <1>1 DEF Absent
    <2>4. Keeps BY <2>2, <2>3 DEF Keeps
    <2>5. RowsOK' BY <1>0, <2>1, <2>2 DEF HInv, RowsOK
    <2>6. \A k \in Ids \ {i} : Active(k) =>
            /\ users[k].uid # job[w].uid
            /\ job[w].email # None => users[k].email # job[w].email
      BY <1>1 DEF UidTaken, EmailTaken, WithEmail
    <2>7. Unique' BY <2>1, <2>2, <2>6 DEF HInv, Unique
    <2>8. HomeOK' BY <1>1, <2>1, <2>4, ReturnHome
    <2>9. Moves(w) /\ JobOK(w)' BY <1>0, <1>1, ReturnFacts, ReturnJob DEF HInv
    <2> QED BY <1>0, <2>4, <2>5, <2>7, <2>8, <2>9, Together
  <1>2. CASE /\ UidTaken(None, job[w].uid) \/ EmailTaken(None, job[w].email)
             /\ Goto(w, "byUidAgain") /\ UNCHANGED <<users, job, home>>
    <2>1. Moves(w) /\ pc'[w] = "byUidAgain" /\ job'[w] = job[w]
      BY <1>2, GotoFacts DEF HInv, Steps
    <2>2. JobOK(w)'
      BY <1>0, <1>2, <2>1, RefusedInsert DEF JobOK, Relinking, Retrying
    <2> QED BY <1>0, <1>2, <2>1, <2>2, SameRows, KeptHome, Together
  <1> QED BY <1>1, <1>2 DEF Insert

LEMMA HFindByUid ==
  ASSUME HInv, Stable, Typed', NEW w \in Workers, FindByUid(w)
  PROVE  HInv'
  <1>0. pc[w] \in {"byUid", "byUidAgain"} /\ UNCHANGED users /\ deletes' = deletes
    BY DEF FindByUid
  <1>1. ASSUME NEW i \in WithUid(job[w].uid), Return(w, i) PROVE HInv'
    <2>1. i \in Ids /\ Active(i) /\ users[i].uid = job[w].uid
      BY DEF WithUid, Active
    <2>2. users[i].email = job[w].email BY <1>0, <2>1, SameEmail
    <2>3. Keeps /\ HomeOK'
      BY <1>0, <1>1, <2>1, <2>2, SameRows, ReturnHome DEF Active
    <2>4. Moves(w) /\ JobOK(w)' BY <1>0, <1>1, <2>1, ReturnFacts, ReturnJob DEF HInv
    <2> QED BY <1>0, <2>3, <2>4, SameRows, Together
  <1>2. ASSUME WithUid(job[w].uid) = {}, UNCHANGED <<job, home>>,
               Goto(w, IF pc[w] = "byUid" THEN "byEmail" ELSE "byEmailAgain")
        PROVE  HInv'
    <2> DEFINE to == IF pc[w] = "byUid" THEN "byEmail" ELSE "byEmailAgain"
    <2>1. to \in Steps BY DEF Steps
    <2>2. Moves(w) /\ pc'[w] = to /\ job'[w] = job[w]
      BY <1>2, <2>1, GotoFacts DEF HInv
    <2>3. pc[w] = "byUidAgain" => job[w].email # None
      BY <1>2 DEF HInv, JobOK, Retrying, WithUid, Active
    <2>4. JobOK(w)'
      BY <1>0, <2>2, <2>3 DEF HInv, JobOK, Relinking, Retrying, Active
    <2> QED BY <1>0, <1>2, <2>2, <2>4, SameRows, KeptHome, Together
  <1> QED BY <1>1, <1>2 DEF FindByUid

\* Both lookups by email lead to a relink of the row found.
LEMMA HFound ==
  ASSUME HInv, Typed', NEW w \in Workers, pc[w] # "idle",
         NEW i \in WithEmail(job[w].email), Carry(w, i),
         NEW to \in Relinking, Goto(w, to), UNCHANGED <<users, deletes, home>>
  PROVE  HInv'
  <1>1. i \in Ids /\ Active(i) /\ users[i].email = job[w].email /\ job[w].email # None
    BY DEF WithEmail, Active
  <1>2. to \in Steps BY DEF Relinking, Steps
  <1>3. /\ Moves(w) /\ pc'[w] = to /\ job'[w].id = i
        /\ job'[w].uid = job[w].uid /\ job'[w].email = job[w].email
    BY <1>1, <1>2, CarryFacts DEF HInv
  <1>4. JobOK(w)'
    BY <1>1, <1>3 DEF HInv, JobOK, Relinking, Retrying, Active
  <1> QED BY <1>3, <1>4, SameRows, KeptHome, Together

\* The row that refused the insert is found by its email.
LEMMA Recoverable ==
  ASSUME HInv, NEW w \in Workers, pc[w] = "byEmailAgain"
  PROVE  WithEmail(job[w].email) # {}
  BY DEF HInv, JobOK, Retrying, WithEmail, Active

LEMMA HFindByEmail ==
  ASSUME HInv, Typed', NEW w \in Workers, FindByEmail(w) \/ FindByEmailAgain(w)
  PROVE  HInv'
  <1>1. CASE FindByEmail(w)
    <2>1. pc[w] # "idle" /\ UNCHANGED <<users, deletes, home>>
      BY <1>1 DEF FindByEmail
    <2>2. ASSUME NEW i \in WithEmail(job[w].email), Carry(w, i), Goto(w, "relink") PROVE HInv'
      BY <2>1, <2>2, HFound DEF Relinking
    <2>3. CASE Goto(w, "insert") /\ UNCHANGED job
      <3>1. Moves(w) /\ pc'[w] = "insert" /\ job'[w] = job[w]
        BY <2>3, GotoFacts DEF HInv, Steps
      <3>2. JobOK(w)'
        BY <2>1, <3>1 DEF HInv, JobOK, Relinking, Retrying
      <3> QED BY <2>1, <3>1, <3>2, SameRows, KeptHome, Together
    <2> QED BY <1>1, <2>2, <2>3 DEF FindByEmail
  <1>2. CASE FindByEmailAgain(w)
    <2>1. pc[w] = "byEmailAgain" /\ UNCHANGED deletes
      BY <1>2 DEF FindByEmailAgain
    <2>2. PICK i \in WithEmail(job[w].email) :
            Carry(w, i) /\ Goto(w, "relinkAgain") /\ UNCHANGED <<users, home>>
      BY <1>2, <2>1, Recoverable DEF FindByEmailAgain
    <2> QED BY <2>1, <2>2, HFound DEF Relinking
  <1> QED BY <1>1, <1>2

LEMMA HRelink ==
  ASSUME HInv, Typed', NEW w \in Workers, Relink(w)
  PROVE  HInv'
  <1> USE DEF Active
  <1> DEFINE i == job[w].id
  <1>0. /\ pc[w] \in Relinking /\ pc[w] # "idle" /\ deletes' = deletes
        /\ i \in Ids /\ Active(i) /\ users[i].email = job[w].email /\ job[w].email # None
        /\ [uid |-> job[w].uid, email |-> job[w].email] \in Tokens
    BY DEF HInv, Relink, JobOK, Relinking
  <1>1. CASE Return(w, i) /\ UNCHANGED users
    <2>1. Keeps /\ HomeOK' BY <1>0, <1>1, SameRows, ReturnHome
    <2>2. Moves(w) /\ JobOK(w)' BY <1>0, <1>1, ReturnFacts, ReturnJob DEF HInv
    <2> QED BY <1>0, <1>1, <2>1, <2>2, SameRows, Together
  <1>2. CASE /\ ~UidTaken(i, job[w].uid)
             /\ users' = [users EXCEPT ![i].uid = job[w].uid, ![i].version = @ + 1]
             /\ Return(w, i)
    <2>1. /\ \A k \in Ids \ {i} : users'[k] = users[k]
          /\ users'[i].state = "active" /\ users'[i].uid = job[w].uid
          /\ users'[i].email = users[i].email
      BY <1>0, <1>2, RelinkFacts DEF HInv
    <2>2. Keeps BY <1>0, <2>1 DEF Keeps
    <2>3. RowsOK' BY <1>0, <2>1 DEF HInv, RowsOK
    <2>4. \A k \in Ids \ {i} : Active(k) => users[k].uid # job[w].uid
      BY <1>2 DEF UidTaken
    <2>5. Unique' BY <1>0, <2>1, <2>4 DEF HInv, Unique
    <2>6. HomeOK' BY <1>0, <1>2, <2>1, <2>2, ReturnHome
    <2>7. Moves(w) /\ JobOK(w)' BY <1>0, <1>2, ReturnFacts, ReturnJob DEF HInv
    <2> QED BY <1>0, <2>2, <2>3, <2>5, <2>6, <2>7, Together
  <1>3. CASE Conflict(w)
    <2>1. Moves(w) /\ pc'[w] = "idle" /\ UNCHANGED <<users, home>>
      BY <1>3, FinishFacts DEF HInv, Conflict
    <2>2. JobOK(w)' BY <1>0, <2>1, ReturnJob
    <2> QED BY <1>0, <2>1, <2>2, SameRows, KeptHome, Together
  <1> QED BY <1>1, <1>2, <1>3 DEF Relink

LEMMA HUpdate ==
  ASSUME HInv, Typed', NEW w \in Workers, Update(w)
  PROVE  HInv'
  <1> USE DEF Active
  <1>0. /\ pc[w] # "idle" /\ UNCHANGED <<deletes, home>>
        /\ Moves(w) /\ pc'[w] = "idle" /\ JobOK(w)'
    BY FinishFacts, ReturnJob DEF HInv, Update
  <1>1. CASE UNCHANGED users
    BY <1>0, <1>1, SameRows, KeptHome, Together
  <1>2. ASSUME NEW i \in WithUid(job[w].uid), users' = [users EXCEPT ![i].version = @ + 1]
        PROVE  HInv'
    <2>0. i \in Ids /\ users[i].state = "active" /\ "active" \in States
      BY DEF WithUid, States
    <2>1. /\ \A k \in Ids \ {i} : users'[k] = users[k]
          /\ users'[i].state = users[i].state /\ users'[i].uid = users[i].uid
          /\ users'[i].email = users[i].email
      <3>1. Typed BY DEF HInv
      <3>2. users' = [users EXCEPT ![i] = [users[i] EXCEPT !.state = users[i].state, !.version = @ + 1]]
        BY <1>2, <2>0, <3>1, UpdateTouches
      <3>3. users[i].state \in States BY <2>0
      <3> QED BY <2>0, <3>1, <3>2, <3>3, TouchFacts
    <2>2. \A k \in Ids : /\ users'[k].state = users[k].state
                         /\ users'[k].uid = users[k].uid
                         /\ users'[k].email = users[k].email
      BY <2>1
    <2>3. Keeps /\ RowsOK' /\ Unique'
      BY <2>2 DEF HInv, Keeps, RowsOK, Unique
    <2> QED BY <1>0, <2>3, KeptHome, Together
  <1> QED BY <1>1, <1>2 DEF Update

LEMMA HStep == ASSUME Stable PROVE HInv /\ [Next]_vars /\ deletes' = 0 => HInv'
  <1> SUFFICES ASSUME HInv, [Next]_vars, deletes' = 0 PROVE HInv'
    OBVIOUS
  <1>0. Typed' BY TypedStep DEF HInv
  <1>1. ASSUME NEW w \in Workers, Request(w) PROVE HInv'
    <2>1. PICK t \in Tokens :
            job' = [job EXCEPT ![w] = [uid |-> t.uid, email |-> t.email, id |-> None, seen |-> Absent]]
      BY <1>1 DEF Request
    <2>2. t \in [uid : Uids, email : Emails \cup {None}] BY IdentityAssumption
    <2>3. [uid |-> t.uid, email |-> t.email] \in Tokens BY <2>2
    <2>4. Moves(w) /\ pc'[w] = "byUid" /\ job'[w].uid = t.uid /\ job'[w].email = t.email
      BY <1>0, <1>1, <2>1 DEF Request, Goto, Moves, HInv, Typed, WellFormed
    <2>5. JobOK(w)' BY <2>3, <2>4 DEF JobOK, Relinking, Retrying
    <2> QED BY <1>0, <1>1, <2>4, <2>5, SameRows, KeptHome, Together DEF Request
  <1>2. ASSUME NEW w \in Workers,
               FindByUid(w) \/ FindByEmail(w) \/ Insert(w)
                 \/ FindByEmailAgain(w) \/ Relink(w) \/ Update(w)
        PROVE  HInv'
    BY <1>0, <1>2, HFindByUid, HFindByEmail, HInsert, HRelink, HUpdate
  <1>3. ASSUME NEW i \in Ids, SoftDelete(i) \/ Restore(i) PROVE FALSE
    <2>1. CASE SoftDelete(i)
      <3>1. deletes = 0 BY DEF HInv
      <3> QED BY <2>1, <3>1 DEF SoftDelete
    <2>2. CASE Restore(i) BY <2>2 DEF Restore, HInv, RowsOK
    <2> QED BY <1>3, <2>1, <2>2
  <1>4. CASE UNCHANGED vars
    <2>1. UNCHANGED <<users, pc, job, deletes, home>> BY <1>4 DEF vars
    <2>2. Keeps /\ RowsOK' /\ Unique' BY <2>1, SameRows
    <2>3. HomeOK' BY <2>1, <2>2, KeptHome
    <2>4. \A w \in Workers : JobOK(w)' BY <2>1, <2>2, KeepsJob DEF HInv
    <2> QED BY <1>0, <2>1, <2>2, <2>3, <2>4 DEF HInv
  <1> QED BY <1>1, <1>2, <1>3, <1>4 DEF Next, Rest

\* HInv holds until the first deletion.
UndeletedHInv == Typed /\ (deletes = 0 => HInv)

LEMMA InitUndeleted == Init => UndeletedHInv
  BY InitTyped, InitHInv DEF UndeletedHInv

LEMMA UndeletedStep == ASSUME Stable PROVE UndeletedHInv /\ [Next]_vars => UndeletedHInv'
  <1> SUFFICES ASSUME UndeletedHInv, [Next]_vars PROVE UndeletedHInv'
    OBVIOUS
  <1>1. Typed' BY TypedStep DEF UndeletedHInv
  <1>2. ASSUME deletes' = 0 PROVE deletes = 0
    <2>1. deletes \in Nat BY DEF UndeletedHInv, Typed, WellFormed
    <2>2. deletes' = deletes \/ deletes' = deletes + 1
      BY DEF Next, vars, Rest, Request, FindByUid, FindByEmail, Insert, FindByEmailAgain,
             Relink, Update, SoftDelete, Restore
    <2> QED BY <1>2, <2>1, <2>2
  <1> QED BY <1>1, <1>2, HStep DEF UndeletedHInv

\* "One human = one account", whatever the interleaving of lookups, inserts,
\* relinks and updates (UserService.provisionFromToken).
THEOREM OneHomeSafe == ASSUME Stable PROVE Spec => []OneHome
  <1>1. UndeletedHInv => OneHome
    <2> SUFFICES ASSUME HInv, NEW e \in Emails, NEW i \in home[e], NEW k \in home[e] PROVE i = k
      BY DEF OneHome, UndeletedHInv
    <2>1. /\ i \in Ids /\ Active(i) /\ users[i].email = e
          /\ k \in Ids /\ Active(k) /\ users[k].email = e
      BY DEF HInv, HomeOK
    <2>2. e # None BY IdentityAssumption
    <2> QED BY <2>1, <2>2 DEF HInv, Unique
  <1> QED BY <1>1, InitUndeleted, UndeletedStep, PTL DEF Spec

\* The row that recovery found belongs to nobody else with this uid: only the
\* version check can refuse the relink.
LEMMA RelinkRefused ==
  ASSUME HInv, Stable, NEW w \in Workers, Relink(w), pc[w] = "relinkAgain",
         job[w].seen.uid # job[w].uid, UNCHANGED users
  PROVE  Overtaken(w)
  <1> USE DEF Active
  <1> DEFINE i == job[w].id
  <1>1. /\ i \in Ids /\ Active(i) /\ users[i].email = job[w].email /\ job[w].email # None
    BY DEF HInv, JobOK, Relinking
  <1>2. CASE /\ users[i].version = job[w].seen.version
             /\ UidTaken(i, job[w].uid)
    <2>1. PICK k \in Ids \ {i} : users[k].state # "absent" /\ users[k].uid = job[w].uid
      BY <1>2 DEF UidTaken
    <2>2. Active(k)
      BY <2>1 DEF HInv, Typed, WellFormed, Rows, States, RowsOK
    <2>3. users[k].email = job[w].email BY <2>1, <2>2, SameEmail
    <2> QED BY <1>1, <2>1, <2>2, <2>3 DEF HInv, Unique
  <1>3. CASE /\ users[i].version = job[w].seen.version
             /\ users' = [users EXCEPT ![i].uid = job[w].uid, ![i].version = @ + 1]
    <2>1. users'[i].version = users[i].version + 1
      BY <1>3, RelinkFacts DEF HInv, Relinking
    <2>2. users[i].version \in Nat BY <1>1 DEF HInv, Typed, WellFormed, Rows
    <2> QED BY <2>1, <2>2
  <1> QED BY <1>1, <1>2, <1>3 DEF Relink, Overtaken

\* An insert that loses to a concurrent one finds the winner's row, and is
\* refused only when that row is written again before its relink (the recovery
\* of UserService.provisionFromToken).
THEOREM InsertRecoverySafe == ASSUME Stable PROVE Spec => InsertRecovers
  <1> DEFINE A == deletes = 0 => \A w \in Workers : LostFor(w) => Overtaken(w)
  <1>1. UndeletedHInv /\ [Next]_vars => [A]_vars
    <2> SUFFICES ASSUME HInv, Next, NEW w \in Workers, LostFor(w) PROVE Overtaken(w)
      BY DEF UndeletedHInv
    <2>0. /\ pc \in [Workers -> Steps] /\ users \in [Ids -> Rows]
          /\ pc[w] \in {"insert", "byEmailAgain", "relinkAgain"}
          /\ pc[w] = "relinkAgain" => job[w].seen.uid # job[w].uid
          /\ pc'[w] = "idle" /\ UNCHANGED users
      BY DEF HInv, Typed, WellFormed, LostFor
    <2>1. ASSUME NEW v \in Workers, Insert(v) PROVE Overtaken(w)
      <3>1. CASE \E i \in Ids : users[i] = Absent /\ users' = [users EXCEPT ![i] = NewRow(v)]
        BY <2>0, <3>1 DEF Absent, NewRow
      <3>2. CASE Goto(v, "byUidAgain") BY <2>0, <3>2 DEF Goto
      <3> QED BY <2>1, <3>1, <3>2 DEF Insert
    <2>2. ASSUME NEW v \in Workers, FindByEmailAgain(v) PROVE Overtaken(w)
      <3>1. Goto(v, "relinkAgain") BY <2>2, Recoverable DEF FindByEmailAgain
      <3> QED BY <2>0, <3>1 DEF Goto
    <2>3. ASSUME NEW v \in Workers, Relink(v) PROVE Overtaken(w)
      <3>1. CASE v = w BY <2>0, <2>3, <3>1, RelinkRefused DEF Relink
      <3>2. CASE v # w
        <4>1. pc'[w] = pc[w]
          BY <2>0, <2>3, <3>2 DEF Relink, Return, Conflict, Finish, Goto
        <4> QED BY <2>0, <4>1
      <3> QED BY <3>1, <3>2
    <2>4. ASSUME NEW v \in Workers,
                 Request(v) \/ FindByUid(v) \/ FindByEmail(v) \/ Update(v)
          PROVE  Overtaken(w)
      <3>1. v # w => pc'[w] = pc[w]
        BY <2>0, <2>4 DEF Request, FindByUid, FindByEmail, Update, Return, Finish, Goto
      <3>2. v # w
        BY <2>0, <2>4 DEF Request, FindByUid, FindByEmail, Update
      <3> QED BY <2>0, <3>1, <3>2
    <2>5. ASSUME NEW i \in Ids, SoftDelete(i) \/ Restore(i) PROVE Overtaken(w)
      BY <2>0, <2>5 DEF SoftDelete, Restore
    <2>6. CASE Rest BY <2>0, <2>6 DEF Rest, vars
    <2> QED BY <2>1, <2>2, <2>3, <2>4, <2>5, <2>6 DEF Next
  <1> QED BY <1>1, InitUndeleted, UndeletedStep, PTL DEF Spec, InsertRecovers
=============================================================================
