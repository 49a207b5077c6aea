--------------------------- MODULE AccountIdentity ---------------------------
(***************************************************************************)
(* Who owns which users row: UserService.provisionFromToken, which every   *)
(* authenticated request runs first, with softDelete and restore.          *)
(*                                                                         *)
(* provisionFromToken is deliberately not transactional: each repository   *)
(* call is a transaction of its own, and between two of them other         *)
(* requests commit.  The row it carries from a lookup to a relink is       *)
(* detached; saveAndFlush merges it back under the @Version check.         *)
(*                                                                         *)
(* Every caller in the program passes no phone, so the identity is the     *)
(* email; emails that differ in case are one value here, as lower() makes  *)
(* them.                                                                   *)
(***************************************************************************)
EXTENDS Integers, FiniteSets

CONSTANTS Workers, Ids, Uids, Emails,
          None,         \* no email, no row
          Tokens,       \* the [uid, email] pairs that verified tokens present
          MaxRequests,  \* bound: requests
          MaxDeletes    \* bound: soft deletes (0: the operation is not used)

ASSUME IdentityAssumption ==
  /\ None \notin Uids \cup Emails \cup Ids
  /\ Tokens \subseteq [uid : Uids, email : Emails \cup {None}]
  /\ MaxRequests \in Nat /\ MaxDeletes \in Nat

VARIABLES users,     \* the users table, by primary key
          pc, job,   \* per worker: where it is, its token, the row it carries
          requests, deletes,
          home       \* history: the rows that answered a token with this email

vars == <<users, pc, job, requests, deletes, home>>

States == {"absent", "active", "deleted"}
Rows   == [state : States, uid : Uids \cup {None}, email : Emails \cup {None}, version : Nat]
Absent == [state |-> "absent", uid |-> None, email |-> None, version |-> 0]
Jobs   == [uid : Uids \cup {None}, email : Emails \cup {None}, id : Ids \cup {None}, seen : Rows]
Idle   == [uid |-> None, email |-> None, id |-> None, seen |-> Absent]
Steps  == {"idle", "byUid", "byEmail", "insert", "byUidAgain", "byEmailAgain",
           "relink", "relinkAgain", "update"}

WellFormed ==
  /\ users \in [Ids -> Rows]
  /\ pc \in [Workers -> Steps]
  /\ job \in [Workers -> Jobs]
  /\ requests \in Nat /\ deletes \in Nat
  /\ home \in [Emails -> SUBSET Ids]

\* firebase_uid is NOT NULL (V2): a stored row has the uid of some token, and
\* so has whatever a request may yet write.
Identified ==
  /\ \A i \in Ids : users[i].state # "absent" => users[i].uid # None
  /\ \A w \in Workers : pc[w] # "idle" => job[w].uid # None

\* The table and what each request carries of it are well formed, and no row
\* is ever stored without an identity (UserEntity, V2__app_schema.sql).
TypeOK == WellFormed /\ Identified

Init ==
  /\ users = [i \in Ids |-> Absent]
  /\ pc = [w \in Workers |-> "idle"]
  /\ job = [w \in Workers |-> Idle]
  /\ requests = 0 /\ deletes = 0
  /\ home = [e \in Emails |-> {}]

\* Every finder sees active rows only (@SQLRestriction "deleted_at is null").
WithUid(u)   == {i \in Ids : users[i].state = "active" /\ users[i].uid = u}
WithEmail(e) == {i \in Ids : users[i].state = "active" /\ users[i].email = e /\ e # None}

\* The UNIQUE constraint of V2 on firebase_uid covers deleted rows too; the
\* index of V10 on lower(email) covers active rows that have one.
UidTaken(i, u)   == \E k \in Ids \ {i} : users[k].state # "absent" /\ users[k].uid = u

\* (a slip) No index on the email.
EmailNeverTaken(i, e) == FALSE

EmailTaken(i, e) == \E k \in Ids \ {i} : k \in WithEmail(e)

Goto(w, to) == pc' = [pc EXCEPT ![w] = to]
Finish(w) == Goto(w, "idle") /\ job' = [job EXCEPT ![w] = Idle]

\* provisionFromToken returns row i; the handler ends (GET /me) or goes on to
\* look its caller up by uid again (PATCH /me).
Return(w, i) ==
  /\ home' = IF job[w].email = None THEN home
             ELSE [home EXCEPT ![job[w].email] = @ \cup {i}]
  /\ \/ Finish(w)
     \/ Goto(w, "update") /\ UNCHANGED job

\* The request ends in a 409.
Conflict(w) == Finish(w) /\ UNCHANGED <<users, home>>

Carry(w, i) == job' = [job EXCEPT ![w].id = i, ![w].seen = users[i]]

-----------------------------------------------------------------------------
(* provisionFromToken *)

Request(w) ==
  /\ pc[w] = "idle" /\ requests < MaxRequests
  /\ requests' = requests + 1
  /\ Goto(w, "byUid")
  /\ \E t \in Tokens :
       job' = [job EXCEPT ![w] = [uid |-> t.uid, email |-> t.email, id |-> None, seen |-> Absent]]
  /\ UNCHANGED <<users, deletes, home>>

\* 1) Steady state: a row of this uid.
FindByUid(w) ==
  /\ pc[w] \in {"byUid", "byUidAgain"}
  /\ \/ \E i \in WithUid(job[w].uid) : Return(w, i)
     \/ /\ WithUid(job[w].uid) = {}
        /\ Goto(w, IF pc[w] = "byUid" THEN "byEmail" ELSE "byEmailAgain")
        /\ UNCHANGED <<job, home>>
  /\ UNCHANGED <<users, requests, deletes>>

\* 2) Reconcile: a row of this email, under another uid.
FindByEmail(w) ==
  /\ pc[w] = "byEmail"
  /\ \/ \E i \in WithEmail(job[w].email) : Carry(w, i) /\ Goto(w, "relink")
     \/ WithEmail(job[w].email) = {} /\ Goto(w, "insert") /\ UNCHANGED job
  /\ UNCHANGED <<users, requests, deletes, home>>

\* (a slip) The constructor's arguments swapped.
NewRowSwapped(w) == [state |-> "active", uid |-> job[w].email, email |-> job[w].uid, version |-> 0]

NewRow(w) == [state |-> "active", uid |-> job[w].uid, email |-> job[w].email, version |-> 0]

\* (a slip) A failed insert is rethrown at once.
InsertOrFail(w) ==
  /\ pc[w] = "insert"
  /\ \/ \E i \in Ids :
          /\ users[i] = Absent
          /\ ~UidTaken(i, job[w].uid) /\ ~EmailTaken(i, job[w].email)
          /\ users' = [users EXCEPT ![i] = NewRow(w)]
          /\ Return(w, i)
     \/ /\ UidTaken(None, job[w].uid) \/ EmailTaken(None, job[w].email)
        /\ Conflict(w)
  /\ UNCHANGED <<requests, deletes>>

\* 3) Insert; a violated constraint rolls it back and leads to the re-reads.
Insert(w) ==
  /\ pc[w] = "insert"
  /\ \/ \E i \in Ids :
          /\ users[i] = Absent
          /\ ~UidTaken(i, job[w].uid) /\ ~EmailTaken(i, job[w].email)
          /\ users' = [users EXCEPT ![i] = NewRow(w)]
          /\ Return(w, i)
     \/ /\ UidTaken(None, job[w].uid) \/ EmailTaken(None, job[w].email)
        /\ Goto(w, "byUidAgain")
        /\ UNCHANGED <<users, job, home>>
  /\ UNCHANGED <<requests, deletes>>

\* Recovery: nothing found means a conflict that cannot be reconciled.
FindByEmailAgain(w) ==
  /\ pc[w] = "byEmailAgain"
  /\ \/ /\ \E i \in WithEmail(job[w].email) : Carry(w, i)
        /\ Goto(w, "relinkAgain")
        /\ UNCHANGED <<users, home>>
     \/ WithEmail(job[w].email) = {} /\ Conflict(w)
  /\ UNCHANGED <<requests, deletes>>

\* (a slip) The stale row is merged without a version: the last writer wins.
RelinkUnversioned(w) ==
  LET i == job[w].id IN
  /\ pc[w] \in {"relink", "relinkAgain"}
  /\ \/ /\ job[w].seen.uid = job[w].uid
        /\ Return(w, i)
        /\ UNCHANGED users
     \/ /\ job[w].seen.uid # job[w].uid
        /\ ~UidTaken(i, job[w].uid)
        /\ users' = [users EXCEPT ![i] = [job[w].seen EXCEPT !.uid = job[w].uid]]
        /\ Return(w, i)
     \/ /\ job[w].seen.uid # job[w].uid /\ UidTaken(i, job[w].uid)
        /\ Conflict(w)
  /\ UNCHANGED <<requests, deletes>>

\* relinkUid: nothing to do when the row read already had the uid; else merge
\* the detached row, which the version check and the uid constraint may refuse.
\* Neither caller of relinkUid catches that.
Relink(w) ==
  LET i     == job[w].id
      stale == users[i].state # "active" \/ users[i].version # job[w].seen.version
  IN
  /\ pc[w] \in {"relink", "relinkAgain"}
  /\ \/ /\ job[w].seen.uid = job[w].uid
        /\ Return(w, i)
        /\ UNCHANGED users
     \/ /\ job[w].seen.uid # job[w].uid /\ ~stale /\ ~UidTaken(i, job[w].uid)
        /\ users' = [users EXCEPT ![i].uid = job[w].uid, ![i].version = @ + 1]
        /\ Return(w, i)
     \/ /\ job[w].seen.uid # job[w].uid
        /\ stale \/ UidTaken(i, job[w].uid)
        /\ Conflict(w)
  /\ UNCHANGED <<requests, deletes>>

-----------------------------------------------------------------------------
(* What runs beside it. *)

\* updateProfile(uid, ..) after provisioning, one transaction: it looks the
\* row up by uid again, and answers 404 when it is not there.
Update(w) ==
  /\ pc[w] = "update"
  /\ Finish(w)
  /\ \/ \E i \in WithUid(job[w].uid) : users' = [users EXCEPT ![i].version = @ + 1]
     \/ WithUid(job[w].uid) = {} /\ UNCHANGED users
  /\ UNCHANGED <<requests, deletes, home>>

SoftDelete(i) ==
  /\ users[i].state = "active" /\ deletes < MaxDeletes
  /\ users' = [users EXCEPT ![i].state = "deleted", ![i].version = @ + 1]
  /\ deletes' = deletes + 1
  /\ UNCHANGED <<pc, job, requests, home>>

\* Restoring re-asserts the email index.
Restore(i) ==
  /\ users[i].state = "deleted"
  /\ ~EmailTaken(i, users[i].email)
  /\ users' = [users EXCEPT ![i].state = "active", ![i].version = @ + 1]
  /\ UNCHANGED <<pc, job, requests, deletes, home>>

\* Nobody has to send a request.
Rest == (\A w \in Workers : pc[w] = "idle") /\ UNCHANGED vars

Next ==
  \/ Rest
  \/ \E w \in Workers :
       \/ Request(w) \/ FindByUid(w) \/ FindByEmail(w) \/ Insert(w)
       \/ FindByEmailAgain(w) \/ Relink(w) \/ Update(w)
  \/ \E i \in Ids : SoftDelete(i) \/ Restore(i)

Spec == Init /\ [][Next]_vars

-----------------------------------------------------------------------------

\* "One human = one account": whatever uids a person signs in under and
\* however the requests interleave, every sign-in with an email is answered
\* by the same row, as long as no row has been soft-deleted.
OneHome == deletes = 0 => \A e \in Emails : \A i, k \in home[e] : i = k

\* Another request wrote the row that worker w found between w's read of it
\* and its merge: the version check of the relink will refuse.
Overtaken(w) ==
  pc[w] = "relinkAgain" /\ users[job[w].id].version # job[w].seen.version

\* A request whose insert lost ends in a 409: no row is written, and the one it
\* found, if any, is not yet its own.
LostFor(w) ==
  /\ \/ pc[w] \in {"insert", "byEmailAgain"}
     \/ pc[w] = "relinkAgain" /\ job[w].seen.uid # job[w].uid
  /\ pc'[w] = "idle" /\ users' = users

\* "A violation always corresponds to a row the app CAN see and reconcile
\* against": as long as no row has been soft-deleted, an insert that loses to a
\* concurrent one finds the winner's row, and ends in a 409 only if that row is
\* written once more between the re-read and the relink (provisionFromToken,
\* whose recovery calls relinkUid with nothing to catch a version conflict).
InsertRecovers ==
  [][deletes = 0 => \A w \in Workers : LostFor(w) => Overtaken(w)]_vars

\* "A soft-deleted row can never be the hidden cause of an unreconcilable
\* INSERT failure": no recovery gives up while a deleted row holds the uid.
DeletedNeverBlocks ==
  [][\A w \in Workers : pc[w] = "byEmailAgain" /\ pc'[w] = "idle"
       => \A i \in Ids : users[i].state = "deleted" => users[i].uid # job[w].uid]_vars

\* A soft-deleted row is beyond every sign-in: one that read it before the
\* deletion can neither bring it back nor change it.
DeletedStaysDeleted ==
  [][\A i \in Ids : users[i].state = "deleted" /\ users'[i] # users[i] => Restore(i)]_vars

\* "A race resolves to the single winning row": no relink ends in a 409.
RelinkResolves ==
  [][\A w \in Workers : pc[w] \in {"relink", "relinkAgain"} /\ pc'[w] # pc[w]
       /\ job[w].seen.uid # job[w].uid => users' # users]_vars

\* "The row is guaranteed to exist" for the update that follows provisioning.
UpdateFindsRow == \A w \in Workers : pc[w] = "update" => WithUid(job[w].uid) # {}
=============================================================================
