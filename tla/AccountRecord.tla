---------------------------- MODULE AccountRecord ----------------------------
(***************************************************************************)
(* The profile, role and switches of one users row, and its audit trail    *)
(* (UserService, AdminUserService, AuditService).                          *)
(*                                                                         *)
(* Every operation is one transaction at READ COMMITTED: it reads the row, *)
(* changes the entity and appends audit events; the commit flushes both,   *)
(* and other transactions commit between the read and the flush.           *)
(* Hibernate writes every column of a changed entity, "where version = the *)
(* version read"; an entity that ends as it was read is not written, and   *)
(* then nothing checks its version.                                        *)
(*                                                                         *)
(* The events of one commit are one entry here.                            *)
(***************************************************************************)
EXTENDS Integers, Sequences

CONSTANTS Workers,
          ProfileFields,  \* what updateProfile, updateLifecycle and editProfile write
          Values,
          Defaults,       \* the fields of a row as inserted
          Requests,       \* the requests clients may send
          MaxRequests     \* bound: requests

Fields == ProfileFields \cup {"role", "enabled", "accountType"}
Kinds  == {"profile", "role", "enabled", "accountType", "delete", "restore"}

\* A profile request is sparse: it sets the fields it names.
ASSUME RecordAssumption ==
  /\ ProfileFields \cap {"role", "enabled", "accountType"} = {}
  /\ Defaults \in [Fields -> Values]
  /\ \A r \in Requests :
       /\ r = [kind |-> r.kind, set |-> r.set] /\ r.kind \in Kinds
       /\ r.set \in [DOMAIN r.set -> Values]
       /\ r.kind = "profile" => DOMAIN r.set \subseteq ProfileFields
       /\ r.kind \in {"role", "enabled", "accountType"} => DOMAIN r.set = {r.kind}
       /\ r.kind \in {"delete", "restore"} => DOMAIN r.set = {}
  /\ MaxRequests \in Nat

VARIABLES row,      \* the users row
          audit,    \* the audit_events of the row, as committed
          pc, job,  \* per worker: where it is, its request, the row it read
          requests

vars == <<row, audit, pc, job, requests>>

Rows   == [val : [Fields -> Values], deleted : BOOLEAN, version : Nat]
NewRow == [val |-> Defaults, deleted |-> FALSE, version |-> 0]
NoRequest == [kind |-> "profile", set |-> << >>]

Sparse  == UNION {[S -> Values] : S \in SUBSET Fields}
Entries == [kind : Kinds, old : Sparse, new : Sparse]

TypeOK ==
  /\ row \in Rows
  /\ audit \in Seq(Entries)
  /\ pc \in [Workers -> {"idle", "read", "write"}]
  /\ job \in [Workers -> [request : Requests \cup {NoRequest}, seen : Rows]]
  /\ \A w \in Workers : pc[w] # "idle" => job[w].request \in Requests
  /\ requests \in Nat

Init ==
  /\ row = NewRow
  /\ audit = << >>
  /\ pc = [w \in Workers |-> "idle"]
  /\ job = [w \in Workers |-> [request |-> NoRequest, seen |-> NewRow]]
  /\ requests = 0

\* applyIfChanged: the fields whose requested value differs from the one read.
Changed(r, seen) == {f \in DOMAIN r.set : r.set[f] # seen.val[f]}

\* (a slip) A field the request leaves out is taken to be cleared.
WrittenNulls(r, seen) ==
  [val     |-> [f \in Fields |-> IF f \in DOMAIN r.set THEN r.set[f]
                                 ELSE IF r.kind = "profile" /\ f \in ProfileFields
                                        THEN "null" ELSE seen.val[f]],
   deleted |-> IF r.kind = "delete" THEN TRUE ELSE IF r.kind = "restore" THEN FALSE ELSE seen.deleted,
   version |-> seen.version + 1]

\* The row as the flush writes it: every column from the entity.
Written(r, seen) ==
  [val     |-> [f \in Fields |-> IF f \in DOMAIN r.set THEN r.set[f] ELSE seen.val[f]],
   deleted |-> IF r.kind = "delete" THEN TRUE ELSE IF r.kind = "restore" THEN FALSE ELSE seen.deleted,
   version |-> seen.version + 1]

\* Hibernate's dirty check.
Dirty(r, seen) ==
  \/ Changed(r, seen) # {}
  \/ r.kind = "delete"
  \/ r.kind = "restore" /\ seen.deleted

\* What the event says: a profile event lists the fields it changed, a role
\* event old and new even when they are equal, an enable or disable event only
\* the new state, in its name.
Named(r, seen) == IF r.kind = "profile" THEN Changed(r, seen) ELSE DOMAIN r.set

\* (a slip) The old value is read after the setter ran.
EventLate(r, seen) ==
  [kind |-> r.kind,
   old  |-> [f \in Named(r, seen) \ {"enabled"} |-> r.set[f]],
   new  |-> [f \in Named(r, seen) |-> r.set[f]]]

Event(r, seen) ==
  [kind |-> r.kind,
   old  |-> [f \in Named(r, seen) \ {"enabled"} |-> seen.val[f]],
   new  |-> [f \in Named(r, seen) |-> r.set[f]]]

Audited(r) == r.kind \in {"profile", "role", "enabled"}

-----------------------------------------------------------------------------

Goto(w, from, to) == pc[w] = from /\ pc' = [pc EXCEPT ![w] = to]

Request(w) ==
  /\ requests < MaxRequests
  /\ requests' = requests + 1
  /\ Goto(w, "idle", "read")
  /\ \E r \in Requests : job' = [job EXCEPT ![w].request = r]
  /\ UNCHANGED <<row, audit>>

\* The finder does not see a deleted row (404), except restore's own; a
\* profile request that would change nothing returns here.
Read(w) ==
  LET r == job[w].request IN
  /\ \/ /\ row.deleted /\ r.kind # "restore"
        /\ Goto(w, "read", "idle")
     \/ /\ r.kind = "profile" /\ ~row.deleted /\ Changed(r, row) = {}
        /\ Goto(w, "read", "idle")
     \/ /\ row.deleted => r.kind = "restore"
        /\ r.kind = "profile" => Changed(r, row) # {}
        /\ Goto(w, "read", "write")
  /\ job' = [job EXCEPT ![w].seen = row]
  /\ UNCHANGED <<row, audit, requests>>

\* (a slip) The entity carries no version.
CurrentAlways(seen) == TRUE

\* The version check of the UPDATE.
Current(seen) == row.version = seen.version

\* The flush and commit; a version that moved on rolls everything back (409).
Write(w) ==
  LET r    == job[w].request
      seen == job[w].seen
  IN
  /\ Goto(w, "write", "idle")
  /\ \/ /\ Dirty(r, seen) /\ Current(seen)
        /\ row' = Written(r, seen)
        /\ audit' = IF Audited(r) THEN Append(audit, Event(r, seen)) ELSE audit
     \/ /\ ~Dirty(r, seen)
        /\ audit' = IF Audited(r) THEN Append(audit, Event(r, seen)) ELSE audit
        /\ UNCHANGED row
     \/ /\ Dirty(r, seen) /\ ~Current(seen)
        /\ UNCHANGED <<row, audit>>
  /\ UNCHANGED <<job, requests>>

\* The instance or its connection dies before the commit.
Crash(w) ==
  /\ pc[w] # "idle"
  /\ pc' = [pc EXCEPT ![w] = "idle"]
  /\ UNCHANGED <<row, audit, job, requests>>

\* Nobody has to send a request.
Rest == (\A w \in Workers : pc[w] = "idle") /\ UNCHANGED vars

Next ==
  \/ Rest
  \/ \E w \in Workers : Request(w) \/ Read(w) \/ Write(w) \/ Crash(w)

Spec == Init /\ [][Next]_vars

-----------------------------------------------------------------------------

\* The entries that changed field f, and the value each left behind and found.
Changes(f) == {n \in 1 .. Len(audit) : f \in DOMAIN audit[n].old /\ audit[n].old[f] # audit[n].new[f]}
Left(f, m)  == IF m = 0 THEN Defaults[f] ELSE audit[m].new[f]
Found(f, n) == IF n = Len(audit) + 1 THEN row.val[f] ELSE audit[n].old[f]

\* The trail explains the row: for every profile field and the role, each
\* change starts from the value the change before it left, the first from the
\* default, and the last one left what the row holds.  So no edit is lost and
\* none is recorded that did not happen ("a rejected optimistic-lock write
\* leaves no orphan audit event").
AuditChain ==
  \A f \in ProfileFields \cup {"role"} :
    \A m \in Changes(f) \cup {0} : \A n \in Changes(f) \cup {Len(audit) + 1} :
      m < n /\ (\A k \in Changes(f) : k <= m \/ n <= k) => Found(f, n) = Left(f, m)

\* "A PATCH that touches only one field never clobbers the others": whatever
\* field a step changes, the worker that commits asked for that value, and it
\* had read the value it replaces.
NoLostUpdate ==
  [][\A f \in Fields : row'.val[f] # row.val[f] =>
       \E w \in Workers : /\ pc[w] = "write" /\ pc'[w] = "idle"
                          /\ f \in DOMAIN job[w].request.set
                          /\ row'.val[f] = job[w].request.set[f]
                          /\ row.val[f] = job[w].seen.val[f]]_vars

\* A transaction that read the row before it was deleted changes it no more,
\* and one that read it deleted does not bring back a row deleted again: only
\* restore lifts the mark, and it keeps every field.
DeletedKept ==
  [][row.deleted /\ row' # row =>
       /\ ~row'.deleted /\ row'.val = row.val
       /\ \E w \in Workers : pc[w] = "write" /\ job[w].request.kind = "restore"]_vars

\* "The action name itself (ACCOUNT_ENABLED vs ACCOUNT_DISABLED) carries the
\* whole story": the last such event names the state the row is in.
EnabledStory ==
  \A n \in 1 .. Len(audit) :
    /\ audit[n].kind = "enabled"
    /\ \A k \in n + 1 .. Len(audit) : audit[k].kind # "enabled"
    => audit[n].new["enabled"] = row.val["enabled"]
=============================================================================
