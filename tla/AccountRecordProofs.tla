------------------------- MODULE AccountRecordProofs -------------------------
(***************************************************************************)
(* For every set of workers, fields, values and requests: the audit trail  *)
(* explains the row, no edit is lost, and a deleted row is left alone.     *)
(***************************************************************************)
EXTENDS AccountRecord, TLAPS

\* A transaction about to write read a version the row has had; if the row
\* still has it, the row is as it was read.
SeenOK(w) ==
  pc[w] = "write" =>
    /\ job[w].seen.version <= row.version
    /\ job[w].seen.version = row.version => job[w].seen = row
    /\ job[w].seen.deleted => job[w].request.kind = "restore"

\* AuditChain for one field.
Chain(f) ==
  \A m \in Changes(f) \cup {0} : \A n \in Changes(f) \cup {Len(audit) + 1} :
    m < n /\ (\A k \in Changes(f) : k <= m \/ n <= k) => Found(f, n) = Left(f, m)

Explained == ProfileFields \cup {"role"}

IInv == TypeOK /\ (\A w \in Workers : SeenOK(w)) /\ (\A f \in Explained : Chain(f))

LEMMA RequestFacts ==
  ASSUME NEW r \in Requests
  PROVE  /\ r.kind \in Kinds
         /\ DOMAIN r.set \subseteq Fields
         /\ \A f \in DOMAIN r.set : r.set[f] \in Values
         /\ r.kind \in {"delete", "restore"} => DOMAIN r.set = {}
         /\ \A f \in Explained : f \in DOMAIN r.set => r.kind \in {"profile", "role"}
  <1>1. /\ r.kind \in Kinds
        /\ r.set \in [DOMAIN r.set -> Values]
        /\ r.kind = "profile" => DOMAIN r.set \subseteq ProfileFields
        /\ r.kind \in {"role", "enabled", "accountType"} => DOMAIN r.set = {r.kind}
        /\ r.kind \in {"delete", "restore"} => DOMAIN r.set = {}
        /\ ProfileFields \cap {"role", "enabled", "accountType"} = {}
    BY RecordAssumption
  <1> QED BY <1>1 DEF Kinds, Fields, Explained

LEMMA WrittenFacts ==
  ASSUME NEW r \in Requests, NEW s \in Rows
  PROVE  /\ Written(r, s) \in Rows
         /\ Written(r, s).version = s.version + 1
         /\ \A f \in DOMAIN r.set : Written(r, s).val[f] = r.set[f]
         /\ \A f \in Fields \ DOMAIN r.set : Written(r, s).val[f] = s.val[f]
  <1>1. s.val \in [Fields -> Values] /\ s.deleted \in BOOLEAN /\ s.version \in Nat
    BY DEF Rows
  <1>2. [f \in Fields |-> IF f \in DOMAIN r.set THEN r.set[f] ELSE s.val[f]] \in [Fields -> Values]
    BY <1>1, RequestFacts
  <1>3. (IF r.kind = "delete" THEN TRUE ELSE IF r.kind = "restore" THEN FALSE ELSE s.deleted) \in BOOLEAN
    BY <1>1
  <1>4. s.version + 1 \in Nat BY <1>1
  <1> QED BY <1>2, <1>3, <1>4, RequestFacts DEF Written, Rows

LEMMA NamedFacts ==
  ASSUME NEW r \in Requests, NEW s \in Rows
  PROVE  Named(r, s) \subseteq DOMAIN r.set
  BY DEF Named, Changed

LEMMA EventFacts ==
  ASSUME NEW r \in Requests, NEW s \in Rows
  PROVE  /\ Event(r, s) \in Entries
         /\ DOMAIN Event(r, s).old = Named(r, s) \ {"enabled"}
         /\ \A f \in Named(r, s) \ {"enabled"} : Event(r, s).old[f] = s.val[f]
         /\ \A f \in Named(r, s) : Event(r, s).new[f] = r.set[f]
  <1> DEFINE old == [f \in Named(r, s) \ {"enabled"} |-> s.val[f]]
             new == [f \in Named(r, s) |-> r.set[f]]
  <1>1. Named(r, s) \subseteq Fields BY NamedFacts, RequestFacts
  <1>2. s.val \in [Fields -> Values] BY DEF Rows
  <1>3. old \in [Named(r, s) \ {"enabled"} -> Values] BY <1>1, <1>2
  <1>4. new \in [Named(r, s) -> Values] BY NamedFacts, RequestFacts
  <1>5. old \in Sparse /\ new \in Sparse BY <1>1, <1>3, <1>4 DEF Sparse
  <1>6. Event(r, s) = [kind |-> r.kind, old |-> old, new |-> new] BY DEF Event
  <1>7. Event(r, s) \in Entries BY <1>5, <1>6, RequestFacts DEF Entries
  <1> QED BY <1>6, <1>7

\* An entry that does not change f leaves the chain of f as it was.
LEMMA ChainSkipped ==
  ASSUME audit \in Seq(Entries), NEW f \in Explained, Chain(f),
         row'.val[f] = row.val[f],
         \/ audit' = audit
         \/ \E e \in Entries : /\ audit' = Append(audit, e)
                               /\ f \in DOMAIN e.old => e.old[f] = e.new[f]
  PROVE  Chain(f)'
  <1>1. CASE audit' = audit
    <2>1. Changes(f)' = Changes(f) BY <1>1 DEF Changes
    <2>2. \A m : Left(f, m)' = Left(f, m) BY <1>1 DEF Left
    <2>3. \A n : Found(f, n)' = Found(f, n) BY <1>1 DEF Found
    <2> QED BY <1>1, <2>1, <2>2, <2>3 DEF Chain
  <1>2. ASSUME NEW e \in Entries, audit' = Append(audit, e),
               f \in DOMAIN e.old => e.old[f] = e.new[f]
        PROVE  Chain(f)'
    <2> SUFFICES ASSUME NEW L \in Nat, L = Len(audit) PROVE Chain(f)'
      OBVIOUS
    <2>1. /\ Len(audit') = L + 1 /\ L \in Nat /\ audit'[L + 1] = e
          /\ \A n \in 1 .. L : audit'[n] = audit[n]
      BY <1>2
    <2>2. Changes(f)' = Changes(f) /\ Changes(f) \subseteq 1 .. L
      BY <1>2, <2>1 DEF Changes
    <2>3. \A m \in Changes(f) \cup {0} : Left(f, m)' = Left(f, m)
      BY <2>1, <2>2 DEF Left
    <2>4. \A n \in Changes(f) : Found(f, n)' = Found(f, n)
      BY <2>1, <2>2 DEF Found
    <2>5. Found(f, L + 2)' = Found(f, L + 1)
      BY <2>1 DEF Found
    <2> SUFFICES ASSUME NEW m \in Changes(f) \cup {0}, NEW n \in Changes(f) \cup {L + 2},
                        m < n, \A k \in Changes(f) : k <= m \/ n <= k
                 PROVE  Found(f, n)' = Left(f, m)'
      BY <2>1, <2>2 DEF Chain
    <2>6. CASE n \in Changes(f) BY <2>3, <2>4, <2>6 DEF Chain
    <2>7. CASE n = L + 2
      <3>1. m < L + 1 /\ \A k \in Changes(f) : k <= m \/ L + 1 <= k
        BY <2>1, <2>2, <2>7
      <3> QED BY <2>3, <2>5, <2>7, <3>1 DEF Chain
    <2> QED BY <2>6, <2>7
  <1> QED BY <1>1, <1>2

\* An entry that changes f from the row's value to its new one extends it.
LEMMA ChainExtended ==
  ASSUME audit \in Seq(Entries), NEW f \in Explained, Chain(f),
         NEW e \in Entries, audit' = Append(audit, e),
         f \in DOMAIN e.old, e.old[f] # e.new[f],
         e.old[f] = row.val[f], row'.val[f] = e.new[f]
  PROVE  Chain(f)'
  <1> SUFFICES ASSUME NEW L \in Nat, L = Len(audit) PROVE Chain(f)'
    OBVIOUS
  <1>1. /\ Len(audit') = L + 1 /\ L \in Nat /\ audit'[L + 1] = e
        /\ \A n \in 1 .. L : audit'[n] = audit[n]
    OBVIOUS
  <1>2. Changes(f)' = Changes(f) \cup {L + 1} /\ Changes(f) \subseteq 1 .. L
    BY <1>1 DEF Changes
  <1>3. \A m \in Changes(f) \cup {0} : Left(f, m)' = Left(f, m)
    BY <1>1, <1>2 DEF Left
  <1>4. \A n \in Changes(f) \cup {L + 1} : Found(f, n)' = Found(f, n)
    BY <1>1, <1>2 DEF Found
  <1>5. Found(f, L + 2)' = Left(f, L + 1)'
    BY <1>1 DEF Found, Left
  <1> SUFFICES ASSUME NEW m \in Changes(f) \cup {0, L + 1}, NEW n \in Changes(f) \cup {L + 1, L + 2},
                      m < n, \A k \in Changes(f) \cup {L + 1} : k <= m \/ n <= k
               PROVE  Found(f, n)' = Left(f, m)'
    BY <1>1, <1>2 DEF Chain
  <1>6. CASE n \in Changes(f) \cup {L + 1}
    <2>1. m \in Changes(f) \cup {0} BY <1>1, <1>2, <1>6
    <2> QED BY <1>3, <1>4, <1>6, <2>1 DEF Chain
  <1>7. CASE n = L + 2
    <2>1. m = L + 1 BY <1>1, <1>2, <1>7
    <2> QED BY <1>5, <1>7, <2>1
  <1> QED BY <1>6, <1>7

-----------------------------------------------------------------------------

LEMMA InitIInv == Init => IInv
  <1> SUFFICES ASSUME Init PROVE IInv
    OBVIOUS
  <1>1. NewRow \in Rows BY RecordAssumption DEF NewRow, Rows
  <1>2. TypeOK BY <1>1 DEF Init, TypeOK
  <1>3. \A w \in Workers : SeenOK(w) BY DEF Init, SeenOK
  <1>4. \A f \in Explained : Chain(f)
    <2> SUFFICES ASSUME NEW f \in Explained PROVE Chain(f)
      OBVIOUS
    <2>1. Len(audit) = 0 /\ Changes(f) = {} BY DEF Init, Changes
    <2>2. Found(f, 1) = Defaults[f] BY <2>1 DEF Found, Init, NewRow
    <2>3. Left(f, 0) = Defaults[f] BY DEF Left
    <2> QED BY <2>1, <2>2, <2>3 DEF Chain
  <1> QED BY <1>2, <1>3, <1>4 DEF IInv

\* A step that writes nothing.
LEMMA SameChain ==
  ASSUME IInv, UNCHANGED <<row, audit>>
  PROVE  \A f \in Explained : Chain(f)'
  BY ChainSkipped DEF IInv, TypeOK

\* What the commit of a dirty entity does: the row was as read.
LEMMA DirtyWrite ==
  ASSUME IInv, NEW w \in Workers, pc[w] = "write", Current(job[w].seen),
         row' = Written(job[w].request, job[w].seen)
  PROVE  /\ job[w].request \in Requests /\ job[w].seen = row /\ row \in Rows
         /\ row' = Written(job[w].request, row)
  BY DEF IInv, TypeOK, SeenOK, Current

LEMMA WriteChain ==
  ASSUME IInv, NEW w \in Workers, Write(w), NEW f \in Explained
  PROVE  Chain(f)'
  <1> DEFINE r == job[w].request
             s == job[w].seen
  <1>0. /\ pc[w] = "write" /\ r \in Requests /\ s \in Rows /\ row \in Rows
        /\ audit \in Seq(Entries) /\ Chain(f) /\ f \in Fields
    BY DEF Write, Goto, IInv, TypeOK, Explained, Fields
  <1>f. f # "enabled" BY RecordAssumption DEF Explained
  <1>1. CASE /\ row' = Written(r, s) /\ Current(s)
             /\ audit' = IF Audited(r) THEN Append(audit, Event(r, s)) ELSE audit
    <2>1. s = row /\ row' = Written(r, row) BY <1>0, <1>1, DirtyWrite
    <2>2. CASE f \in Changed(r, row)
      <3>1. f \in DOMAIN r.set /\ r.set[f] # row.val[f] BY <2>2 DEF Changed
      <3>2. r.kind \in {"profile", "role"} BY <1>0, <3>1, RequestFacts
      <3>3. f \in Named(r, row) BY <2>2, <3>1 DEF Named
      <3>4. /\ f \in DOMAIN Event(r, row).old
            /\ Event(r, row).old[f] = row.val[f] /\ Event(r, row).new[f] = r.set[f]
            /\ Event(r, row) \in Entries
        BY <1>0, <1>f, <3>3, EventFacts
      <3>5. row'.val[f] = r.set[f] BY <1>0, <2>1, <3>1, WrittenFacts
      <3>6. audit' = Append(audit, Event(r, row)) BY <1>1, <2>1, <3>2 DEF Audited
      <3> QED BY <1>0, <3>1, <3>4, <3>5, <3>6, ChainExtended
    <2>3. CASE f \notin Changed(r, row)
      <3>1. row'.val[f] = row.val[f]
        BY <1>0, <2>1, <2>3, WrittenFacts DEF Changed
      <3>2. f \in DOMAIN Event(r, row).old => Event(r, row).old[f] = Event(r, row).new[f]
        <4> SUFFICES ASSUME f \in DOMAIN Event(r, row).old
                     PROVE  Event(r, row).old[f] = Event(r, row).new[f]
          OBVIOUS
        <4>1. f \in Named(r, row) BY <1>0, EventFacts
        <4>2. f \in DOMAIN r.set BY <1>0, <4>1, NamedFacts
        <4> QED BY <1>0, <1>f, <2>3, <4>1, <4>2, EventFacts DEF Changed
      <3>3. Event(r, row) \in Entries BY <1>0, EventFacts
      <3> QED BY <1>0, <1>1, <2>1, <3>1, <3>2, <3>3, ChainSkipped
    <2> QED BY <2>2, <2>3
  <1>2. CASE /\ ~Dirty(r, s) /\ UNCHANGED row
             /\ audit' = IF Audited(r) THEN Append(audit, Event(r, s)) ELSE audit
    <2>1. f \in DOMAIN Event(r, s).old => Event(r, s).old[f] = Event(r, s).new[f]
      <3> SUFFICES ASSUME f \in DOMAIN Event(r, s).old
                   PROVE  Event(r, s).old[f] = Event(r, s).new[f]
        OBVIOUS
      <3>1. f \in Named(r, s) BY <1>0, EventFacts
      <3>2. f \in DOMAIN r.set BY <1>0, <3>1, NamedFacts
      <3>3. r.set[f] = s.val[f] BY <1>2, <3>2 DEF Dirty, Changed
      <3> QED BY <1>0, <1>f, <3>1, <3>3, EventFacts
    <2>2. Event(r, s) \in Entries BY <1>0, EventFacts
    <2> QED BY <1>0, <1>2, <2>1, <2>2, ChainSkipped
  <1>3. CASE UNCHANGED <<row, audit>> BY <1>3, SameChain
  <1> QED BY <1>1, <1>2, <1>3 DEF Write

LEMMA Step == IInv /\ [Next]_vars => IInv'
  <1> SUFFICES ASSUME IInv, [Next]_vars PROVE IInv'
    OBVIOUS
  <1>0. /\ row \in Rows /\ audit \in Seq(Entries) /\ requests \in Nat
        /\ pc \in [Workers -> {"idle", "read", "write"}]
        /\ job \in [Workers -> [request : Requests \cup {NoRequest}, seen : Rows]]
        /\ \A w \in Workers : pc[w] # "idle" => job[w].request \in Requests
    BY DEF IInv, TypeOK
  <1>1. ASSUME NEW w \in Workers, Request(w) PROVE IInv'
    <2>1. PICK r \in Requests : job' = [job EXCEPT ![w].request = r]
      BY <1>1 DEF Request
    <2>2. /\ job' \in [Workers -> [request : Requests \cup {NoRequest}, seen : Rows]]
          /\ job'[w].request = r /\ \A v \in Workers \ {w} : job'[v] = job[v]
      BY <1>0, <2>1
    <2>3. /\ pc' \in [Workers -> {"idle", "read", "write"}] /\ pc'[w] = "read"
          /\ \A v \in Workers \ {w} : pc'[v] = pc[v]
      BY <1>0, <1>1 DEF Request, Goto
    <2>4. TypeOK' BY <1>0, <1>1, <2>2, <2>3 DEF Request, TypeOK
    <2>5. \A v \in Workers : SeenOK(v)' BY <1>1, <2>2, <2>3 DEF Request, IInv, SeenOK
    <2> QED BY <1>1, <2>4, <2>5, SameChain DEF Request, IInv
  <1>2. ASSUME NEW w \in Workers, Read(w) PROVE IInv'
    <2>1. /\ pc[w] = "read" /\ pc'[w] \in {"idle", "write"}
          /\ pc' \in [Workers -> {"idle", "read", "write"}]
          /\ \A v \in Workers \ {w} : pc'[v] = pc[v]
          /\ pc'[w] = "write" /\ row.deleted => job[w].request.kind = "restore"
      BY <1>0, <1>2 DEF Read, Goto
    <2>2. /\ job' \in [Workers -> [request : Requests \cup {NoRequest}, seen : Rows]]
          /\ job'[w].request = job[w].request /\ job'[w].seen = row
          /\ \A v \in Workers \ {w} : job'[v] = job[v]
      BY <1>0, <1>2 DEF Read
    <2>3. TypeOK' BY <1>0, <1>2, <2>1, <2>2 DEF Read, TypeOK
    <2>4. row.version \in Nat BY <1>0 DEF Rows
    <2>5. SeenOK(w)' BY <1>2, <2>1, <2>2, <2>4 DEF Read, SeenOK
    <2>6. \A v \in Workers : SeenOK(v)' BY <1>2, <2>1, <2>2, <2>5 DEF Read, IInv, SeenOK
    <2> QED BY <1>2, <2>3, <2>6, SameChain DEF Read, IInv
  <1>3. ASSUME NEW w \in Workers, Write(w) PROVE IInv'
    <2> DEFINE r == job[w].request
               s == job[w].seen
    <2>1. /\ pc[w] = "write" /\ pc'[w] = "idle" /\ UNCHANGED <<job, requests>>
          /\ pc' \in [Workers -> {"idle", "read", "write"}]
          /\ \A v \in Workers \ {w} : pc'[v] = pc[v]
          /\ r \in Requests /\ s \in Rows
      BY <1>0, <1>3 DEF Write, Goto
    <2>2. audit' \in Seq(Entries)
      <3>1. Event(r, s) \in Entries BY <2>1, EventFacts
      <3> QED BY <1>0, <1>3, <3>1 DEF Write
    <2>3. row' \in Rows /\ (row' = row \/ row'.version = row.version + 1)
      <3>1. CASE Current(s) /\ row' = Written(r, s)
        BY <2>1, <3>1, DirtyWrite, WrittenFacts
      <3>2. CASE UNCHANGED row BY <1>0, <3>2
      <3> QED BY <1>3, <3>1, <3>2 DEF Write
    <2>4. TypeOK' BY <1>0, <2>1, <2>2, <2>3 DEF TypeOK
    <2>5. ASSUME NEW v \in Workers PROVE SeenOK(v)'
      <3>1. row.version \in Nat /\ job[v].seen.version \in Nat BY <1>0 DEF Rows
      <3> QED BY <2>1, <2>3, <3>1 DEF IInv, SeenOK
    <2> QED BY <1>3, <2>4, <2>5, WriteChain DEF IInv
  <1>4. ASSUME NEW w \in Workers, Crash(w) PROVE IInv'
    <2>1. TypeOK' BY <1>0, <1>4 DEF Crash, TypeOK
    <2>2. \A v \in Workers : SeenOK(v)' BY <1>0, <1>4 DEF Crash, IInv, SeenOK
    <2> QED BY <1>4, <2>1, <2>2, SameChain DEF Crash, IInv
  <1>5. CASE UNCHANGED vars
    <2>1. UNCHANGED <<row, audit, pc, job, requests>> BY <1>5 DEF vars
    <2>2. TypeOK' BY <1>0, <2>1 DEF TypeOK
    <2>3. \A v \in Workers : SeenOK(v)' BY <2>1 DEF IInv, SeenOK
    <2> QED BY <2>1, <2>2, <2>3, SameChain DEF IInv
  <1> QED BY <1>1, <1>2, <1>3, <1>4, <1>5 DEF Next, Rest

\* The audit trail explains the row, whoever commits in whatever order
\* (UserService.updateProfile and updateLifecycle, AdminUserService.changeRole
\* and editProfile, under the version check of BaseEntity).
THEOREM AuditSafe == Spec => [](TypeOK /\ AuditChain)
  <1>1. IInv => TypeOK /\ AuditChain
    BY DEF IInv, AuditChain, Chain, Explained
  <1> QED BY <1>1, InitIInv, Step, PTL DEF Spec

\* No edit, crash or stale write leaves the row without one of its fields.
THEOREM TypesSafe == Spec => []TypeOK
  <1>1. IInv => TypeOK BY DEF IInv
  <1> QED BY <1>1, InitIInv, Step, PTL DEF Spec

\* A worker's commit is the only step that changes the row.
LEMMA RowStep ==
  ASSUME IInv, Next, row' # row
  PROVE  \E w \in Workers : Write(w) /\ row' = Written(job[w].request, row)
                            /\ job[w].seen = row /\ job[w].request \in Requests
                            /\ pc[w] = "write" /\ pc'[w] = "idle"
  <1>1. PICK w \in Workers : Write(w)
    BY DEF Next, Request, Read, Crash, Rest, vars
  <1>2. pc[w] = "write" /\ pc'[w] = "idle"
    BY <1>1 DEF Write, Goto, IInv, TypeOK
  <1>3. Current(job[w].seen) /\ row' = Written(job[w].request, job[w].seen)
    BY <1>1 DEF Write
  <1> QED BY <1>1, <1>2, <1>3, DirtyWrite

\* No field changes but by a commit that asked for the change and had read the
\* value it replaces.
THEOREM EditSafe == Spec => NoLostUpdate
  <1> DEFINE A == \A f \in Fields : row'.val[f] # row.val[f] =>
                    \E w \in Workers : /\ pc[w] = "write" /\ pc'[w] = "idle"
                                       /\ f \in DOMAIN job[w].request.set
                                       /\ row'.val[f] = job[w].request.set[f]
                                       /\ row.val[f] = job[w].seen.val[f]
  <1>1. IInv /\ [Next]_vars => [A]_vars
    <2> SUFFICES ASSUME IInv, Next, NEW f \in Fields, row'.val[f] # row.val[f]
                 PROVE  \E w \in Workers : /\ pc[w] = "write" /\ pc'[w] = "idle"
                                           /\ f \in DOMAIN job[w].request.set
                                           /\ row'.val[f] = job[w].request.set[f]
                                           /\ row.val[f] = job[w].seen.val[f]
      OBVIOUS
    <2>1. PICK w \in Workers : /\ row' = Written(job[w].request, row)
                               /\ job[w].seen = row /\ job[w].request \in Requests
                               /\ pc[w] = "write" /\ pc'[w] = "idle"
      BY RowStep
    <2>2. row \in Rows BY DEF IInv, TypeOK
    <2>3. f \in DOMAIN job[w].request.set /\ row'.val[f] = job[w].request.set[f]
      BY <2>1, <2>2, WrittenFacts
    <2> QED BY <2>1, <2>3
  <1> QED BY <1>1, InitIInv, Step, PTL DEF Spec, NoLostUpdate

\* Only restore touches a deleted row (UserService.softDelete and restore).
THEOREM DeletionSafe == Spec => DeletedKept
  <1> DEFINE A == row.deleted /\ row' # row =>
                    /\ ~row'.deleted /\ row'.val = row.val
                    /\ \E w \in Workers : pc[w] = "write" /\ job[w].request.kind = "restore"
  <1>1. IInv /\ [Next]_vars => [A]_vars
    <2> SUFFICES ASSUME IInv, Next, row.deleted, row' # row
                 PROVE  /\ ~row'.deleted /\ row'.val = row.val
                        /\ \E w \in Workers : pc[w] = "write" /\ job[w].request.kind = "restore"
      OBVIOUS
    <2>1. PICK w \in Workers : /\ row' = Written(job[w].request, row)
                               /\ job[w].seen = row /\ job[w].request \in Requests
                               /\ pc[w] = "write"
      BY RowStep
    <2>2. job[w].request.kind = "restore" BY <2>1 DEF IInv, SeenOK
    <2>3. DOMAIN job[w].request.set = {} BY <2>1, <2>2, RequestFacts
    <2>4. row.val \in [Fields -> Values] BY DEF IInv, TypeOK, Rows
    <2>5. row'.val = row.val BY <2>1, <2>3, <2>4 DEF Written
    <2>6. ~row'.deleted BY <2>1, <2>2 DEF Written
    <2> QED BY <2>1, <2>2, <2>5, <2>6
  <1> QED BY <1>1, InitIInv, Step, PTL DEF Spec, DeletedKept
=============================================================================
