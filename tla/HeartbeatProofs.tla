--------------------------- MODULE HeartbeatProofs ---------------------------
(***************************************************************************)
(* For any number of instances and threads, any window, with saves,        *)
(* restarts and failed commits anywhere: what the throttled UPDATE and the *)
(* map in front of it guarantee together.                                  *)
(***************************************************************************)
EXTENDS Heartbeat, TLAPS

\* A write under way holds the row's lock, and is still due: nobody else
\* changes last_active_at until it commits.
Locked ==
  \A w \in Workers : pc[w] \in {"put", "commit"} => lock = w /\ Stale(last, job[w].now)

\* The row shows the last heartbeat that was written.
RowShows ==
  "save" \notin lost =>
    last = IF writes = << >> THEN Never ELSE writes[Len(writes)]

\* An entry of a map is at most as late as the row, or as what is about to
\* be committed by a request of its instance.
Backed(i) ==
  stamped[i] # Never =>
    \/ last # Never /\ last >= stamped[i]
    \/ \E v \in Workers : pc[v] = "commit" /\ Host[v] = i /\ job[v].now = stamped[i]

MapOK == lost = {} => \A i \in Instances : Backed(i)

IInv == TypeOK /\ Locked /\ RowShows /\ OneWritePerWindow /\ MapOK

Jobs == [now : Nat, last : Times, version : Nat]

-----------------------------------------------------------------------------

LEMMA InitIInv == Init => IInv
  <1> SUFFICES ASSUME Init PROVE IInv
    OBVIOUS
  <1>1. TypeOK BY HeartbeatAssumption DEF Init, TypeOK, Times
  <1>2. Locked BY DEF Init, Locked
  <1>3. RowShows BY DEF Init, RowShows
  <1>4. OneWritePerWindow BY DEF Init, OneWritePerWindow, OneRealWrite
  <1>5. MapOK BY DEF Init, MapOK, Backed
  <1> QED BY <1>1, <1>2, <1>3, <1>4, <1>5 DEF IInv

LEMMA GotoFacts ==
  ASSUME TypeOK, NEW w \in Workers, NEW from,
         NEW to \in {"idle", "look", "update", "put", "commit", "save"}, Goto(w, from, to)
  PROVE  /\ pc[w] = from /\ pc'[w] = to
         /\ \A v \in Workers \ {w} : pc'[v] = pc[v]
         /\ pc' \in [Workers -> {"idle", "look", "update", "put", "commit", "save"}]
  BY DEF TypeOK, Goto

\* A step that leaves the row, the maps and the histories alone, and in which
\* no request begins or ends a write.
LEMMA Quiet ==
  ASSUME IInv, TypeOK', UNCHANGED <<last, stamped, writes, lost>>,
         \A w \in Workers : pc'[w] \in {"put", "commit"} <=> pc[w] \in {"put", "commit"},
         \A w \in Workers : pc'[w] = "commit" <=> pc[w] = "commit",
         \A w \in Workers : pc[w] \in {"put", "commit"} => lock' = lock /\ job'[w] = job[w]
  PROVE  IInv'
  <1>1. Locked' BY DEF IInv, Locked, Stale
  <1>2. RowShows' BY DEF IInv, RowShows
  <1>3. OneWritePerWindow' BY DEF IInv, OneWritePerWindow, OneRealWrite
  <1>4. MapOK'
    <2> SUFFICES ASSUME lost = {}, NEW i \in Instances PROVE Backed(i)'
      BY DEF MapOK
    <2>1. Backed(i) BY DEF IInv, MapOK
    <2> QED BY <2>1 DEF Backed
  <1> QED BY <1>1, <1>2, <1>3, <1>4 DEF IInv

LEMMA TickStep == ASSUME IInv, Tick PROVE IInv'
  <1>1. TypeOK' BY DEF IInv, TypeOK, Tick
  <1> QED BY <1>1, Quiet DEF Tick

LEMMA TouchStep == ASSUME IInv, NEW w \in Workers, Touch(w) PROVE IInv'
  <1>0. TypeOK BY DEF IInv
  <1>1. pc[w] = "idle" /\ pc'[w] = "look" /\ \A v \in Workers \ {w} : pc'[v] = pc[v]
    BY <1>0, GotoFacts DEF Touch
  <1>2. [job[w] EXCEPT !.now = clock] \in Jobs BY <1>0 DEF TypeOK, Jobs
  <1>3. job' \in [Workers -> Jobs] /\ \A v \in Workers \ {w} : job'[v] = job[v]
    BY <1>0, <1>2 DEF Touch, TypeOK, Jobs
  <1>4. TypeOK' BY <1>0, <1>3, GotoFacts DEF Touch, TypeOK, Jobs
  <1> QED BY <1>1, <1>3, <1>4, Quiet DEF Touch

LEMMA LookStep == ASSUME IInv, NEW w \in Workers, Look(w) PROVE IInv'
  <1>0. TypeOK BY DEF IInv
  <1> DEFINE to == IF Recent(stamped[Host[w]], job[w].now) THEN "idle" ELSE "update"
  <1>1. /\ pc[w] = "look" /\ pc'[w] = to /\ \A v \in Workers \ {w} : pc'[v] = pc[v]
        /\ pc' \in [Workers -> {"idle", "look", "update", "put", "commit", "save"}]
    BY <1>0, GotoFacts DEF Look
  <1>2. TypeOK' BY <1>0, <1>1 DEF Look, TypeOK
  <1> QED BY <1>1, <1>2, Quiet DEF Look

LEMMA BulkUpdateStep == ASSUME IInv, NEW w \in Workers, BulkUpdate(w) PROVE IInv'
  <1>0. TypeOK /\ Nobody \notin Workers BY HeartbeatAssumption DEF IInv
  <1>1. \A v \in Workers : pc[v] \notin {"put", "commit"}
    BY <1>0 DEF BulkUpdate, IInv, Locked
  <1>2. CASE Stale(last, job[w].now) /\ lock' = w /\ Goto(w, "update", "put")
    <2>1. /\ pc'[w] = "put" /\ \A v \in Workers \ {w} : pc'[v] = pc[v]
          /\ pc' \in [Workers -> {"idle", "look", "update", "put", "commit", "save"}]
      BY <1>0, <1>2, GotoFacts
    <2>2. TypeOK' BY <1>0, <1>2, <2>1 DEF BulkUpdate, TypeOK
    <2>3. Locked' BY <1>1, <1>2, <2>1 DEF BulkUpdate, Locked, Stale
    <2>4. RowShows' /\ OneWritePerWindow'
      BY DEF BulkUpdate, IInv, RowShows, OneWritePerWindow, OneRealWrite
    <2>5. MapOK'
      BY <1>1 DEF BulkUpdate, IInv, MapOK, Backed
    <2> QED BY <2>2, <2>3, <2>4, <2>5 DEF IInv
  <1>3. CASE Goto(w, "update", "idle") /\ UNCHANGED lock
    <2>1. /\ pc'[w] = "idle" /\ \A v \in Workers \ {w} : pc'[v] = pc[v]
          /\ pc' \in [Workers -> {"idle", "look", "update", "put", "commit", "save"}]
      BY <1>0, <1>3, GotoFacts
    <2>2. TypeOK' BY <1>0, <1>3, <2>1 DEF BulkUpdate, TypeOK
    <2> QED BY <1>1, <2>1, <2>2, Quiet DEF BulkUpdate
  <1> QED BY <1>2, <1>3 DEF BulkUpdate

LEMMA PutStep == ASSUME IInv, NEW w \in Workers, Put(w) PROVE IInv'
  <1>0. TypeOK BY DEF IInv
  <1>1. /\ pc[w] = "put" /\ pc'[w] = "commit" /\ \A v \in Workers \ {w} : pc'[v] = pc[v]
        /\ pc' \in [Workers -> {"idle", "look", "update", "put", "commit", "save"}]
    BY <1>0, GotoFacts DEF Put
  <1>2. job[w].now \in Nat /\ Host[w] \in Instances BY <1>0, HeartbeatAssumption DEF TypeOK
  <1>3. /\ stamped' \in [Instances -> Times] /\ stamped'[Host[w]] = job[w].now
        /\ \A i \in Instances \ {Host[w]} : stamped'[i] = stamped[i]
    BY <1>0, <1>2 DEF Put, TypeOK, Times
  <1>4. TypeOK' BY <1>0, <1>1, <1>3 DEF Put, TypeOK
  <1>5. Locked' BY <1>1 DEF Put, IInv, Locked, Stale
  <1>6. RowShows' /\ OneWritePerWindow'
    BY DEF Put, IInv, RowShows, OneWritePerWindow, OneRealWrite
  <1>7. MapOK'
    <2> SUFFICES ASSUME lost = {}, NEW i \in Instances PROVE Backed(i)'
      BY DEF MapOK, Put
    <2>1. CASE i = Host[w] BY <1>1, <1>3, <2>1 DEF Put, Backed
    <2>2. CASE i # Host[w]
      <3>1. Backed(i) BY DEF IInv, MapOK
      <3> QED BY <1>1, <1>3, <2>2, <3>1 DEF Put, Backed
    <2> QED BY <2>1, <2>2
  <1> QED BY <1>4, <1>5, <1>6, <1>7 DEF IInv

LEMMA CommitStep == ASSUME IInv, NEW w \in Workers, Commit(w) PROVE IInv'
  <1>0. TypeOK /\ Throttle \in Nat \ {0} /\ Never \notin Nat BY HeartbeatAssumption DEF IInv
  <1>1. /\ pc[w] = "commit" /\ pc'[w] = "idle" /\ \A v \in Workers \ {w} : pc'[v] = pc[v]
        /\ pc' \in [Workers -> {"idle", "look", "update", "put", "commit", "save"}]
    BY <1>0, GotoFacts DEF Commit
  <1>2. lock = w /\ Stale(last, job[w].now) BY <1>1 DEF IInv, Locked
  <1>3. job[w].now \in Nat /\ last' = job[w].now /\ writes' = Append(writes, job[w].now)
    BY <1>0 DEF Commit, Stamp, TypeOK
  <1>4. last \in Nat => last + Throttle < job[w].now
    BY <1>0, <1>2, <1>3 DEF Stale
  <1>5. TypeOK' BY <1>0, <1>1, <1>3 DEF Commit, TypeOK, Times
  <1>6. Locked' BY <1>1, <1>2 DEF IInv, Locked
  <1>7. writes \in Seq(Nat) BY <1>0 DEF TypeOK
  <1>8. RowShows' BY <1>3, <1>7 DEF RowShows
  <1>9. OneWritePerWindow'
    <2> SUFFICES ASSUME "save" \notin lost, NEW n \in 1 .. Len(writes') - 1
                 PROVE  writes'[n + 1] - writes'[n] > Throttle
      BY DEF Commit, OneWritePerWindow, OneRealWrite
    <2>1. Len(writes') = Len(writes) + 1 /\ Len(writes) \in Nat BY <1>3, <1>7
    <2>2. CASE n < Len(writes)
      <3>1. writes[n + 1] - writes[n] > Throttle
        BY <2>1, <2>2 DEF IInv, OneWritePerWindow, OneRealWrite
      <3> QED BY <1>3, <1>7, <2>1, <2>2, <3>1
    <2>3. CASE n = Len(writes)
      <3>1. writes # << >> /\ last = writes[n] BY <2>1, <2>3, <1>7 DEF IInv, RowShows
      <3>2. writes[n] \in Nat BY <1>7, <2>1, <2>3
      <3>3. writes'[n] = last /\ writes'[n + 1] = job[w].now
        BY <1>3, <1>7, <2>1, <2>3, <3>1
      <3> QED BY <1>0, <1>3, <1>4, <3>1, <3>2, <3>3
    <2> QED BY <2>1, <2>2, <2>3
  <1>10. MapOK'
    <2> SUFFICES ASSUME lost = {}, NEW i \in Instances, stamped[i] # Never
                 PROVE  last' # Never /\ last' >= stamped[i]
      BY DEF MapOK, Commit, Backed
    <2>0. stamped[i] \in Nat /\ last \in Times BY <1>0 DEF TypeOK, Times
    <2>1. Backed(i) BY DEF IInv, MapOK
    <2>2. CASE last # Never /\ last >= stamped[i]
      BY <1>0, <1>3, <1>4, <2>0, <2>2 DEF Times
    <2>3. ASSUME NEW v \in Workers, pc[v] = "commit", job[v].now = stamped[i]
          PROVE  last' # Never /\ last' >= stamped[i]
      <3>1. lock = v BY <2>3 DEF IInv, Locked
      <3> QED BY <1>0, <1>2, <1>3, <2>0, <2>3, <3>1
    <2> QED BY <2>1, <2>2, <2>3 DEF Backed
  <1> QED BY <1>5, <1>6, <1>8, <1>9, <1>10 DEF IInv

LEMMA SaveReadStep == ASSUME IInv, NEW w \in Workers, SaveRead(w) PROVE IInv'
  <1>0. TypeOK BY DEF IInv
  <1>1. pc[w] = "idle" /\ pc'[w] = "save" /\ \A v \in Workers \ {w} : pc'[v] = pc[v]
    BY <1>0, GotoFacts DEF SaveRead
  <1>2. [job[w] EXCEPT !.last = last, !.version = version] \in Jobs BY <1>0 DEF TypeOK, Jobs
  <1>3. job' = [job EXCEPT ![w] = [job[w] EXCEPT !.last = last, !.version = version]]
    BY <1>0 DEF SaveRead, TypeOK
  <1>4. job' \in [Workers -> Jobs] /\ \A v \in Workers \ {w} : job'[v] = job[v]
    BY <1>0, <1>2, <1>3 DEF TypeOK, Jobs
  <1>5. TypeOK' BY <1>0, <1>4, GotoFacts DEF SaveRead, TypeOK, Jobs
  <1> QED BY <1>1, <1>4, <1>5, Quiet DEF SaveRead

\* A save that changes the heartbeat is in the history; any other one leaves
\* the row's last_active_at as it was.
LEMMA SaveWriteStep == ASSUME IInv, NEW w \in Workers, SaveWrite(w) PROVE IInv'
  <1>0. TypeOK /\ Nobody \notin Workers BY HeartbeatAssumption DEF IInv
  <1>1. /\ pc[w] = "save" /\ pc'[w] = "idle" /\ \A v \in Workers \ {w} : pc'[v] = pc[v]
        /\ pc' \in [Workers -> {"idle", "look", "update", "put", "commit", "save"}]
    BY <1>0, GotoFacts DEF SaveWrite
  <1>2. \A v \in Workers : pc[v] \notin {"put", "commit"}
    BY <1>0 DEF SaveWrite, IInv, Locked
  <1>3. last' \in Times /\ version' \in Nat BY <1>0 DEF SaveWrite, TypeOK
  <1>4. TypeOK' BY <1>0, <1>1, <1>3 DEF SaveWrite, TypeOK
  <1>5. CASE last' = last
    BY <1>1, <1>2, <1>4, <1>5, Quiet DEF SaveWrite
  <1>6. CASE last' # last
    <2>1. "save" \in lost' BY <1>6 DEF SaveWrite
    <2>2. Locked' BY <1>1, <1>2 DEF Locked
    <2> QED BY <1>4, <2>1, <2>2 DEF IInv, RowShows, OneWritePerWindow, MapOK
  <1> QED BY <1>5, <1>6

LEMMA RollbackStep == ASSUME IInv, NEW w \in Workers, Rollback(w) PROVE IInv'
  <1>0. TypeOK BY DEF IInv
  <1>1. /\ pc[w] = "commit" /\ pc'[w] = "idle" /\ \A v \in Workers \ {w} : pc'[v] = pc[v]
        /\ pc' \in [Workers -> {"idle", "look", "update", "put", "commit", "save"}]
    BY <1>0, GotoFacts DEF Rollback
  <1>2. TypeOK' BY <1>0, <1>1 DEF Rollback, TypeOK
  <1>3. lock = w BY <1>1 DEF IInv, Locked
  <1>4. Locked' BY <1>1, <1>3 DEF IInv, Locked
  <1>5. RowShows' /\ OneWritePerWindow'
    BY DEF Rollback, IInv, RowShows, OneWritePerWindow, OneRealWrite
  <1>6. MapOK' BY DEF Rollback, MapOK
  <1> QED BY <1>2, <1>4, <1>5, <1>6 DEF IInv

LEMMA RestartStep == ASSUME IInv, NEW i \in Instances, Restart(i) PROVE IInv'
  <1>0. TypeOK /\ Nobody \notin Workers /\ Host \in [Workers -> Instances]
    BY HeartbeatAssumption DEF IInv
  <1>1. /\ pc' \in [Workers -> {"idle", "look", "update", "put", "commit", "save"}]
        /\ \A w \in Workers : pc'[w] = IF Host[w] = i THEN "idle" ELSE pc[w]
    BY <1>0 DEF Restart, TypeOK
  <1>2. /\ stamped' \in [Instances -> Times] /\ stamped'[i] = Never
        /\ \A k \in Instances \ {i} : stamped'[k] = stamped[k]
    BY <1>0 DEF Restart, TypeOK, Times
  <1>3. TypeOK' BY <1>0, <1>1, <1>2 DEF Restart, TypeOK
  <1>4. Locked'
    <2> SUFFICES ASSUME NEW w \in Workers, pc'[w] \in {"put", "commit"}
                 PROVE  lock' = w /\ Stale(last, job[w].now)
      BY DEF Locked, Restart, Stale
    <2>1. Host[w] # i /\ pc[w] \in {"put", "commit"} BY <1>1
    <2>2. lock = w /\ Stale(last, job[w].now) BY <2>1 DEF IInv, Locked
    <2> QED BY <2>1, <2>2 DEF Restart
  <1>5. RowShows' /\ OneWritePerWindow'
    BY DEF Restart, IInv, RowShows, OneWritePerWindow, OneRealWrite
  <1>6. MapOK'
    <2> SUFFICES ASSUME lost = {}, NEW k \in Instances PROVE Backed(k)'
      BY DEF MapOK, Restart
    <2>1. CASE k = i BY <1>2, <2>1 DEF Backed
    <2>2. CASE k # i
      <3>1. Backed(k) BY DEF IInv, MapOK
      <3> QED BY <1>1, <1>2, <2>2, <3>1 DEF Restart, Backed
    <2> QED BY <2>1, <2>2
  <1> QED BY <1>3, <1>4, <1>5, <1>6 DEF IInv

LEMMA IInvStep == IInv /\ [Next]_vars => IInv'
  <1> SUFFICES ASSUME IInv, [Next]_vars PROVE IInv'
    OBVIOUS
  <1>1. ASSUME NEW w \in Workers,
               \/ Touch(w) \/ Look(w) \/ BulkUpdate(w) \/ Put(w) \/ Commit(w)
               \/ SaveRead(w) \/ SaveWrite(w) \/ Rollback(w)
        PROVE  IInv'
    BY <1>1, TouchStep, LookStep, BulkUpdateStep, PutStep, CommitStep,
       SaveReadStep, SaveWriteStep, RollbackStep
  <1>2. CASE UNCHANGED vars
    <2>1. TypeOK' BY <1>2 DEF vars, IInv, TypeOK
    <2> QED BY <1>2, <2>1, Quiet DEF vars
  <1> QED BY <1>1, <1>2, TickStep, RestartStep DEF Next, Rest

-----------------------------------------------------------------------------

\* At most one heartbeat is written a window, across instances, concurrent
\* requests, restarts and failed commits, until a save sets one back
\* (UserRepository.touchLastActive).
THEOREM OneWriteSafe == Spec => [](TypeOK /\ OneWritePerWindow)
  <1>1. IInv => TypeOK /\ OneWritePerWindow BY DEF IInv
  <1> QED BY <1>1, InitIInv, IInvStep, PTL DEF Spec

\* The row, its lock and the maps stay well formed under restarts and failed commits.
THEOREM TypesSafe == Spec => []TypeOK
  <1>1. IInv => TypeOK BY DEF IInv
  <1> QED BY <1>1, InitIInv, IInvStep, PTL DEF Spec

\* Whatever saves, restarts and failed commits do, a heartbeat never overwrites
\* one of its own window nor a later one: the row's lock keeps the value that
\* the WHERE clause judged.
THEOREM AdvanceSafe == Spec => HeartbeatAdvances
  <1> DEFINE A == \A w \in Workers : pc[w] = "commit" /\ last' # last
                    => last = Never \/ last' > last + Throttle
  <1>1. IInv /\ [Next]_vars => [A]_vars
    <2> SUFFICES ASSUME IInv, Next, NEW w \in Workers, pc[w] = "commit", last' # last, last # Never
                 PROVE  last' > last + Throttle
      OBVIOUS
    <2>1. lock = w /\ Stale(last, job[w].now) BY DEF IInv, Locked
    <2>2. /\ last \in Nat /\ job[w].now \in Nat /\ Throttle \in Nat
          /\ Nobody \notin Workers
      BY HeartbeatAssumption DEF IInv, TypeOK, Times
    <2>3. ASSUME NEW v \in Workers, Commit(v) PROVE last' = job[w].now
      <3>1. v = w BY <2>1, <2>3 DEF Commit, Goto, IInv, Locked
      <3> QED BY <2>3, <3>1 DEF Commit, Stamp
    <2>4. ASSUME NEW v \in Workers, SaveWrite(v) PROVE FALSE
      BY <2>1, <2>2, <2>4 DEF SaveWrite
    <2>5. last' = job[w].now
      BY <2>3, <2>4 DEF Next, Tick, Rest, vars, Touch, Look, BulkUpdate, Put,
                        SaveRead, Rollback, Restart
    <2> QED BY <2>1, <2>2, <2>5 DEF Stale
  <1> QED BY <1>1, InitIInv, IInvStep, PTL DEF Spec, HeartbeatAdvances

\* A request that the map or the WHERE clause sends away finds the row fresh,
\* or about to be, until a heartbeat is undone (LastActiveService.touch).
THEOREM FreshSafe == Spec => TouchLeavesFresh
  <1> DEFINE A == lost = {} => \A w \in Workers : LeavesFresh(w)
  <1>1. IInv /\ [Next]_vars => [A]_vars
    <2> SUFFICES ASSUME IInv, Next, lost = {}, NEW w \in Workers,
                        pc[w] \in {"look", "update"}, pc'[w] = "idle",
                        \A i \in Instances : ~Restart(i)
                 PROVE  \/ last' # Never /\ last' >= job[w].now - Throttle
                        \/ \E v \in Workers : pc[v] = "commit"
      BY DEF LeavesFresh
    <2>0. /\ pc \in [Workers -> {"idle", "look", "update", "put", "commit", "save"}]
          /\ job[w].now \in Nat /\ Throttle \in Nat \ {0} /\ last \in Times
          /\ Host[w] \in Instances /\ stamped[Host[w]] \in Times
      BY HeartbeatAssumption DEF IInv, TypeOK
    <2>1. ASSUME NEW v \in Workers,
                 \/ Touch(v) \/ Put(v) \/ Commit(v) \/ SaveRead(v) \/ SaveWrite(v) \/ Rollback(v)
          PROVE  FALSE
      BY <2>0, <2>1 DEF Touch, Put, Commit, SaveRead, SaveWrite, Rollback, Goto
    <2>2. ASSUME NEW v \in Workers, Look(v) \/ BulkUpdate(v) PROVE v = w
      BY <2>0, <2>2 DEF Look, BulkUpdate, Goto
    <2>3. CASE Look(w)
      <3>1. Recent(stamped[Host[w]], job[w].now) BY <2>0, <2>3 DEF Look, Goto
      <3>2. Backed(Host[w]) BY <2>0 DEF IInv, MapOK
      <3> QED BY <2>0, <2>3, <3>1, <3>2, HeartbeatAssumption DEF Look, Recent, Backed, Times
    <2>4. CASE BulkUpdate(w)
      <3>1. ~Stale(last, job[w].now) BY <2>0, <2>4 DEF BulkUpdate, Goto
      <3> QED BY <2>0, <2>4, <3>1, HeartbeatAssumption DEF BulkUpdate, Stale, Times
    <2>5. CASE Tick \/ Rest
      BY <2>0, <2>5 DEF Tick, Rest, vars
    <2> QED BY <2>1, <2>2, <2>3, <2>4, <2>5 DEF Next
  <1> QED BY <1>1, InitIInv, IInvStep, PTL DEF Spec, TouchLeavesFresh
=============================================================================
