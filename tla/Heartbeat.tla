------------------------------ MODULE Heartbeat ------------------------------
(***************************************************************************)
(* The last_active_at heartbeat of one account: LastActiveService.touch on *)
(* several instances, beside transactions that save the whole row.         *)
(*                                                                         *)
(* touch skips the database when its own instance stamped within the       *)
(* window; else a bulk UPDATE, which the WHERE clause throttles and which  *)
(* does not touch the version.  The map is put between the UPDATE and the  *)
(* commit of the same transaction; the UPDATE holds the row's lock till    *)
(* then.  A save read the row earlier and writes every column back, the    *)
(* last_active_at it read among them, if the version did not change.       *)
(***************************************************************************)
EXTENDS Integers, Sequences

CONSTANTS Instances, Workers,
          Host,        \* the instance each request thread runs on
          Throttle,    \* THROTTLE, in ticks
          Never, Nobody,
          Faults,      \* subset of {"restart", "rollback"}
          MaxTouches,  \* bound: requests that touch
          MaxSaves,    \* bound: saves of the whole row
          Horizon      \* bound: the clock stops here

ASSUME HeartbeatAssumption ==
  /\ Host \in [Workers -> Instances]
  /\ Throttle \in Nat \ {0}
  /\ Never \notin Nat /\ Nobody \notin Workers
  /\ Faults \subseteq {"restart", "rollback"}
  /\ MaxTouches \in Nat /\ MaxSaves \in Nat /\ Horizon \in Nat

VARIABLES clock,
          last, version,  \* last_active_at and version of the users row
          lock,           \* the worker whose open transaction holds the row's lock
          stamped,        \* per instance: lastStampedByUid of the account
          pc, job,        \* per worker: where it is, the instant or the row it read
          touches, saves,
          writes,         \* history: the instants the heartbeat wrote, in commit order
          lost            \* history: how a heartbeat was undone, "save" or "rollback"

vars == <<clock, last, version, lock, stamped, pc, job, touches, saves, writes, lost>>

Times == Nat \cup {Never}

TypeOK ==
  /\ clock \in Nat /\ touches \in Nat /\ saves \in Nat
  /\ last \in Times /\ version \in Nat
  /\ lock \in Workers \cup {Nobody}
  /\ stamped \in [Instances -> Times]
  /\ pc \in [Workers -> {"idle", "look", "update", "put", "commit", "save"}]
  /\ job \in [Workers -> [now : Nat, last : Times, version : Nat]]
  /\ writes \in Seq(Nat) /\ lost \subseteq {"save", "rollback"}

Init ==
  /\ clock = 0 /\ touches = 0 /\ saves = 0
  /\ last = Never /\ version = 0
  /\ lock = Nobody
  /\ stamped = [i \in Instances |-> Never]
  /\ pc = [w \in Workers |-> "idle"]
  /\ job = [w \in Workers |-> [now |-> 0, last |-> Never, version |-> 0]]
  /\ writes = << >> /\ lost = {}

Goto(w, from, to) == pc[w] = from /\ pc' = [pc EXCEPT ![w] = to]

Tick ==
  /\ clock < Horizon
  /\ clock' = clock + 1
  /\ UNCHANGED <<last, version, lock, stamped, pc, job, touches, saves, writes, lost>>

-----------------------------------------------------------------------------
(* touch *)

\* Instant.now()
Touch(w) ==
  /\ touches < MaxTouches
  /\ touches' = touches + 1
  /\ Goto(w, "idle", "look")
  /\ job' = [job EXCEPT ![w].now = clock]
  /\ UNCHANGED <<clock, last, version, lock, stamped, saves, writes, lost>>

\* (a slip) An entry of the map never ages.
RecentForever(t, now) == t # Never

\* lastStamped.isAfter(threshold): this instance stamped within the window.
Recent(t, now) == t # Never /\ t > now - Throttle

Look(w) ==
  /\ Goto(w, "look", IF Recent(stamped[Host[w]], job[w].now) THEN "idle" ELSE "update")
  /\ UNCHANGED <<clock, last, version, lock, stamped, job, touches, saves, writes, lost>>

\* (a slip) The WHERE clause left to the map.
StaleAlways(t, now) == TRUE

\* last_active_at is null or older than the threshold.
Stale(t, now) == t = Never \/ t < now - Throttle

\* The bulk UPDATE, once the row's lock is free: one row or none.
BulkUpdate(w) ==
  /\ lock = Nobody
  /\ \/ Stale(last, job[w].now) /\ lock' = w /\ Goto(w, "update", "put")
     \/ ~Stale(last, job[w].now) /\ Goto(w, "update", "idle") /\ UNCHANGED lock
  /\ UNCHANGED <<clock, last, version, stamped, job, touches, saves, writes, lost>>

Put(w) ==
  /\ Goto(w, "put", "commit")
  /\ stamped' = [stamped EXCEPT ![Host[w]] = job[w].now]
  /\ UNCHANGED <<clock, last, version, lock, job, touches, saves, writes, lost>>

\* (a slip) The two instants of touchLastActive swapped.
StampThreshold(w) == job[w].now - Throttle

Stamp(w) == job[w].now

Commit(w) ==
  /\ Goto(w, "commit", "idle")
  /\ lock' = Nobody
  /\ last' = Stamp(w)
  /\ writes' = Append(writes, Stamp(w))
  /\ UNCHANGED <<clock, version, stamped, job, touches, saves, lost>>

-----------------------------------------------------------------------------
(* What runs beside it. *)

\* A transaction that will change some other column reads the row ...
SaveRead(w) ==
  /\ saves < MaxSaves
  /\ saves' = saves + 1
  /\ Goto(w, "idle", "save")
  /\ job' = [job EXCEPT ![w].last = last, ![w].version = version]
  /\ UNCHANGED <<clock, last, version, lock, stamped, touches, writes, lost>>

\* ... and flushes it, every column, if the version is still the one it read.
SaveWrite(w) ==
  /\ lock = Nobody
  /\ Goto(w, "save", "idle")
  /\ \/ /\ version = job[w].version
        /\ last' = job[w].last /\ version' = version + 1
     \/ version # job[w].version /\ UNCHANGED <<last, version>>
  /\ lost' = IF last' # last THEN lost \cup {"save"} ELSE lost
  /\ UNCHANGED <<clock, lock, stamped, job, touches, saves, writes>>

\* The commit fails: the row is as before, the map is not.
Rollback(w) ==
  /\ "rollback" \in Faults
  /\ Goto(w, "commit", "idle")
  /\ lock' = Nobody
  /\ lost' = lost \cup {"rollback"}
  /\ UNCHANGED <<clock, last, version, stamped, job, touches, saves, writes>>

\* An instance restarts: its map is empty, its transactions are rolled back.
Restart(i) ==
  /\ "restart" \in Faults
  /\ stamped' = [stamped EXCEPT ![i] = Never]
  /\ pc' = [w \in Workers |-> IF Host[w] = i THEN "idle" ELSE pc[w]]
  /\ lock' = IF lock \in Workers /\ Host[lock] = i THEN Nobody ELSE lock
  /\ UNCHANGED <<clock, last, version, job, touches, saves, writes, lost>>

\* Nobody has to send a request.
Rest == (\A w \in Workers : pc[w] = "idle") /\ UNCHANGED vars

Next ==
  \/ Tick \/ Rest
  \/ \E w \in Workers :
       \/ Touch(w) \/ Look(w) \/ BulkUpdate(w) \/ Put(w) \/ Commit(w)
       \/ SaveRead(w) \/ SaveWrite(w) \/ Rollback(w)
  \/ \E i \in Instances : Restart(i)

Spec == Init /\ [][Next]_vars

-----------------------------------------------------------------------------

\* "At most one real row write happens per user per window", across instances,
\* concurrent requests, restarts and failed commits.
OneRealWrite ==
  \A n \in 1 .. Len(writes) - 1 : writes[n + 1] - writes[n] > Throttle

\* It holds as long as no save has set a heartbeat back.
OneWritePerWindow == "save" \notin lost => OneRealWrite

\* A touch that writes nothing leaves a fresh row, or one that another touch is
\* about to commit.
LeavesFresh(w) ==
  pc[w] \in {"look", "update"} /\ pc'[w] = "idle" /\ (\A i \in Instances : ~Restart(i))
    => \/ last' # Never /\ last' >= job[w].now - Throttle
       \/ \E v \in Workers : pc[v] = "commit"

\* The map "must not suppress the next attempt" of a write that did not happen:
\* with several instances and restarts, a skipped write was never needed, as
\* long as no heartbeat has been undone.
TouchLeavesFresh == [][lost = {} => \A w \in Workers : LeavesFresh(w)]_vars

\* "A lost heartbeat under a rare interleave is harmless: the next request
\* re-stamps it".
NextRequestRestamps == [][\A w \in Workers : LeavesFresh(w)]_vars

\* The throttle is judged on the very value it replaces, saves or not: a
\* heartbeat never overwrites one of its own window, nor a later one.
HeartbeatAdvances ==
  [][\A w \in Workers : pc[w] = "commit" /\ last' # last
       => last = Never \/ last' > last + Throttle]_vars
=============================================================================
