----------------------------- MODULE MCHeartbeat -----------------------------
(* TLC instances of Heartbeat: two instances, two threads on the first. *)
EXTENDS Heartbeat, TLC

CONSTANTS i1, i2, w1, w2, w3

MCInstances == {i1, i2}
MCWorkers   == {w1, w2, w3}
MCHost      == [w \in MCWorkers |-> IF w = w3 THEN i2 ELSE i1]
MCNever     == -1

\* The two threads of the first instance are alike.
Symmetry == Permutations({w1, w2})
=============================================================================
