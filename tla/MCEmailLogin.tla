----------------------------- MODULE MCEmailLogin -----------------------------
(* TLC instances of EmailLogin: one request at a time, and two at once. *)
EXTENDS EmailLogin, TLC

CONSTANTS w1, w2
OneWorker  == {w1}
TwoWorkers == {w1, w2}
Symmetry   == Permutations(TwoWorkers)
=============================================================================
