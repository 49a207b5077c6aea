---------------------------- MODULE MCTokenBucket ----------------------------
(* TLC instance of TokenBucket: two request threads of one client key. *)
EXTENDS TokenBucket

CONSTANTS t1, t2
MCThreads == {t1, t2}
=============================================================================
