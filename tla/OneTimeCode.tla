----------------------------- MODULE OneTimeCode -----------------------------
(***************************************************************************)
(* What the email sign-in codes of one address promise, with every step    *)
(* atomic: the newest code is the only one in play, it admits MaxAttempts  *)
(* wrong guesses and one right one, and a code that has left play (used,   *)
(* exhausted or replaced) never comes back.  Codes are numbered in the     *)
(* order they come into play.                                              *)
(***************************************************************************)
EXTENDS Naturals

CONSTANTS Codes, MaxAttempts

VARIABLES inPlay,  \* {c} while c can still be used, else {}
          newest,  \* the last code to come into play, 0 at first
          wrong    \* wrong guesses against it

oneTimeVars == <<inPlay, newest, wrong>>

Init == inPlay = {} /\ newest = 0 /\ wrong = 0

Issue(c) ==
  /\ c > newest
  /\ inPlay' = {c}
  /\ newest' = c
  /\ wrong' = 0

Guess ==
  /\ inPlay # {}
  /\ wrong < MaxAttempts
  /\ wrong' = wrong + 1
  /\ inPlay' = IF wrong' < MaxAttempts THEN inPlay ELSE {}
  /\ UNCHANGED newest

Accept ==
  /\ inPlay # {}
  /\ inPlay' = {}
  /\ UNCHANGED <<newest, wrong>>

Next == Guess \/ Accept \/ \E c \in Codes : Issue(c)

Spec == Init /\ [][Next]_oneTimeVars
=============================================================================
