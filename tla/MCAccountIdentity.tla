-------------------------- MODULE MCAccountIdentity --------------------------
(* TLC instances of AccountIdentity: two or three uids of at most two people. *)
EXTENDS AccountIdentity, TLC

CONSTANTS w1, w2, i1, i2, i3, u1, u2, u3, e1, e2

MCWorkers == {w1, w2}
OneWorker == {w1}
MCIds     == {i1, i2, i3}
MCUids    == {u1, u2, u3}
MCEmails  == {e1, e2}

\* Each uid always presents the same email: two uids of one person, one of
\* another.
StableTokens    == {[uid |-> u1, email |-> e1], [uid |-> u2, email |-> e1], [uid |-> u3, email |-> e2]}
\* An anonymous uid that is linked to an email later.
UpgradedTokens  == {[uid |-> u1, email |-> None], [uid |-> u1, email |-> e1], [uid |-> u2, email |-> e1]}

Symmetry == Permutations(MCWorkers) \cup Permutations(MCIds)
=============================================================================
