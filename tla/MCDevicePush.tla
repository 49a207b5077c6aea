------------------------------ MODULE MCDevicePush ------------------------------
(* TLC instance of DevicePush: users are alike, and so are tokens. *)
EXTENDS DevicePush, TLC

Symmetry == Permutations(Users) \cup Permutations(Tokens)
=============================================================================
