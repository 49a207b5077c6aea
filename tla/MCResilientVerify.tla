-------------------------- MODULE MCResilientVerify --------------------------
(* Instances of ResilientVerify. *)
EXTENDS ResilientVerify

NoKeyFault == {"transient"}
AnyFault   == {"transient", "keys"}
=============================================================================
