--------------------------- MODULE MCAccountRecord ---------------------------
(* TLC instances of AccountRecord: two profile fields of two values.  Strings *)
(* name the values, as a field of the record may hold any of them.            *)
EXTENDS AccountRecord, TLC

CONSTANTS w1, w2

MCWorkers  == {w1, w2}
MCFields   == {"name", "terms"}
MCValues   == {"a", "b"}
MCDefaults == [f \in Fields |-> "a"]

Profiles == [kind : {"profile"}, set : {[name |-> "b"], [name |-> "a"], [terms |-> "b"],
                                        [name |-> "b", terms |-> "a"]}]
Switches(f) == [kind : {f}, set : {f :> "a", f :> "b"}]
MCRequests == Profiles \cup Switches("role") \cup Switches("enabled") \cup Switches("accountType")
                \cup [kind : {"delete", "restore"}, set : {<< >>}]
OnlyEnabled == Switches("enabled")

Symmetry == Permutations(MCWorkers)
=============================================================================
