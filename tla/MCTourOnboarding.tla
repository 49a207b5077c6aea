---------------------------- MODULE MCTourOnboarding ----------------------------
(* TLC instance of TourOnboarding: a page with auth.js and one without, in two     *)
(* tabs that are alike.                                                            *)
EXTENDS TourOnboarding, TLC

Walk == <<"app", "help">>
Symmetry == Permutations(Tabs)
=============================================================================
