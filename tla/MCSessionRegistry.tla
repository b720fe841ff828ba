------------------------- MODULE MCSessionRegistry -------------------------
(* TLC instances of SessionRegistry; each .cfg gives the constants.  The     *)
(* symmetry is for the runs without liveness: no definition tells two        *)
(* devices or two sessions apart.                                            *)
EXTENDS SessionRegistry, TLC

Symmetry == Permutations(Devices) \cup Permutations(Sessions)
=============================================================================
