---------------------------- MODULE MCWakeThreads ----------------------------
(* TLC instance of WakeThreads; the .cfg gives the constants.                *)
EXTENDS WakeThreads, TLC

Symmetry == Permutations(Commands) \cup Permutations(Sessions)
==============================================================================
