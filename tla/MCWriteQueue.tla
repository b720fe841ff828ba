---------------------------- MODULE MCWriteQueue ----------------------------
(* TLC instance of WriteQueue; the .cfg gives MaxWrites. *)
EXTENDS WriteQueue
=============================================================================
