---------------------------- MODULE MCWakeManager ----------------------------
(* TLC instances of WakeManager; each .cfg gives the constants.               *)
EXTENDS WakeManager
==============================================================================
