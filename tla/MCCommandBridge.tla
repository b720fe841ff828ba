--------------------------- MODULE MCCommandBridge ---------------------------
(* A TLC instance of CommandBridge.                                          *)
EXTENDS CommandBridge

CONSTANTS m1, m2, h1

MCMqttRequests == {m1, m2}
MCHttpRequests == {h1}
==============================================================================
