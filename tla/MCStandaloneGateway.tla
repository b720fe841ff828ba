------------------------- MODULE MCStandaloneGateway -------------------------
(* TLC instance of StandaloneGateway; the .cfg gives the constants.          *)
EXTENDS StandaloneGateway
==============================================================================
