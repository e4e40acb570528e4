---------------------------- MODULE MCHubDaemon ----------------------------
(* Model-checking instances of HubDaemon.                                  *)
EXTENDS HubDaemon, TLC
============================================================================
