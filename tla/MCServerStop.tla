---------------------------- MODULE MCServerStop ----------------------------
(* An instance of ServerStop for TLC.                                      *)
EXTENDS ServerStop
=============================================================================
