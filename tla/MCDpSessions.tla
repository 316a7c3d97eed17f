---------------------------- MODULE MCDpSessions ----------------------------
(* Small instances of DpSessions. *)
EXTENDS DpSessions
==============================================================================
