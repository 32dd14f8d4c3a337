---------------------------- MODULE MCSessionLog ----------------------------
(***************************************************************************)
(* Small instances of SessionLog.                                          *)
(***************************************************************************)
EXTENDS SessionLog
=============================================================================
