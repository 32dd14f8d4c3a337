--------------------------- MODULE MCSandboxClient ---------------------------
(***************************************************************************)
(* Small instances of SandboxClient.                                       *)
(***************************************************************************)
EXTENDS SandboxClient
=============================================================================
