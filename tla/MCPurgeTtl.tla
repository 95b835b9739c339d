----------------------------- MODULE MCPurgeTtl ------------------------------
(***************************************************************************)
(* Values of PurgeTtl's constants for TLC.                                 *)
(***************************************************************************)
EXTENDS PurgeTtl
=============================================================================
