----------------------------- MODULE MCMcpTools -----------------------------
(***************************************************************************)
(* The launches and operations of the runs.                                *)
(***************************************************************************)
EXTENDS McpTools

CONSTANTS c1, c2, o1, o2
=============================================================================
