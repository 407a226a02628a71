---------------------------- MODULE MCMcpServer ----------------------------
(***************************************************************************)
(* Three worker threads over a ring of one report, so that all three can   *)
(* be evicting at once, or of two reports.                                 *)
(***************************************************************************)
EXTENDS McpServer, TLC

Symmetry == Permutations(Threads)
=============================================================================
