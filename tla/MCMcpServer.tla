---------------------------- MODULE MCMcpServer ----------------------------
(***************************************************************************)
(* Model values for McpServer: two request ids, so that a call can be sent *)
(* again under an id that is active or just freed, and a capacity of two,  *)
(* so that a third call finds the registry full and the job channel full.  *)
(***************************************************************************)
EXTENDS McpServer, TLC

CONSTANTS i1, i2

MCIds == {i1, i2}

IdSymmetry == Permutations(MCIds)
=============================================================================
