---------------------------- MODULE MCMcpServer ----------------------------
(* Instances of McpServer for TLC: one call at a time in each of two          *)
(* processes, or (k1 = k2) in two threads of one.  Every lineage is in        *)
(* the scope the processes are configured with.                               *)
EXTENDS McpServer, TLC

CONSTANTS s1, s2, k1, k2

ServerOfSession == (s1 :> k1) @@ (s2 :> k2)
AllVisible == [k \in Server |-> Memory]
Symmetry == Permutations(Evidence) \cup Permutations(Proposal)
=============================================================================
