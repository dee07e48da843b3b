---------------------------- MODULE MCPaperCommits ----------------------------
(* The commit service on small instances.                                  *)
EXTENDS PaperCommitsInv, TLC

CONSTANTS n1, n2, x

MCLayouts == {{n1}, {n1, n2}}
Interchangeable == Permutations(Requests) \cup Permutations(CommitIds)
==============================================================================
