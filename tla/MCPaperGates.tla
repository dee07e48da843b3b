----------------------------- MODULE MCPaperGates ------------------------------
(* Three calls of any kind on one document.                                *)
EXTENDS PaperGates, TLC

CONSTANTS c1, c2, c3, plain, wrong, drafts, delivery, linked

(* "linked" leads to the workbench's delivery through a linked folder.     *)
MCFileAt == [p \in {drafts, delivery, linked} |-> IF p = linked THEN delivery ELSE p]

CallSymmetry == Permutations({c1, c2, c3})
==============================================================================
