------------------------------ MODULE MCAcpAgent -------------------------------
(* Inputs, events and two modes of one conversation.                       *)
EXTENDS AcpAgentInv, TLC

CONSTANTS m1, m2

MessageSymmetry == Permutations({m1, m2})
==============================================================================
