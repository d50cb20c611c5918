---------------------------- MODULE MCAgentStart ----------------------------
(* Constants for checking AgentStart on a small instance. *)
EXTENDS AgentStart

CONSTANTS p1, p2, i1
=============================================================================
