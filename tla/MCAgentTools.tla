---------------------------- MODULE MCAgentTools ----------------------------
(* An instance of AgentTools for TLC: two finished tasks; calls and payloads *)
(* are interchangeable.                                                      *)
EXTENDS AgentTools, TLC

MCStamp == <<1, 2>>

Symmetry == Permutations(Calls) \cup Permutations(Payloads)
=============================================================================
