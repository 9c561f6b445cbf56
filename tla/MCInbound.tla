------------------------------ MODULE MCInbound ------------------------------
(* An instance of Inbound for TLC: two bots with one agent each, and a group *)
(* to which both agents are wired.                                           *)
EXTENDS Inbound

CONSTANTS b1, b2, w, g, a1, a2

MCWired == (b1 :> <<a1>>) @@ (b2 :> <<a2>>) @@ (w :> <<a1>>) @@ (g :> <<a1, a2>>)
MCTraffic == ({b1} \X Kinds) \cup ({b2} \X {"text"})
MCEngages == ({a1} \X Kinds) \cup ({a2} \X {"text", "file", "tap"})
=============================================================================
