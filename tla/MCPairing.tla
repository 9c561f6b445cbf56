------------------------------ MODULE MCPairing ------------------------------
(* Instance of Pairing for TLC: two companies and two chats, one deep link   *)
(* and one request awaiting the vault.  The chats are interchangeable; the   *)
(* groups are not, their names order them.                                   *)
EXTENDS Pairing, TLC

ChatSymmetry == Permutations(Chats)
=============================================================================
