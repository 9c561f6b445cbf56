------------------------------ MODULE MCDelivery ------------------------------
(* Instances of Delivery for TLC: two sessions, one with two messages, so    *)
(* that an order and an overtaking exist and both chains can meet in one     *)
(* session while the other waits.                                            *)
EXTENDS Delivery

CONSTANTS s1, s2

MCSessionOf == [m \in Messages |-> IF m % 2 = 0 THEN s2 ELSE s1]
=============================================================================
