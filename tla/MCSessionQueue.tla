---------------------------- MODULE MCSessionQueue ----------------------------
(* Values for the model checker. *)
EXTENDS SessionQueue

(* Batches of two under docker; in single-process mode a window of one row, *)
(* which the second message can fill.                                       *)
MCSetups == {[singleProcess |-> FALSE, limit |-> 2], [singleProcess |-> TRUE, limit |-> 1]}

MCDocker == {[singleProcess |-> FALSE, limit |-> 2]}
=============================================================================
