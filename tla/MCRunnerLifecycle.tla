-------------------------- MODULE MCRunnerLifecycle --------------------------
(* Instances of RunnerLifecycle for TLC: up to three sessions of one agent   *)
(* group, so that a queue has a head, a middle and a latest turn, and one of *)
(* another group, so that the independence of two groups occurs.             *)
EXTENDS RunnerLifecycle, TLC

CONSTANTS s1, s2, s3, s4, gA, gB

MCGroupOf == [s \in Sessions |-> IF s = s4 THEN gB ELSE gA]

(* Identities of promises and runners are interchangeable, and so are the    *)
(* sessions of group gA.                                                     *)
Symmetry ==
    Permutations(Promises) \cup Permutations(Runners)
        \cup Permutations(Sessions \ {s4})
=============================================================================
