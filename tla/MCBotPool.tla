------------------------------- MODULE MCBotPool -------------------------------
(***************************************************************************)
(* An instance of BotPool for TLC: one founder with two companies, another *)
(* with one.                                                               *)
(***************************************************************************)
EXTENDS BotPool, TLC

CONSTANTS g1, g2, g3, u1, u2

MCOwnerOf == (g1 :> u1) @@ (g2 :> u1) @@ (g3 :> u2)

Symmetry ==
    Permutations(Bots) \cup Permutations(Calls) \cup Permutations(Secrets)
        \cup Permutations({g1, g2})

=============================================================================
