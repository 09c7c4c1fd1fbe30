--------------------------- MODULE MCStakingPool ---------------------------
(* Small instance of StakingPool and its refinement: two interchangeable   *)
(* wallets.                                                                *)
EXTENDS StakingRefinement, TLC

CONSTANTS u1, u2

Wallets == {u1, u2}
Symmetry == Permutations(Wallets)
=============================================================================
