------------------------- MODULE MCRewardAccounting -------------------------
(* Small instance of RewardAccounting: two stakers, the tiers one tick     *)
(* apart, a coarse PRECISION so that every division leaves a remainder.    *)
EXTENDS RewardAccounting, TLC

CONSTANTS u1, u2

Wallets == {u1, u2}
Symmetry == Permutations(Wallets)
=============================================================================
