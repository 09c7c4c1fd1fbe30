---------------------------- MODULE MCDlmmExits ----------------------------
(* Small instance of DlmmExits: two exits; three keys, of which one is the *)
(* owner's and one the crank's at first; two treasury wallets.             *)
EXTENDS DlmmExits, TLC

CONSTANTS k1, k2, k3, none, wallet1, wallet2, pair1, pair2

MCKeys == {k1, k2, k3}
MCPairs == {pair1, pair2}
MCTreasuries == {wallet1, wallet2}
Symmetry == Permutations(MCPairs)
=============================================================================
