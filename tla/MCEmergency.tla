---------------------------- MODULE MCEmergency ----------------------------
(* Small instance of Emergency: two exits, one of them perhaps voted for;  *)
(* the owner's key and the crank's.                                        *)
EXTENDS Emergency, TLC

CONSTANTS k1, k2, none, wallet1, pair1, pair2

MCPairs == {pair1, pair2}
Symmetry == Permutations(MCPairs)

\* signer and halt are histories that no guard and no property of this run
\* reads.
View ==
    <<admin, exits, unspent_votes, now, command_vars, sent, history_vars>>
=============================================================================
