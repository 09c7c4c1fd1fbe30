---------------------------- MODULE MCGovernance ----------------------------
(* Small instance of Governance: two voters, two pairs, one proposal with  *)
(* a choice of voting windows, one of them too short.                      *)
EXTENDS Governance, TLC

CONSTANTS v1, v2, pair1, pair2

MCVoters == {v1, v2}
MCPairs == {pair1, pair2}
Symmetry == Permutations(MCPairs) \cup Permutations(MCVoters)
Brain == [v \in MCVoters |-> 1]
MCWindows == {<<0, 1>>, <<0, 2>>, <<1, 3>>}
=============================================================================
