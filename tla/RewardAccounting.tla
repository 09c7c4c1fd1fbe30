-------------------------- MODULE RewardAccounting --------------------------
(***************************************************************************)
(* What the staking pool owes to whom.  The pool's accumulator is compared *)
(* with the distribution it stands for, in which every deposit is divided  *)
(* among the weights of that moment, by adding history to StakingPool:     *)
(*   earned[u]    u's shares of all deposits, in 1/PRECISION lamports;     *)
(*   truncated[u] what the accumulator's own rounding may take from them;  *)
(*   upgrades[u]  how often u's weight was raised, each of which rounds    *)
(*                reward_debt down once.                                   *)
(***************************************************************************)
EXTENDS StakingPool, Functions, FiniteSets

\* The rewards of all stakers are summed.
ASSUME UsersAssumption == IsFiniteSet(Users)

VARIABLES earned, truncated, upgrades

history == <<earned, truncated, upgrades>>

DepositedBy(before, after) ==
    after.total_rewards_distributed - before.total_rewards_distributed

\* u's share of what this step deposits, by the weights before the step.
Share(u) ==
    LET net == DepositedBy(pool, pool')
    IN  IF net = 0 THEN 0
        ELSE (net * PRECISION * Weight(staker[u])) \div pool.total_weighted_stake

Raised(u) ==
    staker'[u].current_multiplier > staker[u].current_multiplier

HInit ==
    /\ Init
    /\ earned = [u \in Users |-> 0]
    /\ truncated = [u \in Users |-> 0]
    /\ upgrades = [u \in Users |-> 0]

HNext ==
    /\ Next
    /\ earned' = [u \in Users |-> earned[u] + Share(u)]
    /\ truncated' = [u \in Users |->
                        truncated[u] + IF DepositedBy(pool, pool') = 0
                                       THEN 0 ELSE Weight(staker[u])]
    /\ upgrades' = [u \in Users |-> upgrades[u] + IF Raised(u) THEN 1 ELSE 0]

HSpec == HInit /\ [][HNext]_<<vars, history>>
----------------------------------------------------------------------------
Sum(f) == SumFunction(f)

\* total_weighted_stake is maintained by three handlers, each subtracting an
\* old weight and adding a new one; deposits are divided by it.  It is the sum
\* of the weights on record, and total_staked that of the stakes.
TotalsMatchAccounts ==
    /\ pool.total_weighted_stake = Sum([u \in Users |-> Weight(staker[u])])
    /\ pool.total_staked = Sum([u \in Users |-> staker[u].staked_amount])

\* No staker is paid more than its shares of the deposits, and one unit of
\* rounding for each time its multiplier was raised: late, early, through
\* `claim` or `unstake`, and across several stakes.
NeverOverpaid ==
    \A u \in Users :
        PRECISION * (user_sol[u] + Claimable(staker[u]))
            <= earned[u] + upgrades[u] * (PRECISION - 1)

\* ... nor less, beyond the truncation of reward_per_share and of its own
\* settlements.
NeverShortchanged ==
    \A u \in Users :
        PRECISION * (user_sol[u] + Claimable(staker[u]))
            >= earned[u] - truncated[u] - upgrades[u] * (PRECISION - 1)

\* All that stakers may still take is in the vault, up to one lamport for each
\* time a multiplier was raised: reward_debt is rounded down for each of them.
SolventUpToRounding ==
    Sum([u \in Users |-> Claimable(staker[u])])
        <= reward_vault + Sum(upgrades)

\* The lamports the pool moves: what it holds for stakers, paid to them, took
\* as fees, and what depositors still have.
Lamports == reward_vault + Sum(user_sol) + treasury + authority_sol

\* Wherever fees, increments and shares are rounded, no lamport is made or lost
\* by it, in any instruction: what no staker can claim stays in the vault.
LamportsConserved == [][Lamports' = Lamports]_vars

\* fuzz_tests.rs: "For any deposit + claim sequence, total claimed <= total
\* net deposited. (Rounding truncation means claimed may be slightly less,
\* never more.)"
ClaimedWithinDeposits ==
    Sum(user_sol) <= pool.total_rewards_distributed
=============================================================================
