---------------------------- MODULE StakingPool ----------------------------
(***************************************************************************)
(* The staking pool of the brain-staking program: BRAIN principal, the     *)
(* reward-per-share accumulator, the SOL reward vault and the pause flag.  *)
(* One action per instruction of programs/brain-staking; an instruction    *)
(* that returns an error leaves every account as it was, so it is the      *)
(* absence of a step.  Which key may sign an administrative instruction is *)
(* PoolAdmin's subject.                                                    *)
(***************************************************************************)
EXTENDS Integers

CONSTANTS
    Users,                        \* wallets that may stake
    PRECISION,                    \* scale of reward_per_share
    TIER_1_THRESHOLD, TIER_2_THRESHOLD, TIER_3_THRESHOLD,
    MAX_PROTOCOL_FEE_BPS, BpsDenominator,
    MIN_REWARD_DEPOSIT,           \* least lamports of one deposit
    MAX_STAKE_AMOUNT,
    EMERGENCY_VAULT_THRESHOLD,    \* vault level below which a payout pauses
    RentMinimum,                  \* rent.minimum_balance(0)
    MaxU64, MaxU128,              \* the largest u64 and u128
    Amounts,                      \* bound: BRAIN amounts callers ask for
    Deposits,                     \* bound: lamports callers deposit
    MinStakes, FeeChoices,        \* bound: configurations the owner writes
    InitialBrain,                 \* BRAIN each wallet starts with
    InitialFunds,                 \* lamports the depositor starts with
    InitialVaults,                \* lamports the vault address may start with
    MaxTime                       \* bound on the cluster clock

\* The program's constants, as far as the handlers rely on their order.
ASSUME TiersAssumption ==
    /\ TIER_1_THRESHOLD \in Nat \ {0}
    /\ TIER_2_THRESHOLD \in Nat /\ TIER_1_THRESHOLD <= TIER_2_THRESHOLD
    /\ TIER_3_THRESHOLD \in Nat /\ TIER_2_THRESHOLD <= TIER_3_THRESHOLD

ASSUME AmountsAssumption ==
    /\ PRECISION \in Nat \ {0} /\ BpsDenominator \in Nat \ {0}
    /\ MAX_PROTOCOL_FEE_BPS \in Nat /\ MAX_PROTOCOL_FEE_BPS <= BpsDenominator
    /\ MIN_REWARD_DEPOSIT \in Nat /\ MAX_STAKE_AMOUNT \in Nat
    /\ EMERGENCY_VAULT_THRESHOLD \in Nat /\ RentMinimum \in Nat
    /\ MaxU64 \in Nat /\ MaxU128 \in Nat

\* What the environment offers: the wallets' and the depositor's means.
ASSUME EnvironmentAssumption ==
    /\ Amounts \subseteq Nat /\ Deposits \subseteq Nat
    /\ MinStakes \subseteq Nat /\ FeeChoices \subseteq Nat
    /\ InitialBrain \in Nat /\ InitialFunds \in Nat
    /\ InitialVaults \subseteq Nat /\ MaxTime \in Nat

VARIABLES
    pool,            \* the StakingPool account
    staker,          \* [Users -> StakerAccount]; NoStaker when it is closed
    brain_vault,     \* BRAIN held by the pool's token account
    wallet,          \* BRAIN held by each user
    reward_vault,    \* lamports of the reward vault address
    user_sol,        \* lamports paid out to each user
    treasury,        \* lamports of protocol fees
    authority_sol,   \* lamports the depositor still has
    now              \* Clock::get().unix_timestamp

vars == <<pool, staker, brain_vault, wallet, reward_vault, user_sol,
          treasury, authority_sol, now>>

StakerAccount ==
    [staked_amount : Nat, stake_timestamp : Nat, reward_debt : Nat,
     pending_rewards : Nat, current_multiplier : 0..3]

StakingPoolAccount ==
    [total_staked : Nat, total_weighted_stake : Nat, reward_per_share : Nat,
     total_rewards_distributed : Nat, protocol_fee_bps : Nat,
     min_stake_amount : Nat, is_paused : BOOLEAN]

\* A closed account: `stake` refuses amount 0, so 0 tells the two apart.
NoStaker ==
    [staked_amount |-> 0, stake_timestamp |-> 0, reward_debt |-> 0,
     pending_rewards |-> 0, current_multiplier |-> 0]

HasStake(u) == staker[u].staked_amount > 0
----------------------------------------------------------------------------
(* Reward arithmetic. *)

get_multiplier(stake_timestamp, current_timestamp) ==
    LET elapsed == current_timestamp - stake_timestamp
    IN  CASE elapsed >= TIER_3_THRESHOLD -> 3
          [] elapsed <  TIER_3_THRESHOLD /\ elapsed >= TIER_2_THRESHOLD -> 2
          [] elapsed <  TIER_2_THRESHOLD /\ elapsed >= TIER_1_THRESHOLD -> 1
          [] OTHER -> 0

Weight(s) == s.staked_amount * s.current_multiplier

\* floor(weight * reward_per_share / PRECISION): the lifetime entitlement of
\* a weight, from which reward_debt is subtracted.
Accumulated(weight) == (weight * pool.reward_per_share) \div PRECISION

\* Lamports a staker has earned at the recorded multiplier since its last
\* settlement, and all it can be paid.
Owed(s) ==
    IF s.current_multiplier > 0 THEN Accumulated(Weight(s)) - s.reward_debt ELSE 0

Claimable(s) == s.pending_rewards + Owed(s)

\* Two faults a settlement could have: it applies the new multiplier to what
\* was earned before, or forgets it.
Settled_Retroactive(s) ==
    LET new_mult == get_multiplier(s.stake_timestamp, now)
    IN  [s EXCEPT !.pending_rewards =
                     @ + Accumulated(s.staked_amount * new_mult) - s.reward_debt,
                  !.reward_debt = Accumulated(s.staked_amount * new_mult),
                  !.current_multiplier = new_mult]

Settled_Forgetful(s) ==
    LET new_mult == get_multiplier(s.stake_timestamp, now)
    IN  IF new_mult = s.current_multiplier
        THEN s
        ELSE [s EXCEPT !.reward_debt = Accumulated(s.staked_amount * new_mult),
                       !.current_multiplier = new_mult]

\* The staker account after the settlement that opens `claim` and `unstake`.
Settled(s) ==
    LET new_mult == get_multiplier(s.stake_timestamp, now)
    IN  IF new_mult = s.current_multiplier
        THEN s
        ELSE [s EXCEPT !.pending_rewards = Claimable(s),
                       !.reward_debt = Accumulated(s.staked_amount * new_mult),
                       !.current_multiplier = new_mult]

\* Faults: the pool's weight is not maintained, or only ever added to.
SettledWeightedStake_Stale(s) == pool.total_weighted_stake

SettledWeightedStake_AddsOnly(s) ==
    IF Settled(s) = s THEN pool.total_weighted_stake
    ELSE pool.total_weighted_stake + Weight(Settled(s))

SettledWeightedStake(s) ==
    pool.total_weighted_stake - Weight(s) + Weight(Settled(s))

\* The checked arithmetic of reading what an account is owed.
OwedComputes(s) ==
    /\ Weight(s) * pool.reward_per_share <= MaxU128
    /\ s.current_multiplier > 0 =>
           s.reward_debt <= Accumulated(Weight(s))
    /\ Claimable(s) <= MaxU64

\* ... and of the whole settlement: none of it returns MathOverflow.
SettlementComputes(s) ==
    /\ Settled(s) # s =>
           /\ OwedComputes(s)
           /\ Weight(s) <= pool.total_weighted_stake
    /\ OwedComputes(Settled(s))

\* The account after a paid claim; a fault leaves the debt as it was.
AfterClaim_KeepsDebt(t) == [t EXCEPT !.pending_rewards = 0]

AfterClaim(t) ==
    [t EXCEPT !.reward_debt = Accumulated(Weight(t)), !.pending_rewards = 0]

VaultCovers_Unchecked(lamports) == TRUE

\* The vault holds the payment and stays rent exempt after it.
VaultCovers(lamports) ==
    /\ reward_vault >= lamports
    /\ reward_vault - lamports >= RentMinimum

\* A payout from the vault: the balances, and the pool as it leaves it.
PayOut(u, lamports) ==
    /\ reward_vault' = reward_vault - lamports
    /\ user_sol' = [user_sol EXCEPT ![u] = @ + lamports]

PausedAfter_ReadsOldBalance(lamports) ==
    \/ pool.is_paused
    \/ lamports > 0 /\ reward_vault < EMERGENCY_VAULT_THRESHOLD

PausedAfter(lamports) ==
    \/ pool.is_paused
    \/ lamports > 0 /\ reward_vault - lamports < EMERGENCY_VAULT_THRESHOLD
----------------------------------------------------------------------------
(* Instructions. *)

\* The state `initialize` leaves, with the vault address funded or not.
Init ==
    /\ \E fee \in FeeChoices, min_stake \in MinStakes :
          /\ fee <= MAX_PROTOCOL_FEE_BPS
          /\ min_stake > 0
          /\ pool = [total_staked |-> 0, total_weighted_stake |-> 0,
                     reward_per_share |-> 0, total_rewards_distributed |-> 0,
                     protocol_fee_bps |-> fee, min_stake_amount |-> min_stake,
                     is_paused |-> FALSE]
    /\ staker = [u \in Users |-> NoStaker]
    /\ brain_vault = 0
    /\ wallet = [u \in Users |-> InitialBrain]
    /\ reward_vault \in InitialVaults
    /\ user_sol = [u \in Users |-> 0]
    /\ treasury = 0
    /\ authority_sol = InitialFunds
    /\ now = 0

\* `init` of the staker PDA fails while the account exists; `init_if_needed`
\* would not.
AccountFree_IfNeeded(u) == TRUE

AccountFree(u) == ~HasStake(u)

\* The account a stake opens, pre-cliff and free of debt; faults open it with
\* the weight, or only with the debt, of the first tier.
NewStaker_AtTier1(amount) ==
    [staked_amount |-> amount, stake_timestamp |-> now,
     reward_debt |-> Accumulated(amount), pending_rewards |-> 0,
     current_multiplier |-> 1]

NewStaker_InDebt(amount) ==
    [staked_amount |-> amount, stake_timestamp |-> now,
     reward_debt |-> Accumulated(amount), pending_rewards |-> 0,
     current_multiplier |-> 0]

NewStaker(amount) ==
    [staked_amount |-> amount, stake_timestamp |-> now, reward_debt |-> 0,
     pending_rewards |-> 0, current_multiplier |-> 0]

Stake(u, amount) ==
    /\ ~pool.is_paused
    /\ amount > 0
    /\ amount >= pool.min_stake_amount
    /\ amount <= MAX_STAKE_AMOUNT
    /\ amount <= wallet[u]                  \* token::transfer
    /\ AccountFree(u)
    /\ pool.total_staked + amount <= MaxU64
    /\ wallet' = [wallet EXCEPT ![u] = @ - amount]
    /\ brain_vault' = brain_vault + amount
    /\ staker' = [staker EXCEPT ![u] = NewStaker(amount)]
    /\ pool' = [pool EXCEPT !.total_staked = @ + amount]
    /\ UNCHANGED <<reward_vault, user_sol, treasury, authority_sol, now>>

\* `claim` on an account with nothing to be paid: only the multiplier, the
\* pool's weight and the debt are brought up to date.
ClaimNothing(u) ==
    LET t == Settled(staker[u])
    IN  /\ t.current_multiplier = 0 \/ Claimable(t) = 0
        /\ staker' = [staker EXCEPT ![u] = t]
        /\ pool' = [pool EXCEPT
                      !.total_weighted_stake = SettledWeightedStake(staker[u])]
        /\ UNCHANGED <<reward_vault, user_sol>>

ClaimRewards(u) ==
    LET t     == Settled(staker[u])
        total == Claimable(t)
    IN  /\ t.current_multiplier > 0 /\ total > 0
        /\ VaultCovers(total)
        /\ PayOut(u, total)
        /\ staker' = [staker EXCEPT ![u] = AfterClaim(t)]
        /\ pool' = [pool EXCEPT
                      !.total_weighted_stake = SettledWeightedStake(staker[u]),
                      !.is_paused = PausedAfter(total)]

Claim_WhilePaused(u) ==
    /\ HasStake(u)
    /\ SettlementComputes(staker[u])
    /\ ClaimNothing(u) \/ ClaimRewards(u)
    /\ UNCHANGED <<brain_vault, wallet, treasury, authority_sol, now>>

Claim(u) ==
    /\ HasStake(u)
    /\ ~pool.is_paused
    /\ SettlementComputes(staker[u])
    /\ ClaimNothing(u) \/ ClaimRewards(u)
    /\ UNCHANGED <<brain_vault, wallet, treasury, authority_sol, now>>

\* The rewards part of `unstake`: paid out after the cliff, handed to the
\* other stakers through the accumulator before it.
Forfeit(t, weighted) ==
    IF t.current_multiplier = 0 /\ t.pending_rewards > 0 /\ weighted > 0
    THEN (t.pending_rewards * PRECISION) \div weighted
    ELSE 0

UnstakePayment(t) == IF t.current_multiplier > 0 THEN Claimable(t) ELSE 0

\* Everything `unstake` checks, and nothing of it is the pause: users can
\* always exit.
UnstakeChecks(u) ==
    LET t        == Settled(staker[u])
        weighted == SettledWeightedStake(staker[u])
        total    == UnstakePayment(t)
    IN  /\ HasStake(u)
        /\ SettlementComputes(staker[u])
        /\ total > 0 => VaultCovers(total)
        /\ t.staked_amount <= brain_vault             \* token::transfer
        /\ Weight(t) <= weighted
        /\ t.staked_amount <= pool.total_staked
        /\ Forfeit(t, weighted) > 0 =>
              t.pending_rewards * PRECISION <= MaxU128
        /\ pool.reward_per_share + Forfeit(t, weighted) <= MaxU128

Unstake(u) ==
    LET t        == Settled(staker[u])
        weighted == SettledWeightedStake(staker[u])
        total    == UnstakePayment(t)
    IN  /\ UnstakeChecks(u)
        /\ PayOut(u, total)
        /\ brain_vault' = brain_vault - t.staked_amount
        /\ wallet' = [wallet EXCEPT ![u] = @ + t.staked_amount]
        /\ staker' = [staker EXCEPT ![u] = NoStaker]  \* close = user
        /\ pool' = [pool EXCEPT
                      !.total_staked = @ - t.staked_amount,
                      !.total_weighted_stake = weighted - Weight(t),
                      !.reward_per_share = @ + Forfeit(t, weighted),
                      !.is_paused = PausedAfter(total)]
        /\ UNCHANGED <<treasury, authority_sol, now>>

ProtocolFee(amount) == (amount * pool.protocol_fee_bps) \div BpsDenominator

RewardIncrement(net) == (net * PRECISION) \div pool.total_weighted_stake

DepositRewards(amount) ==
    LET fee == ProtocolFee(amount)
        net == amount - fee
    IN  /\ ~pool.is_paused
        /\ amount > 0
        /\ amount >= MIN_REWARD_DEPOSIT
        /\ pool.total_weighted_stake > 0
        /\ amount * pool.protocol_fee_bps <= MaxU64
        /\ amount <= authority_sol                    \* system_program::transfer
        /\ net * PRECISION <= MaxU128
        /\ pool.reward_per_share + RewardIncrement(net) <= MaxU128
        /\ pool.total_rewards_distributed + net <= MaxU64
        /\ authority_sol' = authority_sol - amount
        /\ treasury' = treasury + fee
        /\ reward_vault' = reward_vault + net
        /\ pool' = [pool EXCEPT
                      !.reward_per_share = @ + RewardIncrement(net),
                      !.total_rewards_distributed = @ + net]
        /\ UNCHANGED <<staker, brain_vault, wallet, user_sol, now>>

\* Each option of update_pool_config may be absent; an absent one keeps its
\* value.
UpdatePoolConfig(min_stake, fee) ==
    /\ min_stake # pool.min_stake_amount => min_stake > 0
    /\ fee # pool.protocol_fee_bps => fee <= MAX_PROTOCOL_FEE_BPS
    /\ pool' = [pool EXCEPT !.min_stake_amount = min_stake,
                            !.protocol_fee_bps = fee]
    /\ UNCHANGED <<staker, brain_vault, wallet, reward_vault, user_sol,
                   treasury, authority_sol, now>>

\* The pool's half of emergency_halt; DlmmExits has the other.
EmergencyHalt ==
    /\ pool' = [pool EXCEPT !.is_paused = TRUE]
    /\ UNCHANGED <<staker, brain_vault, wallet, reward_vault, user_sol,
                   treasury, authority_sol, now>>

Resume ==
    /\ pool' = [pool EXCEPT !.is_paused = FALSE]
    /\ UNCHANGED <<staker, brain_vault, wallet, reward_vault, user_sol,
                   treasury, authority_sol, now>>

\* The cluster clock moves on between transactions.
Tick ==
    /\ now < MaxTime
    /\ now' = now + 1
    /\ UNCHANGED <<pool, staker, brain_vault, wallet, reward_vault, user_sol,
                   treasury, authority_sol>>

Next ==
    \/ \E u \in Users :
          \/ \E amount \in Amounts : Stake(u, amount)
          \/ Claim(u)
          \/ Unstake(u)
    \/ \E amount \in Deposits : DepositRewards(amount)
    \/ \E min_stake \in MinStakes \cup {pool.min_stake_amount},
          fee \in FeeChoices \cup {pool.protocol_fee_bps} :
             UpdatePoolConfig(min_stake, fee)
    \/ EmergencyHalt
    \/ Resume
    \/ Tick

Spec == Init /\ [][Next]_vars
----------------------------------------------------------------------------
(* Safety. *)

\* Every account holds unsigned numbers: no handler's subtraction, checked or
\* by lamports, takes a balance or a counter below zero.
TypeOK ==
    /\ pool \in StakingPoolAccount
    /\ staker \in [Users -> StakerAccount]
    /\ brain_vault \in Nat /\ reward_vault \in Nat
    /\ treasury \in Nat /\ authority_sol \in Nat /\ now \in Nat
    /\ wallet \in [Users -> Nat] /\ user_sol \in [Users -> Nat]

\* reward_debt never exceeds what its weight has accumulated, so that the
\* checked_sub of `claim` and `unstake` cannot fail and lock a position: the
\* debt is rewritten at each change of the weight, and reward_per_share never
\* falls in between.
DebtCovered ==
    \A u \in Users : staker[u].reward_debt <= Accumulated(Weight(staker[u]))

\* Between transactions no account holds pending_rewards, and one below the
\* cliff has no debt either: what a settlement moves to pending_rewards, the
\* same transaction pays or finds to be zero.  `unstake` before the cliff
\* therefore never has anything to forfeit.
NothingPending ==
    \A u \in Users :
        /\ staker[u].pending_rewards = 0
        /\ staker[u].current_multiplier = 0 => staker[u].reward_debt = 0

\* The recorded multiplier may lag behind the time staked, never run ahead.
MultiplierEarned ==
    \A u \in Users : HasStake(u) =>
        /\ staker[u].stake_timestamp <= now
        /\ staker[u].current_multiplier
               <= get_multiplier(staker[u].stake_timestamp, now)

\* BRAIN is neither created, lost nor moved between users: what a wallet
\* lacks is its stake, and the token vault holds what total_staked says.
PrincipalConserved ==
    /\ \A u \in Users : wallet[u] + staker[u].staked_amount = InitialBrain
    /\ brain_vault = pool.total_staked

\* The numbers of u's settlement fit their integer types.
SettlementFits(u) ==
    LET t == Settled(staker[u])
    IN  /\ Weight(staker[u]) * pool.reward_per_share <= MaxU128
        /\ Weight(t) * pool.reward_per_share <= MaxU128
        /\ Claimable(t) <= MaxU64

\* A user can leave, paused pool or not, as soon as the vault covers its
\* rewards, if it has any: none of the bookkeeping checks of `unstake`, nor
\* the token vault, can stop it.
ExitBlockedOnlyByVault ==
    \A u \in Users :
        /\ HasStake(u)
        /\ SettlementFits(u)
        /\ LET total == UnstakePayment(Settled(staker[u]))
           IN  total > 0 => VaultCovers(total)
        => UnstakeChecks(u)

\* Accrued rewards are out of everyone else's reach: a staker's claimable
\* lamports only fall in a step that pays it exactly these lamports, and no
\* step pays anything else, whatever the multiplier becomes in it.
PaidExactlyWhatAccrued ==
    [][\A u \in Users :
          \/ /\ user_sol'[u] = user_sol[u]
             /\ HasStake(u) => Claimable(staker[u])' >= Claimable(staker[u])
          \/ user_sol'[u] = user_sol[u] + Claimable(staker[u])]_vars

\* While the pool is paused nothing but exits touches stakes and rewards.
PausedPoolOnlyReleases ==
    [][pool.is_paused =>
          /\ pool'.reward_per_share = pool.reward_per_share
          /\ reward_vault' <= reward_vault
          /\ \A u \in Users : staker'[u] \in {staker[u], NoStaker}]_vars

\* A payout leaves the vault rent exempt, and the pool paused if the vault is
\* low.
PayoutsLeaveVaultSafe ==
    [][reward_vault' < reward_vault =>
          /\ reward_vault' >= RentMinimum
          /\ reward_vault' < EMERGENCY_VAULT_THRESHOLD => pool'.is_paused]_vars
----------------------------------------------------------------------------
(* What the documents say, and the program does not do. *)

\* README.md: "Your $BRAIN tokens are always returned in full regardless of
\* when you unstake."
ExitAlwaysPossible ==
    \A u \in Users : HasStake(u) => ENABLED Unstake(u)
=============================================================================
