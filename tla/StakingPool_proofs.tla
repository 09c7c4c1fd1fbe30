-------------------------- MODULE StakingPool_proofs --------------------------
(***************************************************************************)
(* Proofs about StakingPool, for every set of wallets and every value of   *)
(* the constants its assumptions allow.                                    *)
(***************************************************************************)
EXTENDS StakingPool, Arith

\* The fee the pool charges is at most MAX_PROTOCOL_FEE_BPS, so that the fee
\* of a deposit never exceeds it.
FeeBounded == pool.protocol_fee_bps <= MAX_PROTOCOL_FEE_BPS

\* What the type invariant needs beside itself to be inductive.
TypeInv == TypeOK /\ FeeBounded
----------------------------------------------------------------------------
(* Lemmas on the reward arithmetic. *)

\* A weight accumulates a natural number of lamports.
LEMMA AccumulatedNat ==
    ASSUME TypeOK, NEW w \in Nat
    PROVE  Accumulated(w) \in Nat
<1>1. pool.reward_per_share \in Nat
  BY DEF TypeOK, StakingPoolAccount
<1>2. w * pool.reward_per_share \in Nat
  BY <1>1, TimesNat
<1> QED
  BY <1>2, DivNat, AmountsAssumption DEF Accumulated

\* Multipliers are 0, 1, 2 or 3.
LEMMA MultiplierType ==
    ASSUME NEW start \in Nat, NEW n \in Nat
    PROVE  get_multiplier(start, n) \in 0..3
BY TiersAssumption DEF get_multiplier

\* A multiplier never falls as time passes.
LEMMA MultiplierMonotone ==
    ASSUME NEW start \in Nat, NEW n \in Nat, NEW m \in Nat, n <= m
    PROVE  get_multiplier(start, n) <= get_multiplier(start, m)
BY TiersAssumption DEF get_multiplier

\* The weight of an account is a natural number.
LEMMA WeightNat ==
    ASSUME NEW s \in StakerAccount
    PROVE  Weight(s) \in Nat
<1>1. s.staked_amount \in Nat /\ s.current_multiplier \in Nat
  BY DEF StakerAccount
<1> QED
  BY <1>1, TimesNat DEF Weight

\* An account whose debt is covered has a natural number to claim.
LEMMA ClaimableNat ==
    ASSUME TypeOK, NEW s \in StakerAccount,
           s.current_multiplier > 0 => s.reward_debt <= Accumulated(Weight(s))
    PROVE  Claimable(s) \in Nat
<1>1. Accumulated(Weight(s)) \in Nat
  BY WeightNat, AccumulatedNat
<1>2. s.reward_debt \in Nat /\ s.pending_rewards \in Nat
  BY DEF StakerAccount
<1> QED
  BY <1>1, <1>2 DEF Claimable, Owed

\* A settlement leaves stake and start alone and records the multiplier of
\* the moment; one that changes anything moves what was claimable to
\* pending_rewards and restarts the debt at the new weight.
LEMMA SettledFields ==
    ASSUME TypeOK, NEW s \in StakerAccount
    PROVE  /\ Settled(s).staked_amount = s.staked_amount
           /\ Settled(s).stake_timestamp = s.stake_timestamp
           /\ Settled(s).current_multiplier = get_multiplier(s.stake_timestamp, now)
           /\ \/ Settled(s) = s
              \/ /\ s.current_multiplier # get_multiplier(s.stake_timestamp, now)
                 /\ Settled(s).pending_rewards = Claimable(s)
                 /\ Settled(s).reward_debt = Accumulated(Weight(Settled(s)))
<1> DEFINE m == get_multiplier(s.stake_timestamp, now)
<1>1. CASE m = s.current_multiplier
  BY <1>1 DEF Settled
<1>2. CASE m # s.current_multiplier
  <2> DEFINE t == [s EXCEPT !.pending_rewards = Claimable(s),
                            !.reward_debt = Accumulated(s.staked_amount * m),
                            !.current_multiplier = m]
  <2>1. Settled(s) = t
    BY <1>2 DEF Settled
  <2> HIDE DEF m
  <2>2. /\ t.staked_amount = s.staked_amount
        /\ t.stake_timestamp = s.stake_timestamp
        /\ t.pending_rewards = Claimable(s)
        /\ t.reward_debt = Accumulated(s.staked_amount * m)
        /\ t.current_multiplier = m
    BY DEF StakerAccount
  <2>3. Weight(t) = s.staked_amount * m
    BY <2>2 DEF Weight
  <2> QED
    BY <1>2, <2>1, <2>2, <2>3 DEF m
<1> QED
  BY <1>1, <1>2

\* The settled account is again an account, if its arithmetic computes.
LEMMA SettledType ==
    ASSUME TypeOK, NEW s \in StakerAccount, SettlementComputes(s)
    PROVE  /\ Settled(s) \in StakerAccount
           /\ Claimable(Settled(s)) \in Nat
           /\ SettledWeightedStake(s) \in Nat
<1>1. CASE Settled(s) = s
  <2>1. SettledWeightedStake(s) = pool.total_weighted_stake
    BY <1>1, WeightNat DEF SettledWeightedStake, TypeOK, StakingPoolAccount
  <2>2. Claimable(s) \in Nat
    BY <1>1, ClaimableNat DEF SettlementComputes, OwedComputes
  <2> QED
    BY <1>1, <2>1, <2>2 DEF TypeOK, StakingPoolAccount
<1>2. CASE Settled(s) # s
  <2>1. OwedComputes(s) /\ Weight(s) <= pool.total_weighted_stake
    BY <1>2 DEF SettlementComputes
  <2>2. Claimable(s) \in Nat
    BY <2>1, ClaimableNat DEF OwedComputes
  <2>3. get_multiplier(s.stake_timestamp, now) \in 0..3
    BY MultiplierType DEF TypeOK, StakerAccount
  <2>4. Accumulated(s.staked_amount * get_multiplier(s.stake_timestamp, now)) \in Nat
    BY <2>3, TimesNat, AccumulatedNat DEF StakerAccount
  <2>5. Settled(s) \in StakerAccount
    BY <2>2, <2>3, <2>4 DEF Settled, StakerAccount
  <2>6. Claimable(Settled(s)) \in Nat
    BY <2>5, ClaimableNat DEF SettlementComputes, OwedComputes
  <2>7. SettledWeightedStake(s) \in Nat
    BY <2>1, <2>5, WeightNat DEF SettledWeightedStake, TypeOK, StakingPoolAccount
  <2> QED
    BY <2>5, <2>6, <2>7
<1> QED
  BY <1>1, <1>2
----------------------------------------------------------------------------
(* Type correctness. *)

\* The fee charged on a deposit is a natural number, and so is the rest.
LEMMA DepositSplit ==
    ASSUME TypeInv, NEW amount \in Nat
    PROVE  ProtocolFee(amount) \in Nat /\ amount - ProtocolFee(amount) \in Nat
<1>1. pool.protocol_fee_bps \in Nat /\ pool.protocol_fee_bps <= BpsDenominator
  BY AmountsAssumption DEF TypeInv, TypeOK, FeeBounded, StakingPoolAccount
<1>2. amount * pool.protocol_fee_bps \in Nat
  BY <1>1, TimesNat
<1>3. ProtocolFee(amount) \in Nat
  BY <1>2, DivNat, AmountsAssumption DEF ProtocolFee
<1>4. ProtocolFee(amount) <= amount
  BY <1>1, FeeWithinAmount, AmountsAssumption DEF ProtocolFee
<1> QED
  BY <1>3, <1>4

\* What a deposit or a forfeiture adds to reward_per_share is a natural
\* number.
LEMMA ShareNat ==
    ASSUME NEW lamports \in Nat, NEW weight \in Nat, weight > 0
    PROVE  (lamports * PRECISION) \div weight \in Nat
<1>1. lamports * PRECISION \in Nat
  BY TimesNat, AmountsAssumption
<1> QED
  BY <1>1, DivNat

\* The initial states are well typed.
LEMMA InitTypeInv == Init => TypeInv
BY AmountsAssumption, EnvironmentAssumption
   DEF Init, TypeInv, TypeOK, FeeBounded, StakingPoolAccount, StakerAccount, NoStaker

\* `stake` keeps the types.
LEMMA StakeTypes ==
    ASSUME TypeInv, NEW u \in Users, NEW amount \in Amounts, Stake(u, amount)
    PROVE  TypeInv'
<1>1. amount \in Nat /\ amount <= wallet[u]
  BY EnvironmentAssumption DEF Stake
<1>2. NewStaker(amount) \in StakerAccount
  BY <1>1 DEF NewStaker, StakerAccount, TypeInv, TypeOK
<1>3. staker' \in [Users -> StakerAccount]
  BY <1>2 DEF Stake, TypeInv, TypeOK
<1>4. pool' \in StakingPoolAccount /\ pool'.protocol_fee_bps = pool.protocol_fee_bps
  BY <1>1 DEF Stake, TypeInv, TypeOK, StakingPoolAccount
<1>5. wallet' \in [Users -> Nat] /\ brain_vault' \in Nat
  BY <1>1 DEF Stake, TypeInv, TypeOK
<1> QED
  BY <1>3, <1>4, <1>5 DEF Stake, TypeInv, TypeOK, FeeBounded

\* A payout keeps the types of the balances it moves.
LEMMA PayOutTypes ==
    ASSUME TypeOK, NEW u \in Users, NEW lamports \in Nat, PayOut(u, lamports),
           lamports > 0 => VaultCovers(lamports)
    PROVE  reward_vault' \in Nat /\ user_sol' \in [Users -> Nat]
<1>1. reward_vault' \in Nat
  BY DEF PayOut, VaultCovers, TypeOK
<1>2. user_sol' \in [Users -> Nat]
  BY DEF PayOut, TypeOK
<1> QED
  BY <1>1, <1>2

\* `claim` keeps the types.
LEMMA ClaimTypes ==
    ASSUME TypeInv, NEW u \in Users, Claim(u)
    PROVE  TypeInv'
<1> DEFINE t == Settled(staker[u])
<1>1. staker[u] \in StakerAccount /\ SettlementComputes(staker[u])
  BY DEF Claim, TypeInv, TypeOK
<1>2. /\ t \in StakerAccount
      /\ Claimable(t) \in Nat
      /\ SettledWeightedStake(staker[u]) \in Nat
  BY <1>1, SettledType DEF TypeInv
<1>3. AfterClaim(t) \in StakerAccount
  BY <1>2, WeightNat, AccumulatedNat DEF AfterClaim, StakerAccount, TypeInv
<1> HIDE DEF t
<1>4. CASE ClaimNothing(u)
  <2>1. staker' \in [Users -> StakerAccount]
    BY <1>2, <1>4 DEF ClaimNothing, TypeInv, TypeOK, t
  <2>2. pool' \in StakingPoolAccount /\ pool'.protocol_fee_bps = pool.protocol_fee_bps
    BY <1>2, <1>4 DEF ClaimNothing, TypeInv, TypeOK, StakingPoolAccount
  <2> QED
    BY <1>4, <2>1, <2>2 DEF ClaimNothing, Claim, TypeInv, TypeOK, FeeBounded
<1>5. CASE ClaimRewards(u)
  <2>1. staker' \in [Users -> StakerAccount]
    BY <1>3, <1>5 DEF ClaimRewards, TypeInv, TypeOK, t
  <2>2. pool' \in StakingPoolAccount /\ pool'.protocol_fee_bps = pool.protocol_fee_bps
    <3>1. PausedAfter(Claimable(t)) \in BOOLEAN
      BY DEF PausedAfter, TypeInv, TypeOK, StakingPoolAccount
    <3> QED
      BY <1>2, <1>5, <3>1 DEF ClaimRewards, TypeInv, TypeOK, StakingPoolAccount, t
  <2>3. reward_vault' \in Nat /\ user_sol' \in [Users -> Nat]
    BY <1>2, <1>5, PayOutTypes DEF ClaimRewards, TypeInv, t
  <2> QED
    BY <2>1, <2>2, <2>3 DEF Claim, TypeInv, TypeOK, FeeBounded
<1> QED
  BY <1>4, <1>5 DEF Claim

\* What a forfeiture adds to reward_per_share is a natural number.
LEMMA ForfeitNat ==
    ASSUME NEW t \in StakerAccount, NEW weighted \in Nat
    PROVE  Forfeit(t, weighted) \in Nat
<1>1. t.pending_rewards \in Nat
  BY DEF StakerAccount
<1>2. CASE weighted > 0
  <2>1. (t.pending_rewards * PRECISION) \div weighted \in Nat
    BY <1>1, <1>2, ShareNat
  <2> QED
    BY <2>1 DEF Forfeit
<1>3. CASE ~(weighted > 0)
  BY <1>3 DEF Forfeit
<1> QED
  BY <1>2, <1>3

\* `unstake` keeps the types.
LEMMA UnstakeTypes ==
    ASSUME TypeInv, NEW u \in Users, Unstake(u)
    PROVE  TypeInv'
<1> DEFINE t        == Settled(staker[u])
           weighted == SettledWeightedStake(staker[u])
           total    == UnstakePayment(t)
           staked   == pool.total_staked - t.staked_amount
           share    == pool.reward_per_share + Forfeit(t, weighted)
           rest     == weighted - Weight(t)
           paused   == PausedAfter(total)
<1>1. staker[u] \in StakerAccount /\ SettlementComputes(staker[u])
  BY DEF Unstake, UnstakeChecks, TypeInv, TypeOK
<1>2. t \in StakerAccount /\ Claimable(t) \in Nat /\ weighted \in Nat
  BY <1>1, SettledType DEF TypeInv
<1>3. total \in Nat
  BY <1>2 DEF UnstakePayment
<1>4. Forfeit(t, weighted) \in Nat
  BY <1>2, ForfeitNat
<1>5. Weight(t) \in Nat /\ t.staked_amount \in Nat
  BY <1>2, WeightNat DEF StakerAccount
<1>6. /\ paused \in BOOLEAN
      /\ share \in Nat
      /\ staked \in Nat
      /\ rest \in Nat
  BY <1>2, <1>4, <1>5
     DEF Unstake, UnstakeChecks, PausedAfter, TypeInv, TypeOK, StakingPoolAccount
<1>7. /\ total > 0 => VaultCovers(total)
      /\ t.staked_amount <= brain_vault
      /\ PayOut(u, total)
      /\ brain_vault' = brain_vault - t.staked_amount
      /\ wallet' = [wallet EXCEPT ![u] = @ + t.staked_amount]
      /\ staker' = [staker EXCEPT ![u] = NoStaker]
      /\ pool' = [pool EXCEPT !.total_staked = staked,
                              !.total_weighted_stake = rest,
                              !.reward_per_share = share,
                              !.is_paused = paused]
      /\ UNCHANGED <<treasury, authority_sol, now>>
  BY DEF Unstake, UnstakeChecks
<1> HIDE DEF t, weighted, total, staked, share, rest, paused
<1>8. pool' \in StakingPoolAccount /\ pool'.protocol_fee_bps = pool.protocol_fee_bps
  BY <1>6, <1>7 DEF TypeInv, TypeOK, StakingPoolAccount
<1>9. staker' \in [Users -> StakerAccount]
  BY <1>7 DEF NoStaker, StakerAccount, TypeInv, TypeOK
<1>10. reward_vault' \in Nat /\ user_sol' \in [Users -> Nat]
  BY <1>3, <1>7, PayOutTypes DEF TypeInv
<1>11. brain_vault' \in Nat /\ wallet' \in [Users -> Nat]
  BY <1>5, <1>7 DEF TypeInv, TypeOK
<1> QED
  BY <1>7, <1>8, <1>9, <1>10, <1>11 DEF TypeInv, TypeOK, FeeBounded

\* `deposit_rewards` keeps the types.
LEMMA DepositTypes ==
    ASSUME TypeInv, NEW amount \in Deposits, DepositRewards(amount)
    PROVE  TypeInv'
<1> DEFINE fee == ProtocolFee(amount)
           net == amount - fee
           share == pool.reward_per_share + RewardIncrement(net)
           distributed == pool.total_rewards_distributed + net
<1>1. amount \in Nat
  BY EnvironmentAssumption
<1>2. fee \in Nat /\ net \in Nat
  BY <1>1, DepositSplit
<1>3. pool.total_weighted_stake \in Nat /\ pool.total_weighted_stake > 0
  BY DEF DepositRewards, TypeInv, TypeOK, StakingPoolAccount
<1>4. RewardIncrement(net) \in Nat
  BY <1>2, <1>3, ShareNat DEF RewardIncrement
<1>5. share \in Nat /\ distributed \in Nat
  BY <1>2, <1>4 DEF TypeInv, TypeOK, StakingPoolAccount
<1>6. /\ amount <= authority_sol
      /\ authority_sol' = authority_sol - amount
      /\ treasury' = treasury + fee
      /\ reward_vault' = reward_vault + net
      /\ pool' = [pool EXCEPT !.reward_per_share = share,
                              !.total_rewards_distributed = distributed]
      /\ UNCHANGED <<staker, brain_vault, wallet, user_sol, now>>
  BY DEF DepositRewards
<1> HIDE DEF fee, net, share, distributed
<1>7. pool' \in StakingPoolAccount /\ pool'.protocol_fee_bps = pool.protocol_fee_bps
  BY <1>5, <1>6 DEF TypeInv, TypeOK, StakingPoolAccount
<1>8. authority_sol' \in Nat /\ treasury' \in Nat /\ reward_vault' \in Nat
  BY <1>1, <1>2, <1>6 DEF TypeInv, TypeOK
<1> QED
  BY <1>6, <1>7, <1>8 DEF TypeInv, TypeOK, FeeBounded

\* `update_pool_config` keeps the types, and the fee at most its maximum.
LEMMA ConfigTypes ==
    ASSUME TypeInv,
           NEW min_stake \in MinStakes \cup {pool.min_stake_amount},
           NEW fee \in FeeChoices \cup {pool.protocol_fee_bps},
           UpdatePoolConfig(min_stake, fee)
    PROVE  TypeInv'
<1>1. min_stake \in Nat /\ fee \in Nat
  BY EnvironmentAssumption DEF TypeInv, TypeOK, StakingPoolAccount
<1>2. fee <= MAX_PROTOCOL_FEE_BPS
  BY DEF UpdatePoolConfig, TypeInv, FeeBounded
<1>3. pool' \in StakingPoolAccount /\ pool'.protocol_fee_bps = fee
  BY <1>1 DEF UpdatePoolConfig, TypeInv, TypeOK, StakingPoolAccount
<1> QED
  BY <1>2, <1>3 DEF UpdatePoolConfig, TypeInv, TypeOK, FeeBounded

\* Pausing and resuming keep the types.
LEMMA SwitchTypes ==
    ASSUME TypeInv, EmergencyHalt \/ Resume
    PROVE  TypeInv'
<1>1. pool' \in StakingPoolAccount /\ pool'.protocol_fee_bps = pool.protocol_fee_bps
  BY DEF EmergencyHalt, Resume, TypeInv, TypeOK, StakingPoolAccount
<1> QED
  BY <1>1 DEF EmergencyHalt, Resume, TypeInv, TypeOK, FeeBounded

\* Every step keeps the types.
LEMMA NextTypes == TypeInv /\ [Next]_vars => TypeInv'
<1> SUFFICES ASSUME TypeInv, [Next]_vars
             PROVE  TypeInv'
  OBVIOUS
<1>1. ASSUME NEW u \in Users, NEW amount \in Amounts, Stake(u, amount)
      PROVE  TypeInv'
  BY <1>1, StakeTypes
<1>2. ASSUME NEW u \in Users, Claim(u)
      PROVE  TypeInv'
  BY <1>2, ClaimTypes
<1>3. ASSUME NEW u \in Users, Unstake(u)
      PROVE  TypeInv'
  BY <1>3, UnstakeTypes
<1>4. ASSUME NEW amount \in Deposits, DepositRewards(amount)
      PROVE  TypeInv'
  BY <1>4, DepositTypes
<1>5. ASSUME NEW min_stake \in MinStakes \cup {pool.min_stake_amount},
             NEW fee \in FeeChoices \cup {pool.protocol_fee_bps},
             UpdatePoolConfig(min_stake, fee)
      PROVE  TypeInv'
  BY <1>5, ConfigTypes
<1>6. CASE EmergencyHalt \/ Resume
  BY <1>6, SwitchTypes
<1>7. CASE Tick
  BY <1>7 DEF Tick, TypeInv, TypeOK, FeeBounded
<1>8. CASE UNCHANGED vars
  BY <1>8 DEF vars, TypeInv, TypeOK, FeeBounded
<1> QED
  BY <1>1, <1>2, <1>3, <1>4, <1>5, <1>6, <1>7, <1>8 DEF Next

\* No balance and no counter of the pool ever falls below zero: every
\* subtraction the handlers do, checked or on lamports, is of no more than
\* there is.
THEOREM TypeCorrect == Spec => []TypeOK
<1>1. Init => TypeInv
  BY InitTypeInv
<1>2. TypeInv /\ [Next]_vars => TypeInv'
  BY NextTypes
<1>3. TypeInv => TypeOK
  BY DEF TypeInv
<1> QED
  BY <1>1, <1>2, <1>3, PTL DEF Spec
----------------------------------------------------------------------------
(* The reward invariant of an account, and what keeps it. *)

\* The inductive invariant, account by account: nothing is pending, the debt
\* is covered (and nil before the cliff), the multiplier was earned.
AccountSound(u) ==
    /\ staker[u].reward_debt <= Accumulated(Weight(staker[u]))
    /\ staker[u].pending_rewards = 0
    /\ staker[u].current_multiplier = 0 => staker[u].reward_debt = 0
    /\ HasStake(u) =>
          /\ staker[u].stake_timestamp <= now
          /\ staker[u].current_multiplier
                 <= get_multiplier(staker[u].stake_timestamp, now)

\* Every account is sound ...
RewardInv == \A u \in Users : AccountSound(u)

\* ... which with the types and the principal is the inductive invariant.
IInv == TypeInv /\ RewardInv /\ PrincipalConserved

\* The inductive invariant implies the invariants the runs check.
LEMMA IInvImplies ==
    IInv => /\ TypeOK
            /\ DebtCovered
            /\ NothingPending
            /\ MultiplierEarned
            /\ PrincipalConserved
BY DEF IInv, TypeInv, RewardInv, AccountSound, DebtCovered, NothingPending, MultiplierEarned

\* A weight accumulates no less when reward_per_share has grown.
LEMMA AccumulatedGrows ==
    ASSUME TypeOK, TypeOK', NEW w \in Nat,
           pool.reward_per_share <= pool'.reward_per_share
    PROVE  (w * pool.reward_per_share) \div PRECISION
               <= (w * pool'.reward_per_share) \div PRECISION
<1>1. pool.reward_per_share \in Nat /\ pool'.reward_per_share \in Nat
  BY DEF TypeOK, StakingPoolAccount
<1>2. w * pool.reward_per_share <= w * pool'.reward_per_share
  BY <1>1, TimesMonotone
<1>3. w * pool.reward_per_share \in Nat /\ w * pool'.reward_per_share \in Nat
  BY <1>1, TimesNat
<1> QED
  BY <1>2, <1>3, DivMonotone, AmountsAssumption

\* An account no step writes stays sound while reward_per_share and the clock
\* only grow.
LEMMA AccountKept ==
    ASSUME TypeOK, TypeOK', NEW u \in Users, AccountSound(u),
           staker'[u] = staker[u], now <= now',
           pool.reward_per_share <= pool'.reward_per_share
    PROVE  AccountSound(u)'
<1>1. staker[u] \in StakerAccount /\ now \in Nat /\ now' \in Nat
  BY DEF TypeOK
<1>2. Weight(staker[u]) \in Nat
  BY <1>1, WeightNat
<1>3. (Weight(staker[u]) * pool.reward_per_share) \div PRECISION
        <= (Weight(staker[u]) * pool'.reward_per_share) \div PRECISION
  BY <1>2, AccumulatedGrows
<1>4. staker'[u].reward_debt <= Accumulated(Weight(staker[u]))'
  <2>1. Accumulated(Weight(staker[u]))
          <= (Weight(staker[u]) * pool'.reward_per_share) \div PRECISION
    BY <1>3 DEF Accumulated
  <2>2. Accumulated(Weight(staker[u]))'
          = (Weight(staker[u]) * pool'.reward_per_share) \div PRECISION
    BY DEF Accumulated, Weight
  <2>3. Accumulated(Weight(staker[u])) \in Nat /\ staker[u].reward_debt \in Nat
    BY <1>1, <1>2, AccumulatedNat DEF StakerAccount
  <2>4. (Weight(staker[u]) * pool'.reward_per_share) \div PRECISION \in Nat
    BY <1>2, TimesNat, DivNat, AmountsAssumption DEF TypeOK, StakingPoolAccount
  <2> QED
    BY <2>1, <2>2, <2>3, <2>4 DEF AccountSound
<1>5. HasStake(u)' =>
        /\ staker'[u].stake_timestamp <= now'
        /\ staker'[u].current_multiplier
               <= get_multiplier(staker'[u].stake_timestamp, now')
  <2> SUFFICES ASSUME HasStake(u)'
               PROVE  /\ staker[u].stake_timestamp <= now'
                      /\ staker[u].current_multiplier
                             <= get_multiplier(staker[u].stake_timestamp, now')
    OBVIOUS
  <2>1. HasStake(u)
    BY DEF HasStake
  <2>2. /\ staker[u].stake_timestamp \in Nat
        /\ staker[u].current_multiplier \in Nat
    BY <1>1 DEF StakerAccount
  <2>3. get_multiplier(staker[u].stake_timestamp, now)
          <= get_multiplier(staker[u].stake_timestamp, now')
    BY <1>1, <2>2, MultiplierMonotone
  <2>4. /\ get_multiplier(staker[u].stake_timestamp, now) \in 0..3
        /\ get_multiplier(staker[u].stake_timestamp, now') \in 0..3
    BY <1>1, <2>2, MultiplierType
  <2> QED
    BY <1>1, <2>1, <2>2, <2>3, <2>4 DEF AccountSound
<1> QED
  BY <1>4, <1>5 DEF AccountSound, HasStake
\* A settlement of a sound account neither creates nor forgets lamports, and
\* does not move one back below the cliff.
LEMMA SettledSound ==
    ASSUME TypeOK, NEW u \in Users, HasStake(u), AccountSound(u),
           SettlementComputes(staker[u])
    PROVE  LET t == Settled(staker[u])
           IN  /\ t.reward_debt <= Accumulated(Weight(t))
               /\ t.current_multiplier = 0 => t = staker[u]
               /\ Claimable(t) = Claimable(staker[u])
<1> DEFINE s == staker[u]
           t == Settled(s)
<1>1. s \in StakerAccount /\ now \in Nat
  BY DEF TypeOK
<1>2. t \in StakerAccount
  BY <1>1, SettledType
<1>3. /\ t.current_multiplier = get_multiplier(s.stake_timestamp, now)
      /\ \/ t = s
         \/ /\ s.current_multiplier # get_multiplier(s.stake_timestamp, now)
            /\ t.pending_rewards = Claimable(s)
            /\ t.reward_debt = Accumulated(Weight(t))
  BY <1>1, SettledFields
<1>4. s.current_multiplier <= get_multiplier(s.stake_timestamp, now)
  BY DEF AccountSound
<1>5. s.current_multiplier \in 0..3 /\ t.current_multiplier \in 0..3
  BY <1>1, <1>2 DEF StakerAccount
<1>6. t.current_multiplier = 0 => t = s
  BY <1>3, <1>4, <1>5
<1>7. Accumulated(Weight(t)) \in Nat
  BY <1>2, WeightNat, AccumulatedNat
<1>8. CASE t = s
  BY <1>6, <1>8 DEF AccountSound
<1>9. CASE t # s
  <2>1. t.pending_rewards = Claimable(s) /\ t.reward_debt = Accumulated(Weight(t))
    BY <1>3, <1>9
  <2>2. Owed(t) = 0
    BY <1>7, <2>1 DEF Owed
  <2>3. t.pending_rewards \in Nat
    BY <1>2 DEF StakerAccount
  <2>4. Claimable(t) = Claimable(s)
    BY <2>1, <2>2, <2>3 DEF Claimable
  <2> QED
    BY <1>6, <1>7, <2>1, <2>4
<1> QED
  BY <1>8, <1>9

\* A claim pays exactly what was claimable and leaves the account sound.
LEMMA ClaimSound ==
    ASSUME TypeOK, NEW u \in Users, Claim(u), AccountSound(u)
    PROVE  AccountSound(u)'
<1> DEFINE s == staker[u]
           t == Settled(s)
<1>1. HasStake(u) /\ SettlementComputes(s) /\ now' = now
  BY DEF Claim
<1>2. s \in StakerAccount /\ now \in Nat
  BY DEF TypeOK
<1>3. t \in StakerAccount
  BY <1>1, <1>2, SettledType
<1>4. /\ t.staked_amount = s.staked_amount
      /\ t.stake_timestamp = s.stake_timestamp
      /\ t.current_multiplier = get_multiplier(s.stake_timestamp, now)
  BY <1>2, SettledFields
<1>5. /\ t.reward_debt <= Accumulated(Weight(t))
      /\ t.current_multiplier = 0 => t = s
      /\ Claimable(t) = Claimable(s)
  BY <1>1, SettledSound
<1>6. Accumulated(Weight(t)) \in Nat
  BY <1>3, WeightNat, AccumulatedNat
<1>7. get_multiplier(t.stake_timestamp, now) \in 0..3
  BY <1>2, <1>3, MultiplierType DEF StakerAccount
<1>8. s.stake_timestamp <= now
  BY <1>1 DEF AccountSound
<1> HIDE DEF t
<1>9. CASE ClaimNothing(u)
  <2>1. /\ staker'[u] = t
        /\ pool'.reward_per_share = pool.reward_per_share
        /\ t.current_multiplier = 0 \/ Claimable(t) = 0
    BY <1>9 DEF ClaimNothing, TypeOK, StakingPoolAccount, t
  <2>2. t.pending_rewards = 0 /\ (t.current_multiplier = 0 => t.reward_debt = 0)
    <3>1. CASE t.current_multiplier = 0
      BY <1>5, <3>1 DEF AccountSound
    <3>2. CASE t.current_multiplier # 0
      <4>1. t.current_multiplier > 0 /\ t.pending_rewards \in Nat /\ t.reward_debt \in Nat
        BY <1>3, <3>2 DEF StakerAccount
      <4>2. t.pending_rewards + (Accumulated(Weight(t)) - t.reward_debt) = 0
        BY <2>1, <3>2, <4>1 DEF Claimable, Owed
      <4>3. Accumulated(Weight(t)) - t.reward_debt \in Nat
        BY <1>5, <1>6, <4>1
      <4>4. t.pending_rewards = 0
        BY <4>1, <4>2, <4>3
      <4> QED
        BY <3>2, <4>4
    <3> QED
      BY <3>1, <3>2
  <2>3. Accumulated(Weight(staker[u]))' = Accumulated(Weight(t))
    BY <2>1 DEF Accumulated, Weight
  <2> QED
    BY <1>1, <1>4, <1>5, <1>7, <1>8, <2>1, <2>2, <2>3 DEF AccountSound, HasStake
<1>10. CASE ClaimRewards(u)
  <2> DEFINE a == AfterClaim(t)
  <2>1. /\ staker'[u] = a
        /\ pool'.reward_per_share = pool.reward_per_share
        /\ t.current_multiplier > 0
    BY <1>10 DEF ClaimRewards, TypeOK, StakingPoolAccount, t
  <2>2. /\ a.staked_amount = t.staked_amount
        /\ a.stake_timestamp = t.stake_timestamp
        /\ a.current_multiplier = t.current_multiplier
        /\ a.pending_rewards = 0
        /\ a.reward_debt = Accumulated(Weight(t))
    BY <1>3 DEF AfterClaim, StakerAccount
  <2> HIDE DEF a
  <2>3. Accumulated(Weight(staker[u]))' = Accumulated(Weight(t))
    BY <2>1, <2>2 DEF Accumulated, Weight
  <2>4. t.current_multiplier # 0
    BY <1>3, <2>1 DEF StakerAccount
  <2> QED
    BY <1>1, <1>4, <1>6, <1>7, <1>8, <2>1, <2>2, <2>3, <2>4 DEF AccountSound, HasStake
<1> QED
  BY <1>9, <1>10 DEF Claim

\* A new stake, and the account a withdrawn one leaves, are sound.
LEMMA OpenedOrClosedSound ==
    ASSUME TypeOK', NEW u \in Users, NEW amount \in Nat,
           staker'[u] = NewStaker(amount) \/ staker'[u] = NoStaker,
           now' = now
    PROVE  AccountSound(u)'
<1>1. /\ staker'[u].reward_debt = 0
      /\ staker'[u].pending_rewards = 0
      /\ staker'[u].current_multiplier = 0
      /\ staker'[u].stake_timestamp = now \/ staker'[u].staked_amount = 0
  BY DEF NewStaker, NoStaker
<1>2. staker'[u] \in StakerAccount /\ now' \in Nat /\ pool'.reward_per_share \in Nat
  BY DEF TypeOK, StakingPoolAccount
<1>3. Accumulated(Weight(staker[u]))' = 0
  <2>1. Weight(staker[u])' = 0
    BY <1>1, <1>2 DEF Weight, StakerAccount
  <2> QED
    BY <1>2, <2>1, ZeroDiv, AmountsAssumption DEF Accumulated
<1>4. staker'[u].stake_timestamp \in Nat
  BY <1>2 DEF StakerAccount
<1>5. get_multiplier(staker'[u].stake_timestamp, now') \in 0..3
  BY <1>2, <1>4, MultiplierType
<1> QED
  BY <1>1, <1>2, <1>3, <1>5 DEF AccountSound, HasStake
----------------------------------------------------------------------------
(* The invariant is inductive. *)

\* What a step does to an account that is not its own, and to what soundness
\* depends on besides.
Untouched(u) ==
    /\ staker'[u] = staker[u]
    /\ now <= now'
    /\ pool.reward_per_share <= pool'.reward_per_share

\* `stake` opens one account and leaves the others.
LEMMA StakeSound ==
    ASSUME IInv, TypeOK', NEW u \in Users, NEW amount \in Amounts, Stake(u, amount)
    PROVE  RewardInv'
<1> SUFFICES ASSUME NEW v \in Users
             PROVE  AccountSound(v)'
  BY DEF RewardInv
<1>1. TypeOK /\ AccountSound(v) /\ amount \in Nat
  BY EnvironmentAssumption DEF IInv, TypeInv, RewardInv
<1>2. /\ staker' = [staker EXCEPT ![u] = NewStaker(amount)]
      /\ pool'.reward_per_share = pool.reward_per_share
      /\ now' = now
  BY <1>1 DEF Stake, TypeOK, StakingPoolAccount
<1>3. CASE v = u
  <2>1. staker'[v] = NewStaker(amount)
    BY <1>1, <1>2, <1>3 DEF TypeOK
  <2> QED
    BY <1>1, <1>2, <2>1, OpenedOrClosedSound
<1>4. CASE v # u
  <2>1. Untouched(v)
    BY <1>1, <1>2, <1>4 DEF Untouched, TypeOK, StakingPoolAccount
  <2> QED
    BY <1>1, <2>1, AccountKept DEF Untouched
<1> QED
  BY <1>3, <1>4

\* `claim` settles one account and leaves the others.
LEMMA ClaimStepSound ==
    ASSUME IInv, TypeOK', NEW u \in Users, Claim(u)
    PROVE  RewardInv'
<1> SUFFICES ASSUME NEW v \in Users
             PROVE  AccountSound(v)'
  BY DEF RewardInv
<1>1. TypeOK /\ AccountSound(u) /\ AccountSound(v)
  BY DEF IInv, TypeInv, RewardInv
<1>2. CASE v = u
  BY <1>1, <1>2, ClaimSound
<1>3. CASE v # u
  <2>1. /\ staker'[v] = staker[v]
        /\ pool'.reward_per_share = pool.reward_per_share
        /\ now' = now
    BY <1>1, <1>3 DEF Claim, ClaimNothing, ClaimRewards, TypeOK, StakingPoolAccount
  <2>2. Untouched(v)
    BY <1>1, <2>1 DEF Untouched, TypeOK, StakingPoolAccount
  <2> QED
    BY <1>1, <2>2, AccountKept DEF Untouched
<1> QED
  BY <1>2, <1>3

\* `unstake` never lowers reward_per_share.
LEMMA UnstakeShares ==
    ASSUME TypeOK, NEW u \in Users, Unstake(u)
    PROVE  /\ pool.reward_per_share <= pool'.reward_per_share
           /\ staker' = [staker EXCEPT ![u] = NoStaker]
           /\ now' = now
<1> DEFINE gain == Forfeit(Settled(staker[u]), SettledWeightedStake(staker[u]))
<1>1. staker[u] \in StakerAccount /\ SettlementComputes(staker[u])
  BY DEF Unstake, UnstakeChecks, TypeOK
<1>2. gain \in Nat
  BY <1>1, SettledType, ForfeitNat
<1>3. pool'.reward_per_share = pool.reward_per_share + gain
  BY DEF Unstake, UnstakeChecks, TypeOK, StakingPoolAccount
<1> HIDE DEF gain
<1>4. pool.reward_per_share \in Nat
  BY DEF TypeOK, StakingPoolAccount
<1>5. pool.reward_per_share <= pool'.reward_per_share
  BY <1>2, <1>3, <1>4
<1> QED
  BY <1>5 DEF Unstake, UnstakeChecks

\* `unstake` closes one account and leaves the others.
LEMMA UnstakeSound ==
    ASSUME IInv, TypeOK', NEW u \in Users, Unstake(u)
    PROVE  RewardInv'
<1> SUFFICES ASSUME NEW v \in Users
             PROVE  AccountSound(v)'
  BY DEF RewardInv
<1>1. TypeOK /\ AccountSound(v)
  BY DEF IInv, TypeInv, RewardInv
<1>2. /\ pool.reward_per_share <= pool'.reward_per_share
      /\ staker' = [staker EXCEPT ![u] = NoStaker]
      /\ now' = now
  BY <1>1, UnstakeShares
<1>3. CASE v = u
  <2>1. staker'[v] = NoStaker
    BY <1>1, <1>2, <1>3 DEF TypeOK
  <2> QED
    BY <1>2, <2>1, OpenedOrClosedSound
<1>4. CASE v # u
  <2>1. Untouched(v)
    BY <1>1, <1>2, <1>4 DEF Untouched, TypeOK
  <2> QED
    BY <1>1, <2>1, AccountKept DEF Untouched
<1> QED
  BY <1>3, <1>4

\* `deposit_rewards` raises reward_per_share and writes no account.
LEMMA DepositShares ==
    ASSUME TypeInv, NEW amount \in Deposits, DepositRewards(amount)
    PROVE  /\ pool.reward_per_share <= pool'.reward_per_share
           /\ staker' = staker
           /\ now' = now
<1> DEFINE net  == amount - ProtocolFee(amount)
           gain == RewardIncrement(net)
<1>1. amount \in Nat
  BY EnvironmentAssumption
<1>2. net \in Nat
  BY <1>1, DepositSplit
<1>3. pool.total_weighted_stake \in Nat /\ pool.total_weighted_stake > 0
  BY DEF DepositRewards, TypeInv, TypeOK, StakingPoolAccount
<1>4. gain \in Nat
  BY <1>2, <1>3, ShareNat DEF RewardIncrement
<1>5. pool'.reward_per_share = pool.reward_per_share + gain
  BY DEF DepositRewards, TypeInv, TypeOK, StakingPoolAccount
<1> HIDE DEF gain
<1>6. pool.reward_per_share \in Nat
  BY DEF TypeInv, TypeOK, StakingPoolAccount
<1>7. pool.reward_per_share <= pool'.reward_per_share
  BY <1>4, <1>5, <1>6
<1> QED
  BY <1>7 DEF DepositRewards

\* Steps that write no account keep every account sound.
LEMMA QuietStepSound ==
    ASSUME IInv, TypeOK', staker' = staker, now <= now',
           pool.reward_per_share <= pool'.reward_per_share
    PROVE  RewardInv'
<1> SUFFICES ASSUME NEW v \in Users
             PROVE  AccountSound(v)'
  BY DEF RewardInv
<1>1. TypeOK /\ AccountSound(v)
  BY DEF IInv, TypeInv, RewardInv
<1> QED
  BY <1>1, AccountKept
\* `stake` moves BRAIN from the wallet to the vault, and counts it.
LEMMA StakePrincipal ==
    ASSUME TypeOK, PrincipalConserved,
           NEW u \in Users, NEW amount \in Amounts, Stake(u, amount)
    PROVE  PrincipalConserved'
<1>1. /\ staker \in [Users -> StakerAccount] /\ wallet \in [Users -> Nat]
      /\ brain_vault \in Nat /\ pool.total_staked \in Nat
      /\ InitialBrain \in Nat /\ amount \in Nat
  BY EnvironmentAssumption DEF TypeOK, StakingPoolAccount
<1>2. /\ wallet' = [wallet EXCEPT ![u] = @ - amount]
      /\ brain_vault' = brain_vault + amount
      /\ staker' = [staker EXCEPT ![u] = NewStaker(amount)]
      /\ pool'.total_staked = pool.total_staked + amount
  BY DEF Stake, TypeOK, StakingPoolAccount
<1>3. staker[u].staked_amount = 0
  BY <1>1 DEF Stake, AccountFree, HasStake, StakerAccount
<1>4. ASSUME NEW v \in Users
      PROVE  wallet'[v] + staker'[v].staked_amount = InitialBrain
  <2>1. /\ wallet[v] + staker[v].staked_amount = InitialBrain
        /\ wallet[v] \in Nat
    BY <1>1 DEF PrincipalConserved
  <2>2. CASE v = u
    <3>1. staker'[v].staked_amount = amount /\ wallet'[v] = wallet[v] - amount
      BY <1>1, <1>2, <2>2 DEF NewStaker
    <3> QED
      BY <1>1, <1>3, <2>1, <2>2, <3>1
  <2>3. CASE v # u
    <3>1. staker'[v] = staker[v] /\ wallet'[v] = wallet[v]
      BY <1>1, <1>2, <2>3
    <3> QED
      BY <2>1, <3>1
  <2> QED
    BY <2>2, <2>3
<1>5. brain_vault' = pool'.total_staked
  BY <1>1, <1>2 DEF PrincipalConserved
<1> QED
  BY <1>4, <1>5 DEF PrincipalConserved

\* `claim` moves no BRAIN.
LEMMA ClaimPrincipal ==
    ASSUME TypeOK, PrincipalConserved, NEW u \in Users, Claim(u)
    PROVE  PrincipalConserved'
<1> DEFINE t == Settled(staker[u])
<1>1. staker \in [Users -> StakerAccount] /\ SettlementComputes(staker[u])
  BY DEF TypeOK, Claim
<1>2. t \in StakerAccount /\ t.staked_amount = staker[u].staked_amount
  BY <1>1, SettledType, SettledFields
<1>3. AfterClaim(t).staked_amount = t.staked_amount
  BY <1>2 DEF AfterClaim, StakerAccount
<1>4. \/ staker' = [staker EXCEPT ![u] = t]
      \/ staker' = [staker EXCEPT ![u] = AfterClaim(t)]
  BY DEF Claim, ClaimNothing, ClaimRewards
<1>5. ASSUME NEW v \in Users
      PROVE  staker'[v].staked_amount = staker[v].staked_amount
  BY <1>1, <1>2, <1>3, <1>4
<1>6. /\ pool'.total_staked = pool.total_staked
      /\ wallet' = wallet /\ brain_vault' = brain_vault
  BY DEF Claim, ClaimNothing, ClaimRewards, TypeOK, StakingPoolAccount
<1> QED
  BY <1>5, <1>6 DEF PrincipalConserved

\* `unstake` moves the whole stake back from the vault to the wallet.
LEMMA UnstakePrincipal ==
    ASSUME TypeOK, PrincipalConserved, NEW u \in Users, Unstake(u)
    PROVE  PrincipalConserved'
<1> DEFINE t == Settled(staker[u])
           staked == staker[u].staked_amount
<1>1. /\ staker \in [Users -> StakerAccount] /\ wallet \in [Users -> Nat]
      /\ brain_vault \in Nat /\ pool.total_staked \in Nat
      /\ InitialBrain \in Nat
  BY EnvironmentAssumption DEF TypeOK, StakingPoolAccount
<1>2. t.staked_amount = staked /\ staked \in Nat
  BY <1>1, SettledFields DEF StakerAccount
<1>3. /\ wallet' = [wallet EXCEPT ![u] = @ + t.staked_amount]
      /\ brain_vault' = brain_vault - t.staked_amount
      /\ staker' = [staker EXCEPT ![u] = NoStaker]
      /\ pool'.total_staked = pool.total_staked - t.staked_amount
  BY DEF Unstake, UnstakeChecks, TypeOK, StakingPoolAccount
<1> HIDE DEF t
<1>4. ASSUME NEW v \in Users
      PROVE  wallet'[v] + staker'[v].staked_amount = InitialBrain
  <2>1. /\ wallet[v] + staker[v].staked_amount = InitialBrain
        /\ wallet[v] \in Nat
    BY <1>1 DEF PrincipalConserved
  <2>2. CASE v = u
    <3>1. staker'[v].staked_amount = 0 /\ wallet'[v] = wallet[v] + staked
      BY <1>1, <1>2, <1>3, <2>2 DEF NoStaker
    <3> QED
      BY <1>1, <1>2, <2>1, <2>2, <3>1
  <2>3. CASE v # u
    <3>1. staker'[v] = staker[v] /\ wallet'[v] = wallet[v]
      BY <1>1, <1>3, <2>3
    <3> QED
      BY <2>1, <3>1
  <2> QED
    BY <2>2, <2>3
<1>5. brain_vault' = pool'.total_staked
  BY <1>1, <1>2, <1>3 DEF PrincipalConserved
<1> QED
  BY <1>4, <1>5 DEF PrincipalConserved

\* The other steps write neither accounts nor balances of BRAIN.
LEMMA QuietPrincipal ==
    ASSUME PrincipalConserved, staker' = staker, wallet' = wallet,
           brain_vault' = brain_vault, pool'.total_staked = pool.total_staked
    PROVE  PrincipalConserved'
BY DEF PrincipalConserved

\* The initial states satisfy the invariant.
LEMMA InitIInv == Init => IInv
<1> SUFFICES ASSUME Init
             PROVE  IInv
  OBVIOUS
<1>1. TypeInv
  BY InitTypeInv
<1>2. RewardInv
  <2> SUFFICES ASSUME NEW u \in Users
               PROVE  AccountSound(u)
    BY DEF RewardInv
  <2>1. staker[u] = NoStaker /\ pool.reward_per_share = 0
    BY DEF Init
  <2>2. /\ staker[u].staked_amount = 0 /\ staker[u].current_multiplier = 0
        /\ staker[u].reward_debt = 0 /\ staker[u].pending_rewards = 0
    BY <2>1 DEF NoStaker
  <2>3. Accumulated(Weight(staker[u])) = 0
    BY <2>1, <2>2, ZeroDiv, AmountsAssumption DEF Accumulated, Weight
  <2> QED
    BY <2>2, <2>3 DEF AccountSound, HasStake
<1>3. PrincipalConserved
  BY EnvironmentAssumption DEF Init, NoStaker, PrincipalConserved
<1> QED
  BY <1>1, <1>2, <1>3 DEF IInv

\* Every step keeps the invariant.
LEMMA NextIInv == IInv /\ [Next]_vars => IInv'
<1> SUFFICES ASSUME IInv, [Next]_vars
             PROVE  IInv'
  OBVIOUS
<1>1. TypeInv /\ TypeOK /\ PrincipalConserved
  BY DEF IInv, TypeInv
<1>2. TypeInv' /\ TypeOK'
  BY <1>1, NextTypes DEF TypeInv
<1>3. ASSUME staker' = staker, wallet' = wallet, brain_vault' = brain_vault,
             pool'.total_staked = pool.total_staked, now <= now',
             pool.reward_per_share <= pool'.reward_per_share
      PROVE  IInv'
  <2>1. RewardInv'
    BY <1>2, <1>3, QuietStepSound
  <2>2. PrincipalConserved'
    BY <1>1, <1>3, QuietPrincipal
  <2> QED
    BY <1>2, <2>1, <2>2 DEF IInv
<1>4. ASSUME NEW u \in Users, NEW amount \in Amounts, Stake(u, amount)
      PROVE  IInv'
  BY <1>1, <1>2, <1>4, StakeSound, StakePrincipal DEF IInv
<1>5. ASSUME NEW u \in Users, Claim(u)
      PROVE  IInv'
  BY <1>1, <1>2, <1>5, ClaimStepSound, ClaimPrincipal DEF IInv
<1>6. ASSUME NEW u \in Users, Unstake(u)
      PROVE  IInv'
  BY <1>1, <1>2, <1>6, UnstakeSound, UnstakePrincipal DEF IInv
<1>7. ASSUME NEW amount \in Deposits, DepositRewards(amount)
      PROVE  IInv'
  <2>1. pool.reward_per_share <= pool'.reward_per_share /\ staker' = staker
        /\ now' = now
    BY <1>1, <1>7, DepositShares
  <2>2. pool'.total_staked = pool.total_staked
    BY <1>1, <1>7 DEF DepositRewards, TypeOK, StakingPoolAccount
  <2>3. wallet' = wallet /\ brain_vault' = brain_vault /\ now \in Nat
    BY <1>1, <1>7 DEF DepositRewards, TypeOK
  <2> QED
    BY <1>3, <2>1, <2>2, <2>3
<1>8. ASSUME NEW min_stake, NEW fee, UpdatePoolConfig(min_stake, fee)
      PROVE  IInv'
  <2>1. /\ pool'.total_staked = pool.total_staked
        /\ pool'.reward_per_share = pool.reward_per_share
        /\ pool.reward_per_share \in Nat /\ now \in Nat
    BY <1>1, <1>8 DEF UpdatePoolConfig, TypeOK, StakingPoolAccount
  <2> QED
    BY <1>3, <1>8, <2>1 DEF UpdatePoolConfig
<1>9. CASE EmergencyHalt \/ Resume
  <2>1. /\ pool'.total_staked = pool.total_staked
        /\ pool'.reward_per_share = pool.reward_per_share
        /\ pool.reward_per_share \in Nat /\ now \in Nat
    BY <1>1, <1>9 DEF EmergencyHalt, Resume, TypeOK, StakingPoolAccount
  <2> QED
    BY <1>3, <1>9, <2>1 DEF EmergencyHalt, Resume
<1>10. CASE Tick \/ UNCHANGED vars
  <2>1. /\ now <= now' /\ pool.reward_per_share \in Nat /\ pool' = pool
        /\ staker' = staker /\ wallet' = wallet /\ brain_vault' = brain_vault
    BY <1>1, <1>10 DEF Tick, vars, TypeOK, StakingPoolAccount
  <2> QED
    BY <1>3, <2>1
<1> QED
  BY <1>4, <1>5, <1>6, <1>7, <1>8, <1>9, <1>10 DEF Next

\* The invariant holds throughout.
LEMMA Invariant == Spec => []IInv
<1>1. Init => IInv
  BY InitIInv
<1>2. IInv /\ [Next]_vars => IInv'
  BY NextIInv
<1> QED
  BY <1>1, <1>2, PTL DEF Spec
----------------------------------------------------------------------------
(* The theorems on states. *)

\* No staker's debt ever exceeds what its weight has accumulated: the
\* checked_sub of the settlement in `claim` and `unstake` never fails.
THEOREM DebtsCovered == Spec => []DebtCovered
<1>1. IInv => DebtCovered
  BY IInvImplies
<1> QED
  BY <1>1, Invariant, PTL

\* No rewards are left pending by a transaction; the forfeiture branch of
\* `unstake` is never taken with anything to forfeit.
THEOREM NothingLeftPending == Spec => []NothingPending
<1>1. IInv => NothingPending
  BY IInvImplies
<1> QED
  BY <1>1, Invariant, PTL

\* No staker is ever recorded at a multiplier it has not reached.
THEOREM MultipliersEarned == Spec => []MultiplierEarned
<1>1. IInv => MultiplierEarned
  BY IInvImplies
<1> QED
  BY <1>1, Invariant, PTL

\* BRAIN is conserved, user by user, and total_staked is the vault's balance.
THEOREM PrincipalSafe == Spec => []PrincipalConserved
<1>1. IInv => PrincipalConserved
  BY IInvImplies
<1> QED
  BY <1>1, Invariant, PTL
----------------------------------------------------------------------------
(* The theorems on steps. *)

\* A payout leaves the vault rent exempt, and the pool paused if it is low.
LEMMA StepLeavesVaultSafe ==
    ASSUME IInv, [Next]_vars, reward_vault' < reward_vault
    PROVE  /\ reward_vault' >= RentMinimum
           /\ reward_vault' < EMERGENCY_VAULT_THRESHOLD => pool'.is_paused
<1>1. TypeInv /\ TypeOK /\ reward_vault \in Nat /\ RentMinimum \in Nat
  BY AmountsAssumption DEF IInv, TypeInv, TypeOK
<1>2. ASSUME NEW u \in Users, NEW lamports \in Nat, PayOut(u, lamports),
             lamports > 0 => VaultCovers(lamports),
             pool'.is_paused = PausedAfter(lamports)
      PROVE  /\ reward_vault' >= RentMinimum
             /\ reward_vault' < EMERGENCY_VAULT_THRESHOLD => pool'.is_paused
  <2>1. reward_vault' = reward_vault - lamports
    BY <1>2 DEF PayOut
  <2>2. lamports > 0
    BY <1>1, <1>2, <2>1
  <2>3. reward_vault' >= RentMinimum
    BY <1>2, <2>1, <2>2 DEF VaultCovers
  <2> QED
    BY <1>2, <2>1, <2>2, <2>3 DEF PausedAfter
<1>3. ASSUME NEW u \in Users, Claim(u)
      PROVE  /\ reward_vault' >= RentMinimum
             /\ reward_vault' < EMERGENCY_VAULT_THRESHOLD => pool'.is_paused
  <2> DEFINE total == Claimable(Settled(staker[u]))
  <2>1. total \in Nat
    BY <1>1, <1>3, SettledType DEF Claim, TypeOK
  <2>2. ClaimRewards(u)
    BY <1>1, <1>3 DEF Claim, ClaimNothing
  <2>3. /\ VaultCovers(total) /\ PayOut(u, total)
        /\ pool'.is_paused = PausedAfter(total)
    BY <1>1, <2>2 DEF ClaimRewards, TypeOK, StakingPoolAccount
  <2> HIDE DEF total
  <2> QED
    BY <1>2, <2>1, <2>3
<1>4. ASSUME NEW u \in Users, Unstake(u)
      PROVE  /\ reward_vault' >= RentMinimum
             /\ reward_vault' < EMERGENCY_VAULT_THRESHOLD => pool'.is_paused
  <2> DEFINE total == UnstakePayment(Settled(staker[u]))
  <2>1. total \in Nat
    BY <1>1, <1>4, SettledType DEF Unstake, UnstakeChecks, UnstakePayment, TypeOK
  <2>2. /\ total > 0 => VaultCovers(total)
        /\ PayOut(u, total)
        /\ pool'.is_paused = PausedAfter(total)
    BY <1>1, <1>4 DEF Unstake, UnstakeChecks, TypeOK, StakingPoolAccount
  <2> HIDE DEF total
  <2> QED
    BY <1>2, <2>1, <2>2
<1>5. ASSUME NEW amount \in Deposits, DepositRewards(amount)
      PROVE  FALSE
  <2> DEFINE net == amount - ProtocolFee(amount)
  <2>1. net \in Nat
    BY <1>1, DepositSplit, EnvironmentAssumption
  <2>2. reward_vault' = reward_vault + net
    BY <1>5 DEF DepositRewards
  <2> HIDE DEF net
  <2> QED
    BY <1>1, <2>1, <2>2
<1>6. ASSUME UNCHANGED reward_vault
      PROVE  FALSE
  BY <1>1, <1>6
<1> QED
  BY <1>3, <1>4, <1>5, <1>6
     DEF Next, vars, Stake, UpdatePoolConfig, EmergencyHalt, Resume, Tick

\* No payout ever takes the vault below its rent minimum, and one that takes
\* it below the emergency threshold pauses the pool in the same transaction.
THEOREM VaultSafe == Spec => PayoutsLeaveVaultSafe
<1>1. IInv /\ [Next]_vars =>
        [reward_vault' < reward_vault =>
            /\ reward_vault' >= RentMinimum
            /\ reward_vault' < EMERGENCY_VAULT_THRESHOLD => pool'.is_paused]_vars
  BY StepLeavesVaultSafe
<1> QED
  BY <1>1, Invariant, PTL DEF Spec, PayoutsLeaveVaultSafe

\* What `unstake` pays is all that was claimable, and it forfeits nothing.
LEMMA UnstakePaysAll ==
    ASSUME IInv, NEW u \in Users, Unstake(u)
    PROVE  /\ UnstakePayment(Settled(staker[u])) = Claimable(staker[u])
           /\ Forfeit(Settled(staker[u]), SettledWeightedStake(staker[u])) = 0
<1> DEFINE t == Settled(staker[u])
<1>1. /\ TypeOK /\ AccountSound(u) /\ HasStake(u)
      /\ SettlementComputes(staker[u]) /\ staker[u] \in StakerAccount
  BY DEF IInv, TypeInv, TypeOK, RewardInv, Unstake, UnstakeChecks
<1>2. /\ t.current_multiplier = 0 => t = staker[u]
      /\ Claimable(t) = Claimable(staker[u])
  BY <1>1, SettledSound
<1>3. t.current_multiplier \in 0..3
  BY <1>1, SettledType DEF StakerAccount
<1>4. CASE t.current_multiplier = 0
  <2>1. t = staker[u] /\ t.pending_rewards = 0
    BY <1>1, <1>2, <1>4 DEF AccountSound
  <2> QED
    BY <1>4, <2>1 DEF UnstakePayment, Claimable, Owed, Forfeit
<1>5. CASE t.current_multiplier > 0
  BY <1>2, <1>5 DEF UnstakePayment, Forfeit
<1> QED
  BY <1>3, <1>4, <1>5

\* While the pool is paused a step neither shares rewards, nor funds the
\* vault, nor writes an account, except that an account may close.
LEMMA StepWhilePaused ==
    ASSUME IInv, [Next]_vars, pool.is_paused
    PROVE  /\ pool'.reward_per_share = pool.reward_per_share
           /\ reward_vault' <= reward_vault
           /\ \A u \in Users : staker'[u] \in {staker[u], NoStaker}
<1>1. TypeOK /\ reward_vault \in Nat /\ pool.reward_per_share \in Nat
  BY DEF IInv, TypeInv, TypeOK, StakingPoolAccount
<1>2. ASSUME NEW u \in Users, Unstake(u)
      PROVE  /\ pool'.reward_per_share = pool.reward_per_share
             /\ reward_vault' <= reward_vault
             /\ \A v \in Users : staker'[v] \in {staker[v], NoStaker}
  <2> DEFINE gain == Forfeit(Settled(staker[u]), SettledWeightedStake(staker[u]))
             total == UnstakePayment(Settled(staker[u]))
  <2>1. gain = 0
    BY <1>2, UnstakePaysAll
  <2>2. pool'.reward_per_share = pool.reward_per_share + gain
    BY <1>1, <1>2 DEF Unstake, UnstakeChecks, TypeOK, StakingPoolAccount
  <2>3. total \in Nat
    BY <1>1, <1>2, SettledType DEF Unstake, UnstakeChecks, UnstakePayment, TypeOK
  <2>4. reward_vault' = reward_vault - total
    BY <1>2 DEF Unstake, UnstakeChecks, PayOut
  <2>5. staker' = [staker EXCEPT ![u] = NoStaker]
    BY <1>2 DEF Unstake, UnstakeChecks
  <2> HIDE DEF gain, total
  <2>6. \A v \in Users : staker'[v] \in {staker[v], NoStaker}
    BY <1>1, <2>5 DEF TypeOK
  <2> QED
    BY <1>1, <2>1, <2>2, <2>3, <2>4, <2>6
<1>3. ASSUME NEW min_stake, NEW fee, UpdatePoolConfig(min_stake, fee)
      PROVE  /\ pool'.reward_per_share = pool.reward_per_share
             /\ reward_vault' = reward_vault /\ staker' = staker
  BY <1>1, <1>3 DEF UpdatePoolConfig, TypeOK, StakingPoolAccount
<1>4. ASSUME EmergencyHalt \/ Resume \/ Tick \/ UNCHANGED vars
      PROVE  /\ pool'.reward_per_share = pool.reward_per_share
             /\ reward_vault' = reward_vault /\ staker' = staker
  BY <1>1, <1>4
     DEF EmergencyHalt, Resume, Tick, vars, TypeOK, StakingPoolAccount
<1> QED
  BY <1>1, <1>2, <1>3, <1>4 DEF Next, Stake, Claim, DepositRewards

\* A paused pool only releases: nothing is claimed, opened, shared or
\* upgraded, and an exit changes no one else's rewards.
THEOREM PauseHolds == Spec => PausedPoolOnlyReleases
<1>1. IInv /\ [Next]_vars =>
        [pool.is_paused =>
            /\ pool'.reward_per_share = pool.reward_per_share
            /\ reward_vault' <= reward_vault
            /\ \A u \in Users : staker'[u] \in {staker[u], NoStaker}]_vars
  BY StepWhilePaused
<1> QED
  BY <1>1, Invariant, PTL DEF Spec, PausedPoolOnlyReleases

\* An account a step does not touch can claim no less after it.
LEMMA ClaimableKept ==
    ASSUME TypeOK, TypeOK', NEW u \in Users, staker'[u] = staker[u],
           pool.reward_per_share <= pool'.reward_per_share
    PROVE  Claimable(staker[u])' >= Claimable(staker[u])
<1>1. staker[u] \in StakerAccount
  BY DEF TypeOK
<1>2. /\ staker[u].pending_rewards \in Nat /\ staker[u].reward_debt \in Nat
      /\ staker[u].current_multiplier \in 0..3 /\ Weight(staker[u]) \in Nat
  BY <1>1, WeightNat DEF StakerAccount
<1> DEFINE before == (Weight(staker[u]) * pool.reward_per_share) \div PRECISION
           after  == (Weight(staker[u]) * pool'.reward_per_share) \div PRECISION
<1>3. before <= after
  BY <1>2, AccumulatedGrows
<1>4. Accumulated(Weight(staker[u])) = before /\ Accumulated(Weight(staker[u]))' = after
  BY DEF Accumulated, Weight
<1>5. pool.reward_per_share \in Nat /\ pool'.reward_per_share \in Nat
  BY DEF TypeOK, StakingPoolAccount
<1>6. before \in Nat /\ after \in Nat
  BY <1>2, <1>5, TimesNat, DivNat, AmountsAssumption
<1> HIDE DEF before, after
<1>7. CASE staker[u].current_multiplier > 0
  <2>1. /\ Claimable(staker[u])
             = staker[u].pending_rewards + (before - staker[u].reward_debt)
        /\ Claimable(staker[u])'
             = staker[u].pending_rewards + (after - staker[u].reward_debt)
    BY <1>4, <1>7 DEF Claimable, Owed
  <2> QED
    BY <1>2, <1>3, <1>6, <2>1
<1>8. CASE ~(staker[u].current_multiplier > 0)
  BY <1>2, <1>8 DEF Claimable, Owed
<1> QED
  BY <1>7, <1>8
\* A step pays u nothing and leaves it at least as much to claim, or pays it
\* exactly what it could claim.
FairTo(u) ==
    \/ /\ user_sol'[u] = user_sol[u]
       /\ HasStake(u) => Claimable(staker[u])' >= Claimable(staker[u])
    \/ user_sol'[u] = user_sol[u] + Claimable(staker[u])

\* A step that writes neither u's account nor its balance is fair to it.
LEMMA FairToOthers ==
    ASSUME TypeOK, TypeOK', NEW u \in Users, staker'[u] = staker[u],
           user_sol'[u] = user_sol[u],
           pool.reward_per_share <= pool'.reward_per_share
    PROVE  FairTo(u)
BY ClaimableKept DEF FairTo

\* `claim` is fair to the one who claims.
LEMMA ClaimFair ==
    ASSUME IInv, NEW u \in Users, Claim(u)
    PROVE  FairTo(u)
<1> DEFINE t == Settled(staker[u])
<1>1. /\ TypeOK /\ AccountSound(u) /\ HasStake(u)
      /\ SettlementComputes(staker[u]) /\ staker[u] \in StakerAccount
  BY DEF IInv, TypeInv, TypeOK, RewardInv, Claim
<1>2. Claimable(t) = Claimable(staker[u])
  BY <1>1, SettledSound
<1>3. t \in StakerAccount /\ Claimable(t) \in Nat
  BY <1>1, SettledType
<1>4. CASE ClaimNothing(u)
  <2>1. /\ staker'[u] = t /\ user_sol' = user_sol
        /\ pool'.reward_per_share = pool.reward_per_share
    BY <1>1, <1>4 DEF ClaimNothing, TypeOK, StakingPoolAccount
  <2> HIDE DEF t
  <2>2. Claimable(staker[u])' = Claimable(t)
    BY <2>1 DEF Claimable, Owed, Accumulated, Weight
  <2> QED
    BY <1>2, <1>3, <2>1, <2>2 DEF FairTo
<1>5. CASE ClaimRewards(u)
  <2>1. user_sol' = [user_sol EXCEPT ![u] = @ + Claimable(t)]
    BY <1>5 DEF ClaimRewards, PayOut
  <2> HIDE DEF t
  <2>2. user_sol'[u] = user_sol[u] + Claimable(t)
    BY <1>1, <2>1 DEF TypeOK
  <2> QED
    BY <1>2, <2>2 DEF FairTo
<1> QED
  BY <1>4, <1>5 DEF Claim

\* Every step is fair to every user.
LEMMA StepFair ==
    ASSUME IInv, [Next]_vars, NEW v \in Users
    PROVE  FairTo(v)
<1>1. TypeInv /\ TypeOK /\ pool.reward_per_share \in Nat
  BY DEF IInv, TypeInv, TypeOK, StakingPoolAccount
<1>2. TypeOK'
  BY <1>1, NextTypes DEF TypeInv
<1>3. ASSUME NEW u \in Users, NEW amount \in Amounts, Stake(u, amount)
      PROVE  FairTo(v)
  <2>1. pool'.reward_per_share = pool.reward_per_share /\ user_sol' = user_sol
    BY <1>1, <1>3 DEF Stake, TypeOK, StakingPoolAccount
  <2>2. CASE v = u
    <3>1. ~HasStake(v)
      BY <1>3, <2>2 DEF Stake, AccountFree
    <3> QED
      BY <2>1, <3>1 DEF FairTo
  <2>3. CASE v # u
    <3>1. staker'[v] = staker[v]
      BY <1>1, <1>3, <2>3 DEF Stake, TypeOK
    <3> QED
      BY <1>1, <1>2, <2>1, <3>1, FairToOthers
  <2> QED
    BY <2>2, <2>3
<1>4. ASSUME NEW u \in Users, Claim(u)
      PROVE  FairTo(v)
  <2>1. CASE v = u
    BY <1>4, <2>1, ClaimFair
  <2>2. CASE v # u
    <3>1. /\ staker'[v] = staker[v] /\ user_sol'[v] = user_sol[v]
          /\ pool'.reward_per_share = pool.reward_per_share
      BY <1>1, <1>4, <2>2
         DEF Claim, ClaimNothing, ClaimRewards, PayOut, TypeOK, StakingPoolAccount
    <3> QED
      BY <1>1, <1>2, <3>1, FairToOthers
  <2> QED
    BY <2>1, <2>2
<1>5. ASSUME NEW u \in Users, Unstake(u)
      PROVE  FairTo(v)
  <2> DEFINE total == UnstakePayment(Settled(staker[u]))
  <2>1. /\ pool.reward_per_share <= pool'.reward_per_share
        /\ staker' = [staker EXCEPT ![u] = NoStaker]
    BY <1>1, <1>5, UnstakeShares
  <2>2. total = Claimable(staker[u])
    BY <1>5, UnstakePaysAll
  <2>3. user_sol' = [user_sol EXCEPT ![u] = @ + total]
    BY <1>5 DEF Unstake, UnstakeChecks, PayOut
  <2> HIDE DEF total
  <2>4. CASE v = u
    <3>1. user_sol'[v] = user_sol[v] + total
      BY <1>1, <2>3, <2>4 DEF TypeOK
    <3> QED
      BY <2>2, <2>4, <3>1 DEF FairTo
  <2>5. CASE v # u
    <3>1. staker'[v] = staker[v] /\ user_sol'[v] = user_sol[v]
      BY <1>1, <2>1, <2>3, <2>5 DEF TypeOK
    <3> QED
      BY <1>1, <1>2, <2>1, <3>1, FairToOthers
  <2> QED
    BY <2>4, <2>5
<1>6. ASSUME NEW amount \in Deposits, DepositRewards(amount)
      PROVE  FairTo(v)
  <2>1. pool.reward_per_share <= pool'.reward_per_share /\ staker' = staker
    BY <1>1, <1>6, DepositShares
  <2>2. user_sol' = user_sol
    BY <1>6 DEF DepositRewards
  <2> QED
    BY <1>1, <1>2, <2>1, <2>2, FairToOthers
<1>7. ASSUME NEW min_stake, NEW fee, UpdatePoolConfig(min_stake, fee)
      PROVE  FairTo(v)
  <2>1. pool'.reward_per_share = pool.reward_per_share
    BY <1>1, <1>7 DEF UpdatePoolConfig, TypeOK, StakingPoolAccount
  <2> QED
    BY <1>1, <1>2, <1>7, <2>1, FairToOthers DEF UpdatePoolConfig
<1>8. ASSUME EmergencyHalt \/ Resume \/ Tick \/ UNCHANGED vars
      PROVE  FairTo(v)
  <2>1. /\ pool'.reward_per_share = pool.reward_per_share
        /\ staker' = staker /\ user_sol' = user_sol
    BY <1>1, <1>8
       DEF EmergencyHalt, Resume, Tick, vars, TypeOK, StakingPoolAccount
  <2> QED
    BY <1>1, <1>2, <2>1, FairToOthers
<1> QED
  BY <1>3, <1>4, <1>5, <1>6, <1>7, <1>8 DEF Next

\* Accrued rewards are safe from everyone else: they only grow until the
\* staker is paid exactly them, whatever its multiplier becomes meanwhile.
THEOREM RewardsPaidExactly == Spec => PaidExactlyWhatAccrued
<1>1. IInv /\ [Next]_vars =>
        [\A u \in Users :
            \/ /\ user_sol'[u] = user_sol[u]
               /\ HasStake(u) => Claimable(staker[u])' >= Claimable(staker[u])
            \/ user_sol'[u] = user_sol[u] + Claimable(staker[u])]_vars
  BY StepFair DEF FairTo
<1> QED
  BY <1>1, Invariant, PTL DEF Spec, PaidExactlyWhatAccrued
=============================================================================
