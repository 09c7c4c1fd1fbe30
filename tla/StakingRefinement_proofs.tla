----------------------- MODULE StakingRefinement_proofs -----------------------
(***************************************************************************)
(* Proof that StakingPool implements StakingLedger: initial states map to  *)
(* initial states, and every instruction to a step of the ledger or to     *)
(* none.                                                                   *)
(***************************************************************************)
EXTENDS StakingRefinement, StakingPool_proofs

\* The ledger's view of the stakes.
Locked == [u \in Users |-> staker[u].staked_amount]

\* The stakes after a step that writes u's account only.
LEMMA LockedUpdate ==
    ASSUME TypeOK, NEW u \in Users, NEW s \in StakerAccount,
           staker' = [staker EXCEPT ![u] = s]
    PROVE  Locked' = [Locked EXCEPT ![u] = s.staked_amount]
BY DEF Locked, TypeOK

\* Without a payout the pool is paused as before.
LEMMA PausedAfterNothing ==
    ASSUME TypeOK
    PROVE  PausedAfter(0) = pool.is_paused
<1>1. pool.is_paused \in BOOLEAN /\ ~(0 > 0)
  BY DEF TypeOK, StakingPoolAccount
<1>2. pool.is_paused = TRUE \/ pool.is_paused = FALSE
  BY <1>1
<1>3. PausedAfter(0) = (pool.is_paused \/ FALSE)
  BY <1>1 DEF PausedAfter
<1> QED
  BY <1>2, <1>3

\* A payout leaves the flag as it is, or sets it because lamports left the
\* vault.
LEMMA PauseAfterPayOut ==
    ASSUME TypeOK, NEW lamports \in Nat, reward_vault' = reward_vault - lamports,
           pool'.is_paused = PausedAfter(lamports)
    PROVE  /\ pool'.is_paused \in {pool.is_paused, reward_vault' # reward_vault}
           /\ pool.is_paused => pool'.is_paused
<1>1. pool.is_paused \in BOOLEAN /\ reward_vault \in Nat
  BY DEF TypeOK, StakingPoolAccount
<1>2. CASE lamports = 0
  <2>1. pool'.is_paused = pool.is_paused
    BY <1>2, PausedAfterNothing
  <2> QED
    BY <2>1
<1>3. CASE lamports > 0
  <2>1. (reward_vault' # reward_vault) = TRUE
    BY <1>1, <1>3
  <2>2. pool'.is_paused = TRUE \/ pool'.is_paused = FALSE
    BY DEF PausedAfter
  <2>3. pool.is_paused => pool'.is_paused
    BY DEF PausedAfter
  <2>4. pool.is_paused = TRUE \/ pool.is_paused = FALSE
    BY <1>1
  <2>5. CASE pool'.is_paused = TRUE
    BY <2>1, <2>5
  <2>6. CASE pool'.is_paused = FALSE
    BY <2>3, <2>4, <2>6
  <2> QED
    BY <2>2, <2>5, <2>6
<1> QED
  BY <1>2, <1>3

\* A payout of the pool is a payment of the ledger.
LEMMA PayOutIsPayment ==
    ASSUME TypeOK, NEW u \in Users, NEW lamports \in Nat, PayOut(u, lamports),
           lamports > 0 => VaultCovers(lamports),
           pool'.is_paused = PausedAfter(lamports), treasury' = treasury
    PROVE  Ledger!Payment(u)
<1>1. reward_vault' = reward_vault - lamports /\ reward_vault \in Nat
  BY DEF PayOut, TypeOK
<1>2. reward_vault' <= reward_vault
  BY <1>1
<1>3. reward_vault' # reward_vault => reward_vault' >= RentMinimum
  BY <1>1 DEF VaultCovers
<1>4. user_sol' = [user_sol EXCEPT ![u] = @ + (reward_vault - reward_vault')]
  <2>1. reward_vault - reward_vault' = lamports
    BY <1>1
  <2> QED
    BY <2>1 DEF PayOut
<1>5. /\ pool'.is_paused \in {pool.is_paused, reward_vault' # reward_vault}
      /\ pool.is_paused => pool'.is_paused
  BY <1>1, PauseAfterPayOut
<1> QED
  BY <1>2, <1>3, <1>4, <1>5 DEF Ledger!Payment

\* Initial states are the ledger's.
LEMMA InitIsLedgers == Init => Ledger!Init
<1> SUFFICES ASSUME Init
             PROVE  Ledger!Init
  OBVIOUS
<1>1. Locked = [u \in Users |-> 0]
  BY DEF Init, NoStaker, Locked
<1> QED
  BY <1>1, EnvironmentAssumption DEF Init, Ledger!Init, Locked

\* `stake` locks.
LEMMA StakeLocks ==
    ASSUME TypeOK, NEW u \in Users, NEW amount \in Amounts, Stake(u, amount)
    PROVE  Ledger!Lock(u)
<1>1. amount \in Nat /\ amount > 0 /\ staker \in [Users -> StakerAccount]
  BY EnvironmentAssumption DEF Stake, TypeOK
<1>2. NewStaker(amount) \in StakerAccount /\ NewStaker(amount).staked_amount = amount
  BY <1>1 DEF NewStaker, StakerAccount, TypeOK
<1>3. Locked' = [Locked EXCEPT ![u] = amount]
  BY <1>2, LockedUpdate DEF Stake
<1>4. Locked'[u] = amount
  BY <1>3 DEF Locked
<1>5. Locked[u] = 0
  BY <1>1 DEF Stake, AccountFree, HasStake, Locked, StakerAccount
<1>6. pool'.is_paused = pool.is_paused
  BY DEF Stake, TypeOK, StakingPoolAccount
<1> QED
  BY <1>1, <1>3, <1>4, <1>5, <1>6 DEF Stake, Ledger!Lock, Locked

\* `claim` rewards.
LEMMA ClaimIsReward ==
    ASSUME TypeOK, NEW u \in Users, Claim(u)
    PROVE  Ledger!Reward(u)
<1> DEFINE t == Settled(staker[u])
           total == Claimable(t)
<1>1. staker \in [Users -> StakerAccount] /\ SettlementComputes(staker[u])
  BY DEF Claim, TypeOK
<1>2. /\ t \in StakerAccount /\ total \in Nat
      /\ t.staked_amount = staker[u].staked_amount
  BY <1>1, SettledType, SettledFields
<1>3. AfterClaim(t) \in StakerAccount /\ AfterClaim(t).staked_amount = t.staked_amount
  BY <1>2, WeightNat, AccumulatedNat DEF AfterClaim, StakerAccount
<1>4. \/ staker' = [staker EXCEPT ![u] = t]
      \/ staker' = [staker EXCEPT ![u] = AfterClaim(t)]
  BY DEF Claim, ClaimNothing, ClaimRewards
<1>5. Locked' = [Locked EXCEPT ![u] = staker[u].staked_amount]
  BY <1>2, <1>3, <1>4, LockedUpdate
<1>6. Locked' = Locked
  BY <1>5 DEF Locked
<1>7. Ledger!Payment(u)
  <2>1. CASE ClaimNothing(u)
    <3>1. /\ PayOut(u, 0)
          /\ pool'.is_paused = pool.is_paused
      BY <2>1 DEF ClaimNothing, PayOut, TypeOK, StakingPoolAccount
    <3>2. pool'.is_paused = PausedAfter(0)
      BY <3>1, PausedAfterNothing
    <3> QED
      BY <3>1, <3>2, PayOutIsPayment DEF Claim
  <2>2. CASE ClaimRewards(u)
    <3>1. /\ PayOut(u, total) /\ VaultCovers(total)
          /\ pool'.is_paused = PausedAfter(total)
      BY <2>2 DEF ClaimRewards, TypeOK, StakingPoolAccount
    <3> HIDE DEF total
    <3> QED
      BY <1>2, <3>1, PayOutIsPayment DEF Claim
  <2> QED
    BY <2>1, <2>2 DEF Claim
<1> QED
  BY <1>1, <1>6, <1>7 DEF Claim, HasStake, Ledger!Reward, Locked

\* `unstake` releases.
LEMMA UnstakeReleases ==
    ASSUME TypeOK, NEW u \in Users, Unstake(u)
    PROVE  Ledger!Release(u)
<1> DEFINE total == UnstakePayment(Settled(staker[u]))
<1>1. staker[u] \in StakerAccount /\ SettlementComputes(staker[u])
  BY DEF Unstake, UnstakeChecks, TypeOK
<1>2. total \in Nat
  BY <1>1, SettledType DEF UnstakePayment
<1>3. /\ PayOut(u, total)
      /\ total > 0 => VaultCovers(total)
      /\ pool'.is_paused = PausedAfter(total)
      /\ staker' = [staker EXCEPT ![u] = NoStaker]
      /\ treasury' = treasury
      /\ HasStake(u)
  BY DEF Unstake, UnstakeChecks, TypeOK, StakingPoolAccount
<1> HIDE DEF total
<1>4. Ledger!Payment(u)
  BY <1>2, <1>3, PayOutIsPayment
<1>5. NoStaker \in StakerAccount /\ NoStaker.staked_amount = 0
  BY DEF NoStaker, StakerAccount
<1>6. Locked' = [Locked EXCEPT ![u] = 0]
  BY <1>3, <1>5, LockedUpdate
<1> QED
  BY <1>3, <1>4, <1>6 DEF HasStake, Ledger!Release, Locked
\* `deposit_rewards` funds, and its fee is within the ledger's.
LEMMA DepositFunds ==
    ASSUME TypeInv, NEW amount \in Deposits, DepositRewards(amount)
    PROVE  Ledger!Fund
<1> DEFINE fee == ProtocolFee(amount)
<1>1. amount \in Nat /\ pool.protocol_fee_bps \in Nat /\ treasury \in Nat
      /\ reward_vault \in Nat /\ BpsDenominator \in Nat /\ BpsDenominator > 0
      /\ MAX_PROTOCOL_FEE_BPS \in Nat
      /\ pool.protocol_fee_bps <= MAX_PROTOCOL_FEE_BPS
  BY EnvironmentAssumption, AmountsAssumption
     DEF TypeInv, TypeOK, FeeBounded, StakingPoolAccount
<1>2. fee \in Nat /\ amount - fee \in Nat
  BY <1>1, DepositSplit
<1>3. /\ treasury' = treasury + fee
      /\ reward_vault' = reward_vault + (amount - fee)
      /\ amount >= MIN_REWARD_DEPOSIT
      /\ ~pool.is_paused
      /\ pool'.is_paused = pool.is_paused
      /\ staker' = staker /\ user_sol' = user_sol
  BY DEF DepositRewards, TypeInv, TypeOK, StakingPoolAccount
<1>4. fee * BpsDenominator <= amount * MAX_PROTOCOL_FEE_BPS
  <2>1. fee * BpsDenominator <= amount * pool.protocol_fee_bps
    BY <1>1, FeeWithinShare DEF ProtocolFee
  <2>2. amount * pool.protocol_fee_bps <= amount * MAX_PROTOCOL_FEE_BPS
    BY <1>1, TimesMonotone
  <2>3. /\ fee * BpsDenominator \in Nat
        /\ amount * pool.protocol_fee_bps \in Nat
        /\ amount * MAX_PROTOCOL_FEE_BPS \in Nat
    BY <1>1, <1>2, TimesNat
  <2> QED
    BY <2>1, <2>2, <2>3
<1> HIDE DEF fee
<1>5. treasury' - treasury = fee /\ reward_vault' - reward_vault = amount - fee
  BY <1>1, <1>2, <1>3
<1>6. (amount - fee) + fee = amount
  BY <1>1, <1>2
<1>7. amount - fee >= 0 /\ fee >= 0
  BY <1>2
<1> QED
  BY <1>3, <1>4, <1>5, <1>6, <1>7 DEF Ledger!Fund

\* Every step of the pool is one of the ledger, or none.
LEMMA NextIsLedgers == IInv /\ [Next]_vars => [Ledger!Next]_(Ledger!vars)
<1> SUFFICES ASSUME IInv, [Next]_vars
             PROVE  Ledger!Next \/ UNCHANGED Ledger!vars
  OBVIOUS
<1>1. TypeInv /\ TypeOK
  BY DEF IInv, TypeInv
<1>2. ASSUME NEW u \in Users, NEW amount \in Amounts, Stake(u, amount)
      PROVE  Ledger!Next
  BY <1>1, <1>2, StakeLocks DEF Ledger!Next
<1>3. ASSUME NEW u \in Users, Claim(u)
      PROVE  Ledger!Next
  BY <1>1, <1>3, ClaimIsReward DEF Ledger!Next
<1>4. ASSUME NEW u \in Users, Unstake(u)
      PROVE  Ledger!Next
  BY <1>1, <1>4, UnstakeReleases DEF Ledger!Next
<1>5. ASSUME NEW amount \in Deposits, DepositRewards(amount)
      PROVE  Ledger!Next
  BY <1>1, <1>5, DepositFunds DEF Ledger!Next
<1>6. ASSUME NEW min_stake, NEW fee, UpdatePoolConfig(min_stake, fee)
      PROVE  UNCHANGED Ledger!vars
  <2>1. pool'.is_paused = pool.is_paused
    BY <1>1, <1>6 DEF UpdatePoolConfig, TypeOK, StakingPoolAccount
  <2> QED
    BY <1>6, <2>1 DEF UpdatePoolConfig, Ledger!vars
<1>7. CASE EmergencyHalt \/ Resume
  <2>1. pool'.is_paused \in BOOLEAN
    BY <1>1, <1>7 DEF EmergencyHalt, Resume, TypeOK, StakingPoolAccount
  <2> QED
    BY <1>7, <2>1 DEF EmergencyHalt, Resume, Ledger!Next, Ledger!HaltOrResume
<1>8. CASE Tick \/ UNCHANGED vars
  BY <1>8 DEF Tick, vars, Ledger!vars
<1> QED
  BY <1>2, <1>3, <1>4, <1>5, <1>6, <1>7, <1>8 DEF Next

\* The pool implements the ledger: stakes come back whole, by their owner's
\* own step, paused or not; the vault pays one user at a time and stays rent
\* exempt; a fee is never more than the maximal share of its deposit.
THEOREM PoolImplementsLedger == Spec => ImplementsLedger
<1>1. Init => Ledger!Init
  BY InitIsLedgers
<1>2. IInv /\ [Next]_vars => [Ledger!Next]_(Ledger!vars)
  BY NextIsLedgers
<1> QED
  BY <1>1, <1>2, Invariant, PTL DEF Spec, ImplementsLedger, Ledger!Spec
=============================================================================
