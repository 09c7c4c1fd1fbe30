---------------------- MODULE RewardAccounting_proofs ----------------------
(***************************************************************************)
(* Proofs about RewardAccounting: the pool's accumulator gives every       *)
(* staker its shares of the deposits, and the vault can pay them, for any  *)
(* finite set of users and every value of the constants.                   *)
(***************************************************************************)
EXTENDS RewardAccounting, StakingPool_proofs

\* What u's weight has accumulated since its debt was written, before it is
\* rounded to lamports, in 1/PRECISION lamports.
Accrued(u) ==
    Weight(staker[u]) * pool.reward_per_share - PRECISION * staker[u].reward_debt

\* Whether u's weight earns, and whether a step raises it: 1 or 0, to count
\* roundings by.
Earning(u) == IF Weight(staker[u]) > 0 THEN 1 ELSE 0

Raises(u) == IF Raised(u) THEN 1 ELSE 0

\* The types of the history variables.
HistoryType ==
    /\ earned \in [Users -> Nat]
    /\ truncated \in [Users -> Nat]
    /\ upgrades \in [Users -> Nat]

\* What u was paid and has accrued, against its shares of the deposits.  The
\* first upgrade, from no weight at all, settles nothing and loses nothing.
Bounded(u) ==
    LET record == PRECISION * user_sol[u] + Accrued(u)
    IN  /\ record <= earned[u] + upgrades[u] * (PRECISION - 1)
        /\ record >= earned[u] - truncated[u]
                       - (upgrades[u] - Earning(u)) * (PRECISION - 1)

\* The shares of a deposit do not exceed it ...
SharesWithinDeposits ==
    Sum(earned) <= PRECISION * pool.total_rewards_distributed

\* ... and all that was deposited was paid to stakers or is in the vault.
DepositsKept ==
    pool.total_rewards_distributed <= reward_vault + Sum(user_sol)

\* The inductive invariant.
HInv ==
    /\ IInv
    /\ HistoryType
    /\ \A u \in Users : Bounded(u)
    /\ TotalsMatchAccounts
    /\ SharesWithinDeposits
    /\ DepositsKept
----------------------------------------------------------------------------
(* One account. *)

\* The numbers of a sound account.
LEMMA AccountNumbers ==
    ASSUME TypeOK, NEW u \in Users
    PROVE  /\ staker[u] \in StakerAccount
           /\ Weight(staker[u]) \in Nat
           /\ staker[u].staked_amount \in Nat
           /\ staker[u].reward_debt \in Nat
           /\ staker[u].current_multiplier \in 0..3
           /\ pool.reward_per_share \in Nat
           /\ Weight(staker[u]) * pool.reward_per_share \in Nat
           /\ Accumulated(Weight(staker[u])) \in Nat
           /\ Accrued(u) \in Int
           /\ Earning(u) \in {0, 1}
           /\ user_sol[u] \in Nat
<1>1. /\ staker[u] \in StakerAccount /\ pool.reward_per_share \in Nat
      /\ user_sol[u] \in Nat
  BY DEF TypeOK, StakingPoolAccount
<1>2. Weight(staker[u]) \in Nat
  BY <1>1, WeightNat
<1>3. Accumulated(Weight(staker[u])) \in Nat
  BY <1>2, AccumulatedNat
<1>4. Weight(staker[u]) * pool.reward_per_share \in Nat
  BY <1>1, <1>2, TimesNat
<1>5. /\ staker[u].staked_amount \in Nat /\ staker[u].reward_debt \in Nat
      /\ staker[u].current_multiplier \in 0..3
  BY <1>1 DEF StakerAccount
<1>6. PRECISION * staker[u].reward_debt \in Nat
  BY <1>5, TimesNat, AmountsAssumption
<1>7. Accrued(u) \in Int
  BY <1>4, <1>6 DEF Accrued
<1> QED
  BY <1>1, <1>2, <1>3, <1>4, <1>5, <1>7 DEF Earning

\* A weight of zero has accrued nothing and has nothing to claim.
LEMMA WeightlessAccrued ==
    ASSUME TypeOK, NEW u \in Users, AccountSound(u), Weight(staker[u]) = 0
    PROVE  Accrued(u) = 0 /\ Claimable(staker[u]) = 0
<1>1. /\ staker[u].reward_debt \in Nat /\ pool.reward_per_share \in Nat
  BY AccountNumbers
<1>2. Weight(staker[u]) * pool.reward_per_share = 0
  BY <1>1
<1>3. Accumulated(Weight(staker[u])) = 0
  BY <1>2, ZeroDiv, AmountsAssumption DEF Accumulated
<1>4. staker[u].reward_debt = 0 /\ staker[u].pending_rewards = 0
  BY <1>1, <1>3 DEF AccountSound
<1>5. Accrued(u) = 0
  BY <1>2, <1>4, AmountsAssumption DEF Accrued
<1> QED
  BY <1>3, <1>4, <1>5 DEF Claimable, Owed

\* What can be claimed is what has accrued, rounded down to lamports.
LEMMA ClaimableAccrued ==
    ASSUME TypeOK, NEW u \in Users, AccountSound(u)
    PROVE  /\ Claimable(staker[u]) \in Nat
           /\ PRECISION * Claimable(staker[u]) <= Accrued(u)
           /\ Accrued(u) <= PRECISION * Claimable(staker[u])
                                + Earning(u) * (PRECISION - 1)
<1>1. /\ staker[u] \in StakerAccount
      /\ Weight(staker[u]) \in Nat
      /\ staker[u].staked_amount \in Nat
      /\ staker[u].reward_debt \in Nat
      /\ staker[u].current_multiplier \in 0..3
      /\ Weight(staker[u]) * pool.reward_per_share \in Nat
      /\ Accumulated(Weight(staker[u])) \in Nat
  BY AccountNumbers
<1>2. PRECISION \in Nat /\ PRECISION > 0
  BY AmountsAssumption
<1>3. CASE Weight(staker[u]) = 0
  <2>1. Accrued(u) = 0 /\ Claimable(staker[u]) = 0
    BY <1>3, WeightlessAccrued
  <2> QED
    BY <1>2, <1>3, <2>1 DEF Earning
<1>4. CASE Weight(staker[u]) > 0
  <2> DEFINE exact == Weight(staker[u]) * pool.reward_per_share
             whole == exact \div PRECISION
             debt  == staker[u].reward_debt
  <2>1. staker[u].current_multiplier > 0
    BY <1>1, <1>4 DEF Weight
  <2>2. Claimable(staker[u]) = whole - debt
    BY <1>1, <2>1 DEF Claimable, Owed, Accumulated, AccountSound
  <2>3. debt <= whole /\ whole \in Nat /\ exact \in Nat /\ debt \in Nat
    BY <1>1 DEF Accumulated, AccountSound
  <2>4. PRECISION * whole <= exact /\ exact <= PRECISION * whole + (PRECISION - 1)
    BY <1>2, <2>3, DivBounds
  <2>5. Accrued(u) = exact - PRECISION * debt /\ Earning(u) = 1
    BY <1>4 DEF Accrued, Earning
  <2> HIDE DEF exact, whole, debt
  <2>6. PRECISION * (whole - debt) = PRECISION * whole - PRECISION * debt
    BY <1>2, <2>3
  <2>7. PRECISION * whole \in Int /\ PRECISION * debt \in Int
    BY <1>2, <2>3
  <2> QED
    BY <1>2, <2>2, <2>3, <2>4, <2>5, <2>6, <2>7
<1> QED
  BY <1>1, <1>3, <1>4

\* These facts, of the states before and after a step.
AccountRounds(u) ==
    /\ Accrued(u) \in Int
    /\ Weight(staker[u]) = 0 => Accrued(u) = 0
    /\ PRECISION * Claimable(staker[u]) <= Accrued(u)
    /\ Accrued(u) <= PRECISION * Claimable(staker[u])
                         + Earning(u) * (PRECISION - 1)

\* Every sound account's claimable lamports are its accrual rounded down ...
LEMMA AccountsRound == \A u \in Users : TypeOK /\ AccountSound(u) => AccountRounds(u)
BY AccountNumbers, WeightlessAccrued, ClaimableAccrued DEF AccountRounds

\* ... also after a step.
LEMMA AccountsRoundNext ==
    (\A u \in Users : TypeOK /\ AccountSound(u) => AccountRounds(u))'
BY AccountsRound, PTL
----------------------------------------------------------------------------
(* Steps that deposit nothing. *)

\* A step pays u what it takes from what u has accrued, up to the rounding of
\* the debt it writes or of the account it closes.
Settles(u) ==
    LET paid == user_sol'[u] - user_sol[u]
    IN  /\ Accrued(u)' + PRECISION * paid
               <= Accrued(u) + Raises(u) * (PRECISION - 1)
        /\ Accrued(u)' + PRECISION * paid
               >= Accrued(u) + (Earning(u)' - Earning(u) - Raises(u)) * (PRECISION - 1)

\* A step that writes neither u's account, nor its balance, nor
\* reward_per_share settles nothing.
LEMMA UntouchedSettles ==
    ASSUME TypeOK, NEW u \in Users, staker'[u] = staker[u],
           user_sol'[u] = user_sol[u],
           pool'.reward_per_share = pool.reward_per_share
    PROVE  Settles(u)
<1>1. Accrued(u)' = Accrued(u) /\ Earning(u)' = Earning(u)
  BY DEF Accrued, Earning, Weight
<1>2. Raises(u) = 0
  <2>1. staker[u].current_multiplier \in 0..3
    BY AccountNumbers
  <2> QED
    BY <2>1 DEF Raises, Raised
<1>3. Accrued(u) \in Int /\ Earning(u) \in Int /\ user_sol[u] \in Nat
  BY AccountNumbers
<1> QED
  BY <1>1, <1>2, <1>3, AmountsAssumption DEF Settles

\* A step that pays u all it can claim and leaves it no weight, or a debt
\* just written, settles within one rounding.
LEMMA RestartSettles ==
    ASSUME TypeOK, TypeOK', NEW u \in Users, AccountSound(u), AccountSound(u)',
           user_sol'[u] = user_sol[u] + Claimable(staker[u]),
           \/ /\ Weight(staker[u])' = 0
              /\ ~Raised(u)
           \/ /\ Weight(staker[u])' > 0
              /\ Raised(u)
              /\ Claimable(staker[u])' = 0
    PROVE  Settles(u)
<1>1. /\ Claimable(staker[u]) \in Nat
      /\ PRECISION * Claimable(staker[u]) <= Accrued(u)
      /\ Accrued(u) <= PRECISION * Claimable(staker[u])
                           + Earning(u) * (PRECISION - 1)
  BY ClaimableAccrued
<1>2. /\ Accrued(u) \in Int /\ Earning(u) \in {0, 1} /\ user_sol[u] \in Nat
      /\ PRECISION \in Nat /\ PRECISION > 0
  BY AccountNumbers, AmountsAssumption
<1> DEFINE paid == user_sol'[u] - user_sol[u]
           owed == PRECISION * Claimable(staker[u])
<1>3. paid = Claimable(staker[u]) /\ PRECISION * paid = owed /\ owed \in Int
  BY <1>1, <1>2
<1>4. AccountRounds(u)'
  BY AccountsRoundNext
<1>5. CASE /\ Weight(staker[u])' = 0
           /\ ~Raised(u)
  <2>1. Accrued(u)' = 0
    BY <1>4, <1>5 DEF AccountRounds
  <2>2. Earning(u)' = 0 /\ Raises(u) = 0
    BY <1>5 DEF Earning, Raises
  <2> HIDE DEF owed
  <2> QED
    BY <1>1, <1>2, <1>3, <2>1, <2>2 DEF Settles, owed
<1>6. CASE /\ Weight(staker[u])' > 0
           /\ Raised(u)
           /\ Claimable(staker[u])' = 0
  <2>1. Earning(u)' = 1 /\ Raises(u) = 1
    BY <1>6 DEF Earning, Raises
  <2>2. /\ Accrued(u)' \in Int
        /\ 0 <= Accrued(u)'
        /\ Accrued(u)' <= PRECISION - 1
    BY <1>2, <1>4, <1>6, <2>1 DEF AccountRounds
  <2> QED
    BY <1>1, <1>2, <1>3, <2>1, <2>2 DEF Settles
<1> QED
  BY <1>5, <1>6

\* A step that pays u all it can claim and rewrites its debt at the same
\* weight settles exactly.
LEMMA RepaidSettles ==
    ASSUME TypeOK, TypeOK', NEW u \in Users, AccountSound(u),
           user_sol'[u] = user_sol[u] + Claimable(staker[u]),
           Weight(staker[u])' = Weight(staker[u]),
           staker[u].current_multiplier > 0,
           staker'[u].reward_debt = Accumulated(Weight(staker[u])),
           pool'.reward_per_share = pool.reward_per_share,
           ~Raised(u)
    PROVE  Settles(u)
<1> DEFINE exact == Weight(staker[u]) * pool.reward_per_share
           whole == exact \div PRECISION
           debt  == staker[u].reward_debt
           paid  == user_sol'[u] - user_sol[u]
<1>1. /\ exact \in Nat /\ whole \in Nat /\ debt \in Nat
      /\ PRECISION \in Nat /\ user_sol[u] \in Nat
  BY AccountNumbers, AmountsAssumption DEF Accumulated
<1>2. Claimable(staker[u]) = whole - debt
  BY <1>1 DEF Claimable, Owed, Accumulated, AccountSound
<1>3. paid = whole - debt
  BY <1>1, <1>2
<1>4. Accrued(u) = exact - PRECISION * debt
  BY DEF Accrued
<1>5. Accrued(u)' = exact - PRECISION * whole
  BY DEF Accrued, Accumulated
<1>6. Earning(u)' = Earning(u) /\ Raises(u) = 0 /\ Earning(u) \in {0, 1}
  BY DEF Earning, Raises
<1> HIDE DEF exact, whole, debt, paid
<1>7. PRECISION * (whole - debt) = PRECISION * whole - PRECISION * debt
  BY <1>1
<1>8. PRECISION * whole \in Int /\ PRECISION * debt \in Int
  BY <1>1
<1>9. Accrued(u)' + PRECISION * paid = Accrued(u)
  BY <1>1, <1>3, <1>4, <1>5, <1>7, <1>8
<1>10. Accrued(u) \in Int
  BY <1>1, <1>4, <1>8
<1> QED
  BY <1>1, <1>6, <1>9, <1>10 DEF Settles, paid

\* `claim` settles the one who claims.
LEMMA ClaimSettles ==
    ASSUME IInv, IInv', NEW u \in Users, Claim(u)
    PROVE  Settles(u)
<1> DEFINE s == staker[u]
           t == Settled(s)
<1>1. /\ TypeOK /\ TypeOK' /\ AccountSound(u) /\ AccountSound(u)'
      /\ HasStake(u) /\ SettlementComputes(s)
  BY DEF IInv, TypeInv, RewardInv, Claim
<1>2. /\ s \in StakerAccount /\ s.staked_amount \in Nat /\ now \in Nat
      /\ s.current_multiplier \in 0..3 /\ user_sol[u] \in Nat
      /\ s.staked_amount > 0
  BY <1>1, AccountNumbers DEF TypeOK, HasStake
<1>3. t \in StakerAccount /\ Claimable(t) \in Nat
  BY <1>1, <1>2, SettledType
<1>4. /\ Claimable(t) = Claimable(s)
      /\ t.current_multiplier = 0 => t = s
      /\ t.reward_debt <= Accumulated(Weight(t))
  BY <1>1, SettledSound
<1>5. /\ t.staked_amount = s.staked_amount
      /\ \/ t = s
         \/ /\ s.current_multiplier # t.current_multiplier
            /\ t.pending_rewards = Claimable(s)
            /\ t.reward_debt = Accumulated(Weight(t))
  BY <1>1, <1>2, SettledFields
<1>6. t.current_multiplier \in 0..3 /\ s.current_multiplier <= t.current_multiplier
  BY <1>1, <1>2, <1>3, SettledFields DEF AccountSound, StakerAccount
<1>7. /\ Weight(t) \in Nat /\ Accumulated(Weight(t)) \in Nat
      /\ t.current_multiplier > 0 => Weight(t) > 0
  BY <1>1, <1>2, <1>3, <1>5, <1>6, WeightNat, AccumulatedNat DEF Weight
<1>8. pool'.reward_per_share = pool.reward_per_share
  BY <1>1 DEF Claim, ClaimNothing, ClaimRewards, TypeOK, StakingPoolAccount
<1>9. /\ user_sol'[u] = user_sol[u] + Claimable(s) \/ user_sol' = user_sol
      /\ staker'[u] = t \/ staker'[u] = AfterClaim(t)
  BY <1>1, <1>4 DEF Claim, ClaimNothing, ClaimRewards, PayOut, TypeOK
<1> HIDE DEF t
<1>10. CASE ClaimNothing(u) /\ t = s
  <2>1. staker'[u] = staker[u] /\ user_sol'[u] = user_sol[u]
    BY <1>1, <1>10 DEF ClaimNothing, TypeOK, t
  <2> QED
    BY <1>1, <1>8, <2>1, UntouchedSettles
<1>11. CASE ClaimNothing(u) /\ t # s
  <2>1. staker'[u] = t /\ user_sol' = user_sol /\ Claimable(t) = 0
    BY <1>1, <1>4, <1>11 DEF ClaimNothing, TypeOK, t
  <2>2. Weight(staker[u])' = Weight(t) /\ Claimable(staker[u])' = Claimable(t)
    BY <1>8, <2>1 DEF Claimable, Owed, Accumulated, Weight
  <2>3. Raised(u)
    BY <1>2, <1>5, <1>6, <1>11, <2>1 DEF Raised
  <2>4. t.current_multiplier > 0
    BY <1>4, <1>6, <1>11
  <2>5. user_sol'[u] = user_sol[u] + Claimable(staker[u])
    BY <1>2, <1>4, <2>1
  <2>6. Weight(staker[u])' > 0 /\ Claimable(staker[u])' = 0
    BY <1>7, <2>1, <2>2, <2>4
  <2> QED
    BY <1>1, <2>3, <2>5, <2>6, RestartSettles
<1>12. CASE ClaimRewards(u)
  <2> DEFINE a == AfterClaim(t)
  <2>1. /\ staker'[u] = a /\ user_sol'[u] = user_sol[u] + Claimable(s)
        /\ t.current_multiplier > 0
    BY <1>1, <1>4, <1>12 DEF ClaimRewards, PayOut, TypeOK, t
  <2>2. /\ a.staked_amount = t.staked_amount
        /\ a.current_multiplier = t.current_multiplier
        /\ a.pending_rewards = 0
        /\ a.reward_debt = Accumulated(Weight(t))
    BY <1>3 DEF AfterClaim, StakerAccount
  <2> HIDE DEF a
  <2>3. Weight(staker[u])' = Weight(t)
    BY <2>1, <2>2 DEF Weight
  <2>4. Accumulated(Weight(staker[u]))' = Accumulated(Weight(t))
    BY <1>8, <2>3 DEF Accumulated
  <2>5. Claimable(staker[u])' = 0
    BY <1>7, <2>1, <2>2, <2>4 DEF Claimable, Owed
  <2>6. CASE t = s
    <3>1. ~Raised(u)
      BY <1>2, <2>1, <2>2, <2>6 DEF Raised
    <3> QED
      BY <1>1, <1>2, <1>8, <2>1, <2>2, <2>3, <2>6, <3>1, RepaidSettles
  <2>7. CASE t # s
    <3>1. Raised(u)
      BY <1>2, <1>5, <1>6, <2>1, <2>2, <2>7 DEF Raised
    <3> QED
      BY <1>1, <1>7, <2>1, <2>3, <2>5, <3>1, RestartSettles
  <2> QED
    BY <2>6, <2>7
<1> QED
  BY <1>10, <1>11, <1>12 DEF Claim

\* `unstake` settles the one who leaves.
LEMMA UnstakeSettles ==
    ASSUME IInv, IInv', NEW u \in Users, Unstake(u)
    PROVE  Settles(u)
<1>1. /\ TypeOK /\ TypeOK' /\ AccountSound(u) /\ AccountSound(u)'
      /\ staker[u].current_multiplier \in 0..3
  BY AccountNumbers DEF IInv, TypeInv, RewardInv
<1> DEFINE total == UnstakePayment(Settled(staker[u]))
<1>2. /\ user_sol' = [user_sol EXCEPT ![u] = @ + total]
      /\ staker' = [staker EXCEPT ![u] = NoStaker]
  BY DEF Unstake, UnstakeChecks, PayOut
<1>3. total = Claimable(staker[u])
  BY UnstakePaysAll
<1> HIDE DEF total
<1>4. staker'[u] = NoStaker /\ user_sol'[u] = user_sol[u] + Claimable(staker[u])
  BY <1>1, <1>2, <1>3 DEF TypeOK
<1>5. Weight(staker[u])' = 0 /\ ~Raised(u)
  BY <1>1, <1>4 DEF Weight, NoStaker, Raised
<1> QED
  BY <1>1, <1>4, <1>5, RestartSettles

\* `stake` opens an account with no weight, where there was none.
LEMMA StakeSettles ==
    ASSUME IInv, IInv', NEW u \in Users, NEW amount \in Amounts, Stake(u, amount)
    PROVE  Settles(u)
<1>1. /\ TypeOK /\ TypeOK' /\ AccountSound(u) /\ AccountSound(u)'
      /\ staker[u].current_multiplier \in 0..3
      /\ staker[u].staked_amount \in Nat
      /\ user_sol[u] \in Nat
  BY AccountNumbers DEF IInv, TypeInv, RewardInv
<1>2. /\ staker' = [staker EXCEPT ![u] = NewStaker(amount)]
      /\ user_sol' = user_sol
      /\ staker[u].staked_amount = 0
  BY <1>1 DEF Stake, AccountFree, HasStake
<1>3. staker'[u] = NewStaker(amount) /\ amount \in Nat
  BY <1>1, <1>2, EnvironmentAssumption DEF TypeOK
<1>4. Weight(staker[u]) = 0 /\ Weight(staker[u])' = 0
  BY <1>1, <1>2, <1>3 DEF Weight, NewStaker
<1>5. ~Raised(u)
  BY <1>1, <1>3 DEF Raised, NewStaker
<1>6. Claimable(staker[u]) = 0
  BY <1>1, <1>4, WeightlessAccrued
<1>7. user_sol'[u] = user_sol[u] + Claimable(staker[u])
  BY <1>1, <1>2, <1>6
<1> QED
  BY <1>1, <1>4, <1>5, <1>7, RestartSettles

\* No step but a deposit adds to the shares of a user, or to the deposits.
LEMMA StepSettles ==
    ASSUME IInv, IInv', [Next]_vars, NEW v \in Users,
           ~\E amount \in Deposits : DepositRewards(amount)
    PROVE  /\ Settles(v)
           /\ pool'.total_rewards_distributed = pool.total_rewards_distributed
<1>1. TypeOK /\ TypeOK'
  BY DEF IInv, TypeInv
<1>2. ASSUME NEW u \in Users, NEW amount \in Amounts, Stake(u, amount)
      PROVE  /\ Settles(v)
             /\ pool'.total_rewards_distributed = pool.total_rewards_distributed
  <2>1. /\ pool'.reward_per_share = pool.reward_per_share
        /\ pool'.total_rewards_distributed = pool.total_rewards_distributed
        /\ staker' = [staker EXCEPT ![u] = NewStaker(amount)]
        /\ user_sol' = user_sol
    BY <1>1, <1>2 DEF Stake, TypeOK, StakingPoolAccount
  <2>2. CASE v # u
    <3>1. staker'[v] = staker[v] /\ user_sol'[v] = user_sol[v]
      BY <1>1, <2>1, <2>2 DEF TypeOK
    <3> QED
      BY <1>1, <2>1, <3>1, UntouchedSettles
  <2> QED
    BY <1>2, <2>1, <2>2, StakeSettles
<1>3. ASSUME NEW u \in Users, Claim(u)
      PROVE  /\ Settles(v)
             /\ pool'.total_rewards_distributed = pool.total_rewards_distributed
  <2>1. /\ pool'.reward_per_share = pool.reward_per_share
        /\ pool'.total_rewards_distributed = pool.total_rewards_distributed
    BY <1>1, <1>3 DEF Claim, ClaimNothing, ClaimRewards, TypeOK, StakingPoolAccount
  <2>2. CASE v # u
    <3>1. staker'[v] = staker[v] /\ user_sol'[v] = user_sol[v]
      BY <1>1, <1>3, <2>2
         DEF Claim, ClaimNothing, ClaimRewards, PayOut, TypeOK
    <3> QED
      BY <1>1, <2>1, <3>1, UntouchedSettles
  <2> QED
    BY <1>3, <2>1, <2>2, ClaimSettles
<1>4. ASSUME NEW u \in Users, Unstake(u)
      PROVE  /\ Settles(v)
             /\ pool'.total_rewards_distributed = pool.total_rewards_distributed
  <2> DEFINE gain  == Forfeit(Settled(staker[u]), SettledWeightedStake(staker[u]))
             total == UnstakePayment(Settled(staker[u]))
  <2>1. gain = 0
    BY <1>4, UnstakePaysAll
  <2>2. /\ pool'.reward_per_share = pool.reward_per_share + gain
        /\ pool'.total_rewards_distributed = pool.total_rewards_distributed
        /\ pool.reward_per_share \in Nat
        /\ staker' = [staker EXCEPT ![u] = NoStaker]
        /\ user_sol' = [user_sol EXCEPT ![u] = @ + total]
    BY <1>1, <1>4 DEF Unstake, UnstakeChecks, PayOut, TypeOK, StakingPoolAccount
  <2> HIDE DEF gain, total
  <2>3. CASE v # u
    <3>1. staker'[v] = staker[v] /\ user_sol'[v] = user_sol[v]
      BY <1>1, <2>2, <2>3 DEF TypeOK
    <3>2. pool'.reward_per_share = pool.reward_per_share
      BY <2>1, <2>2
    <3> QED
      BY <1>1, <2>2, <3>1, <3>2, UntouchedSettles
  <2> QED
    BY <1>4, <2>2, <2>3, UnstakeSettles
<1>5. ASSUME staker' = staker, user_sol' = user_sol,
             pool'.reward_per_share = pool.reward_per_share,
             pool'.total_rewards_distributed = pool.total_rewards_distributed
      PROVE  /\ Settles(v)
             /\ pool'.total_rewards_distributed = pool.total_rewards_distributed
  BY <1>1, <1>5, UntouchedSettles
<1>6. ASSUME NEW min_stake, NEW fee, UpdatePoolConfig(min_stake, fee)
      PROVE  /\ Settles(v)
             /\ pool'.total_rewards_distributed = pool.total_rewards_distributed
  <2>1. /\ pool'.reward_per_share = pool.reward_per_share
        /\ pool'.total_rewards_distributed = pool.total_rewards_distributed
    BY <1>1, <1>6 DEF UpdatePoolConfig, TypeOK, StakingPoolAccount
  <2> QED
    BY <1>5, <1>6, <2>1 DEF UpdatePoolConfig
<1>7. CASE EmergencyHalt \/ Resume \/ Tick \/ UNCHANGED vars
  <2>1. /\ pool'.reward_per_share = pool.reward_per_share
        /\ pool'.total_rewards_distributed = pool.total_rewards_distributed
        /\ staker' = staker /\ user_sol' = user_sol
    BY <1>1, <1>7
       DEF EmergencyHalt, Resume, Tick, vars, TypeOK, StakingPoolAccount
  <2> QED
    BY <1>5, <2>1
<1> QED
  BY <1>2, <1>3, <1>4, <1>6, <1>7 DEF Next
----------------------------------------------------------------------------
(* Deposits. *)

\* What a deposit does to the accumulator, and the shares it stands for.
LEMMA DepositAccrues ==
    ASSUME IInv, NEW amount \in Deposits, DepositRewards(amount)
    PROVE  \E net \in Nat, total \in Nat \ {0} :
              LET inc == (net * PRECISION) \div total
              IN  /\ inc \in Nat
                  /\ total = pool.total_weighted_stake
                  /\ pool'.total_weighted_stake = total
                  /\ pool'.total_staked = pool.total_staked
                  /\ pool'.reward_per_share = pool.reward_per_share + inc
                  /\ pool'.total_rewards_distributed
                         = pool.total_rewards_distributed + net
                  /\ DepositedBy(pool, pool') = net
                  /\ reward_vault' = reward_vault + net
                  /\ staker' = staker /\ user_sol' = user_sol
<1> DEFINE net   == amount - ProtocolFee(amount)
           total == pool.total_weighted_stake
           inc   == (net * PRECISION) \div total
<1>1. TypeInv /\ TypeOK /\ amount \in Nat
  BY EnvironmentAssumption DEF IInv, TypeInv
<1>2. net \in Nat
  BY <1>1, DepositSplit
<1>3. total \in Nat \ {0} /\ pool.total_rewards_distributed \in Nat
  BY <1>1 DEF DepositRewards, TypeOK, StakingPoolAccount
<1>4. inc \in Nat
  BY <1>2, <1>3, ShareNat
<1>5. /\ pool' = [pool EXCEPT !.reward_per_share = @ + inc,
                              !.total_rewards_distributed = @ + net]
      /\ reward_vault' = reward_vault + net
      /\ staker' = staker /\ user_sol' = user_sol
  BY DEF DepositRewards, RewardIncrement
<1>6. /\ pool'.total_weighted_stake = total
      /\ pool'.total_staked = pool.total_staked
      /\ pool'.reward_per_share = pool.reward_per_share + inc
      /\ pool'.total_rewards_distributed = pool.total_rewards_distributed + net
  BY <1>1, <1>5 DEF TypeOK, StakingPoolAccount
<1>7. DepositedBy(pool, pool') = net
  BY <1>2, <1>3, <1>6 DEF DepositedBy
<1> QED
  BY <1>2, <1>3, <1>4, <1>5, <1>6, <1>7

\* A deposit accrues to a weight its share, less at most one unit of rounding
\* for each unit of weight.
LEMMA AccruesShare ==
    ASSUME IInv, NEW amount \in Deposits, DepositRewards(amount), NEW u \in Users
    PROVE  /\ Share(u) \in Nat
           /\ Accrued(u)' <= Accrued(u) + Share(u)
           /\ Accrued(u)' >= Accrued(u) + Share(u)
                 - (IF DepositedBy(pool, pool') = 0 THEN 0 ELSE Weight(staker[u]))
           /\ Earning(u)' = Earning(u) /\ Raises(u) = 0
<1>1. TypeOK
  BY DEF IInv, TypeInv
<1>2. PICK net \in Nat, total \in Nat \ {0} :
         /\ (net * PRECISION) \div total \in Nat
         /\ total = pool.total_weighted_stake
         /\ pool'.reward_per_share
                = pool.reward_per_share + (net * PRECISION) \div total
         /\ DepositedBy(pool, pool') = net
         /\ staker' = staker
  BY DepositAccrues
<1> DEFINE inc == (net * PRECISION) \div total
           w   == Weight(staker[u])
           rps == pool.reward_per_share
<1>3. /\ w \in Nat /\ rps \in Nat /\ Accrued(u) \in Int
      /\ staker[u].current_multiplier \in 0..3
      /\ PRECISION * staker[u].reward_debt \in Int
  <2>1. /\ w \in Nat /\ rps \in Nat /\ Accrued(u) \in Int
        /\ staker[u].current_multiplier \in 0..3
        /\ staker[u].reward_debt \in Nat
    BY <1>1, AccountNumbers
  <2> QED
    BY <2>1, AmountsAssumption
<1>4. Accrued(u)' = Accrued(u) + w * inc
  <2>1. Accrued(u)' = w * (rps + inc) - PRECISION * staker[u].reward_debt
    BY <1>2 DEF Accrued, Weight
  <2>2. Accrued(u) = w * rps - PRECISION * staker[u].reward_debt
    BY DEF Accrued
  <2>3. inc \in Nat
    BY <1>2
  <2> HIDE DEF inc, w, rps
  <2>4. w * (rps + inc) = w * rps + w * inc /\ w * rps \in Int /\ w * inc \in Int
    BY <1>3, <2>3
  <2> QED
    BY <1>3, <2>1, <2>2, <2>4
<1>5. Earning(u)' = Earning(u) /\ Raises(u) = 0
  BY <1>2, <1>3 DEF Earning, Weight, Raises, Raised
<1>6. net * PRECISION \in Nat /\ PRECISION \in Nat
  BY <1>2, TimesNat, AmountsAssumption
<1>7. CASE net = 0
  <2>1. inc = 0
    BY <1>2, <1>6, <1>7, ZeroDiv
  <2>2. Share(u) = 0
    BY <1>2, <1>7 DEF Share
  <2>3. Accrued(u)' = Accrued(u)
    BY <1>3, <1>4, <2>1
  <2> QED
    BY <1>2, <1>3, <1>5, <1>7, <2>2, <2>3
<1>8. CASE net # 0
  <2> DEFINE a == net * PRECISION
             share == (a * w) \div total
  <2>1. Share(u) = share
    BY <1>2, <1>8 DEF Share
  <2>2. a \in Nat /\ total \in Nat /\ total > 0
    BY <1>2, <1>6
  <2>3. w * inc <= share /\ share <= w * inc + w
    <3> HIDE DEF a, w
    <3> QED
      BY <1>3, <2>2, ShareOfWeight DEF a
  <2>4. share \in Nat /\ w * inc \in Nat
    <3>1. a * w \in Nat
      BY <1>3, <2>2, TimesNat
    <3>2. inc \in Nat
      BY <1>2
    <3> HIDE DEF inc, w, a
    <3> QED
      BY <1>3, <2>2, <3>1, <3>2, TimesNat, DivNat
  <2>5. DepositedBy(pool, pool') # 0
    BY <1>2, <1>8
  <2> HIDE DEF share, inc, w
  <2>6. Accrued(u)' <= Accrued(u) + share /\ Accrued(u)' >= Accrued(u) + share - w
    BY <1>3, <1>4, <2>3, <2>4
  <2> QED
    BY <1>5, <2>1, <2>4, <2>5, <2>6 DEF w
<1> QED
  BY <1>2, <1>7, <1>8
----------------------------------------------------------------------------
(* What a user was paid and has accrued keeps up with its shares. *)

\* What the accumulator truncates of u's share of this step's deposit.
Truncates(u) ==
    IF DepositedBy(pool, pool') = 0 THEN 0 ELSE Weight(staker[u])

\* A step records for u its share of what is deposited, within the rounding.
Keeps(u) ==
    LET before == PRECISION * user_sol[u] + Accrued(u)
        after  == PRECISION * user_sol'[u] + Accrued(u)'
    IN  /\ Share(u) \in Nat
        /\ after <= before + Share(u) + Raises(u) * (PRECISION - 1)
        /\ after >= before + Share(u) - Truncates(u)
                      + (Earning(u)' - Earning(u) - Raises(u)) * (PRECISION - 1)

\* Every step accounts for u's reward, up to a rounding at each raise.
LEMMA StepKeeps ==
    ASSUME IInv, IInv', [Next]_vars, NEW u \in Users
    PROVE  Keeps(u)
<1>1. TypeOK /\ TypeOK' /\ PRECISION \in Nat
  BY AmountsAssumption DEF IInv, TypeInv
<1>2. /\ user_sol[u] \in Nat /\ user_sol'[u] \in Nat
      /\ Accrued(u) \in Int /\ Earning(u) \in {0, 1}
      /\ pool.total_rewards_distributed \in Nat
  BY <1>1, AccountNumbers DEF TypeOK, StakingPoolAccount
<1>3. Accrued(u)' \in Int /\ Earning(u)' \in {0, 1}
  <2>1. AccountSound(u)'
    BY DEF IInv, RewardInv
  <2> QED
    BY <1>1, <2>1, AccountsRoundNext DEF AccountRounds, Earning
<1>4. ASSUME NEW amount \in Deposits, DepositRewards(amount)
      PROVE  Keeps(u)
  <2>1. /\ Share(u) \in Nat
        /\ Accrued(u)' <= Accrued(u) + Share(u)
        /\ Accrued(u)' >= Accrued(u) + Share(u) - Truncates(u)
        /\ Earning(u)' = Earning(u) /\ Raises(u) = 0
    BY <1>4, AccruesShare DEF Truncates
  <2>2. user_sol' = user_sol
    BY <1>4, DepositAccrues
  <2>3. Truncates(u) \in Nat
    BY <1>1, AccountNumbers DEF Truncates
  <2> DEFINE paid == PRECISION * user_sol[u]
  <2>4. paid \in Int /\ PRECISION * user_sol'[u] = paid
    BY <1>1, <1>2, <2>2
  <2> HIDE DEF paid
  <2>5. /\ Raises(u) * (PRECISION - 1) = 0
        /\ (Earning(u)' - Earning(u) - Raises(u)) * (PRECISION - 1) = 0
    BY <1>1, <1>2, <2>1
  <2> QED
    BY <1>2, <1>3, <2>1, <2>3, <2>4, <2>5 DEF Keeps, paid
<1>5. CASE ~\E amount \in Deposits : DepositRewards(amount)
  <2>1. Settles(u) /\ DepositedBy(pool, pool') = 0
    BY <1>2, <1>5, StepSettles DEF DepositedBy
  <2>2. Share(u) = 0 /\ Truncates(u) = 0
    BY <2>1 DEF Share, Truncates
  <2> DEFINE paid == PRECISION * (user_sol'[u] - user_sol[u])
             old  == PRECISION * user_sol[u]
             up   == Raises(u) * (PRECISION - 1)
             down == (Earning(u)' - Earning(u) - Raises(u)) * (PRECISION - 1)
  <2>3. Raises(u) \in {0, 1}
    BY DEF Raises
  <2>4. /\ paid \in Int /\ old \in Int /\ up \in Int /\ down \in Int
        /\ PRECISION * user_sol'[u] = old + paid
    BY <1>1, <1>2, <1>3, <2>3
  <2>5. /\ Accrued(u)' + paid <= Accrued(u) + up
        /\ Accrued(u)' + paid >= Accrued(u) + down
    BY <2>1 DEF Settles
  <2> HIDE DEF paid, old, up, down
  <2>6. /\ (old + paid) + Accrued(u)' <= (old + Accrued(u)) + 0 + up
        /\ (old + paid) + Accrued(u)' >= (old + Accrued(u)) + 0 - 0 + down
    BY <1>2, <1>3, <2>4, <2>5
  <2> QED
    BY <2>2, <2>4, <2>6 DEF Keeps, old, up, down
<1> QED
  BY <1>4, <1>5

\* Every step of the history keeps its types.
LEMMA HistoryTypeKept ==
    ASSUME IInv, IInv', HistoryType, HNext
    PROVE  /\ HistoryType'
           /\ \A u \in Users :
                 /\ earned'[u] = earned[u] + Share(u)
                 /\ truncated'[u] = truncated[u] + Truncates(u)
                 /\ upgrades'[u] = upgrades[u] + Raises(u)
<1>1. /\ earned' = [u \in Users |-> earned[u] + Share(u)]
      /\ truncated' = [u \in Users |-> truncated[u] + Truncates(u)]
      /\ upgrades' = [u \in Users |-> upgrades[u] + Raises(u)]
      /\ Next
  BY DEF HNext, Truncates, Raises
<1>2. ASSUME NEW u \in Users
      PROVE  Share(u) \in Nat /\ Truncates(u) \in Nat /\ Raises(u) \in Nat
  <2>1. Share(u) \in Nat
    BY <1>1, StepKeeps DEF Keeps
  <2>2. Weight(staker[u]) \in Nat
    BY AccountNumbers DEF IInv, TypeInv
  <2> QED
    BY <2>1, <2>2 DEF Truncates, Raises
<1> HIDE DEF HistoryType
<1>3. /\ earned \in [Users -> Nat] /\ truncated \in [Users -> Nat]
      /\ upgrades \in [Users -> Nat]
  BY DEF HistoryType
<1>4. /\ earned' \in [Users -> Nat] /\ truncated' \in [Users -> Nat]
      /\ upgrades' \in [Users -> Nat]
  BY <1>1, <1>2, <1>3
<1> QED
  BY <1>1, <1>4 DEF HistoryType

\* The bounds are kept by every step.
LEMMA BoundedKept ==
    ASSUME IInv, IInv', HistoryType, HNext, NEW u \in Users, Bounded(u)
    PROVE  Bounded(u)'
<1>1. Next /\ TypeOK /\ TypeOK' /\ PRECISION \in Nat
  BY AmountsAssumption DEF HNext, IInv, TypeInv
<1>2. Keeps(u)
  BY <1>1, StepKeeps
<1>3. /\ earned'[u] = earned[u] + Share(u)
      /\ truncated'[u] = truncated[u] + Truncates(u)
      /\ upgrades'[u] = upgrades[u] + Raises(u)
      /\ earned[u] \in Nat /\ truncated[u] \in Nat /\ upgrades[u] \in Nat
  BY HistoryTypeKept DEF HistoryType
<1>4. /\ user_sol[u] \in Nat /\ user_sol'[u] \in Nat
      /\ Accrued(u) \in Int /\ Earning(u) \in {0, 1}
      /\ Weight(staker[u]) \in Nat
  BY <1>1, AccountNumbers DEF TypeOK
<1>5. Accrued(u)' \in Int /\ Earning(u)' \in {0, 1}
  <2>1. AccountSound(u)'
    BY DEF IInv, RewardInv
  <2> QED
    BY <1>1, <2>1, AccountsRoundNext DEF AccountRounds, Earning
<1> DEFINE one    == PRECISION - 1
           before == PRECISION * user_sol[u] + Accrued(u)
           after  == PRECISION * user_sol'[u] + Accrued(u)'
           most   == upgrades[u] * one
           least  == (upgrades[u] - Earning(u)) * one
           up     == Raises(u) * one
           down   == (Earning(u)' - Earning(u) - Raises(u)) * one
<1>6. /\ Share(u) \in Nat
      /\ after <= before + Share(u) + up
      /\ after >= before + Share(u) - Truncates(u) + down
  BY <1>2 DEF Keeps
<1>7. before <= earned[u] + most /\ before >= earned[u] - truncated[u] - least
  BY DEF Bounded
<1>8. Raises(u) \in {0, 1} /\ Truncates(u) \in Nat /\ one \in Int
  <2>1. Raises(u) \in {0, 1}
    BY DEF Raises
  <2>2. Truncates(u) \in Nat
    BY <1>4 DEF Truncates
  <2> QED
    BY <1>1, <2>1, <2>2
<1> HIDE DEF one
<1>9. /\ most \in Int /\ least \in Int /\ up \in Int /\ down \in Int
      /\ before \in Int /\ after \in Int
  <2>1. /\ upgrades[u] - Earning(u) \in Int /\ Raises(u) \in Int
        /\ Earning(u)' - Earning(u) - Raises(u) \in Int
    BY <1>3, <1>4, <1>5, <1>8
  <2>2. \A a, b \in Int : a * b \in Int /\ a + b \in Int
    OBVIOUS
  <2>3. most \in Int /\ least \in Int /\ up \in Int /\ down \in Int
    BY <1>3, <1>8, <2>1, <2>2
  <2>4. PRECISION * user_sol[u] \in Int /\ PRECISION * user_sol'[u] \in Int
    BY <1>1, <1>4
  <2> QED
    BY <1>4, <1>5, <2>2, <2>3, <2>4
<1>10. (upgrades[u] + Raises(u)) * one = most + up
  BY <1>3, <1>8
<1>11. ((upgrades[u] + Raises(u)) - Earning(u)') * one = least - down
  BY <1>3, <1>4, <1>5, <1>8
<1> HIDE DEF most, least, up, down, before, after
<1>12. /\ after <= (earned[u] + Share(u)) + (most + up)
       /\ after >= (earned[u] + Share(u)) - (truncated[u] + Truncates(u))
                       - (least - down)
  BY <1>3, <1>6, <1>7, <1>8, <1>9
<1>13. /\ after <= earned'[u] + upgrades'[u] * one
       /\ after >= earned'[u] - truncated'[u] - (upgrades'[u] - Earning(u)') * one
  <2>1. upgrades'[u] * one = most + up
    BY <1>3, <1>10
  <2>2. (upgrades'[u] - Earning(u)') * one = least - down
    <3>1. upgrades'[u] = upgrades[u] + Raises(u)
      BY <1>3
    <3> QED
      BY <1>11, <3>1
  <2>3. /\ earned'[u] = earned[u] + Share(u)
        /\ truncated'[u] = truncated[u] + Truncates(u)
    BY <1>3
  <2> QED
    BY <1>12, <2>1, <2>2, <2>3
<1> QED
  BY <1>13 DEF Bounded, after, one
----------------------------------------------------------------------------
(* Sums over the users. *)

\* A step that writes one account, and the totals to match.
LEMMA TotalsUpdated ==
    ASSUME TypeOK, TypeOK', TotalsMatchAccounts, NEW u \in Users,
           \A v \in Users : v # u => staker'[v] = staker[v],
           pool'.total_weighted_stake
               = (pool.total_weighted_stake - Weight(staker[u])) + Weight(staker'[u]),
           pool'.total_staked
               = (pool.total_staked - staker[u].staked_amount)
                     + staker'[u].staked_amount
    PROVE  TotalsMatchAccounts'
<1> DEFINE w  == [v \in Users |-> Weight(staker[v])]
           wn == [v \in Users |-> Weight(staker'[v])]
           k  == [v \in Users |-> staker[v].staked_amount]
           kn == [v \in Users |-> staker'[v].staked_amount]
<1>1. \A v \in Users : staker[v] \in StakerAccount /\ staker'[v] \in StakerAccount
  BY DEF TypeOK
<1>2. /\ w \in [Users -> Int] /\ wn \in [Users -> Int]
      /\ k \in [Users -> Int] /\ kn \in [Users -> Int]
  <2>1. \A v \in Users : Weight(staker[v]) \in Int /\ Weight(staker'[v]) \in Int
    BY <1>1, WeightNat
  <2>2. \A v \in Users : /\ staker[v].staked_amount \in Int
                         /\ staker'[v].staked_amount \in Int
    BY <1>1 DEF StakerAccount
  <2> QED
    BY <2>1, <2>2
<1>3. /\ w[u] = Weight(staker[u]) /\ wn[u] = Weight(staker'[u])
      /\ k[u] = staker[u].staked_amount /\ kn[u] = staker'[u].staked_amount
      /\ \A v \in Users : v # u => wn[v] = w[v] /\ kn[v] = k[v]
  OBVIOUS
<1>4. /\ pool.total_weighted_stake = SumFunction(w)
      /\ pool.total_staked = SumFunction(k)
  BY DEF TotalsMatchAccounts, Sum
<1>5. TotalsMatchAccounts' <=> /\ pool'.total_weighted_stake = SumFunction(wn)
                               /\ pool'.total_staked = SumFunction(kn)
  BY DEF TotalsMatchAccounts, Sum, Weight
<1> HIDE DEF w, wn, k, kn
<1>6. SumFunction(wn) = SumFunction(w) - w[u] + wn[u]
  BY <1>2, <1>3, UsersAssumption, SumUpdate
<1>7. SumFunction(kn) = SumFunction(k) - k[u] + kn[u]
  BY <1>2, <1>3, UsersAssumption, SumUpdate
<1> QED
  BY <1>3, <1>4, <1>5, <1>6, <1>7

\* A step that writes neither accounts nor totals.
LEMMA TotalsKept ==
    ASSUME TotalsMatchAccounts, staker' = staker,
           pool'.total_weighted_stake = pool.total_weighted_stake,
           pool'.total_staked = pool.total_staked
    PROVE  TotalsMatchAccounts'
<1>1. TotalsMatchAccounts' <=>
        /\ pool'.total_weighted_stake = Sum([v \in Users |-> Weight(staker[v])])
        /\ pool'.total_staked = Sum([v \in Users |-> staker[v].staked_amount])
  BY DEF TotalsMatchAccounts, Sum, Weight
<1> QED
  BY <1>1 DEF TotalsMatchAccounts

\* The totals match the accounts after every step.
LEMMA TotalsStep ==
    ASSUME IInv, IInv', [Next]_vars, TotalsMatchAccounts
    PROVE  TotalsMatchAccounts'
<1>1. TypeInv /\ TypeOK /\ TypeOK'
  BY DEF IInv, TypeInv
<1>2. pool.total_staked \in Nat /\ pool.total_weighted_stake \in Nat
  BY <1>1 DEF TypeOK, StakingPoolAccount
<1>3. ASSUME NEW u \in Users, NEW amount \in Amounts, Stake(u, amount)
      PROVE  TotalsMatchAccounts'
  <2>1. /\ staker' = [staker EXCEPT ![u] = NewStaker(amount)]
        /\ pool'.total_staked = pool.total_staked + amount
        /\ pool'.total_weighted_stake = pool.total_weighted_stake
        /\ staker[u].staked_amount = 0
    <3>1. staker[u].staked_amount \in Nat
      BY <1>1, AccountNumbers
    <3> QED
      BY <1>1, <1>3, <3>1
         DEF Stake, AccountFree, HasStake, TypeOK, StakingPoolAccount
  <2>2. /\ staker'[u] = NewStaker(amount) /\ amount \in Nat
        /\ \A v \in Users : v # u => staker'[v] = staker[v]
    BY <1>1, <2>1, EnvironmentAssumption DEF TypeOK
  <2>3. staker[u].current_multiplier \in 0..3
    BY <1>1, AccountNumbers
  <2>4. Weight(staker[u]) = 0 /\ Weight(staker'[u]) = 0 /\ staker'[u].staked_amount = amount
    BY <2>1, <2>2, <2>3 DEF Weight, NewStaker
  <2> QED
    BY <1>1, <1>2, <2>1, <2>2, <2>4, TotalsUpdated
<1>4. ASSUME NEW u \in Users, Claim(u)
      PROVE  TotalsMatchAccounts'
  <2> DEFINE t == Settled(staker[u])
  <2>1. staker[u] \in StakerAccount /\ SettlementComputes(staker[u])
    BY <1>1, <1>4 DEF Claim, TypeOK
  <2>2. t \in StakerAccount /\ t.staked_amount = staker[u].staked_amount
    BY <1>1, <2>1, SettledType, SettledFields
  <2>3. Weight(AfterClaim(t)) = Weight(t) /\ AfterClaim(t).staked_amount = t.staked_amount
    BY <2>2 DEF AfterClaim, Weight, StakerAccount
  <2>4. /\ staker'[u] \in {t, AfterClaim(t)}
        /\ \A v \in Users : v # u => staker'[v] = staker[v]
    BY <1>1, <1>4 DEF Claim, ClaimNothing, ClaimRewards, TypeOK
  <2>5. /\ pool'.total_weighted_stake
               = (pool.total_weighted_stake - Weight(staker[u])) + Weight(t)
        /\ pool'.total_staked = pool.total_staked
    BY <1>1, <1>4 DEF Claim, ClaimNothing, ClaimRewards, SettledWeightedStake,
                      TypeOK, StakingPoolAccount
  <2>6. staker[u].staked_amount \in Nat
    BY <1>1, AccountNumbers
  <2> HIDE DEF t
  <2>7. Weight(staker'[u]) = Weight(t) /\ staker'[u].staked_amount = staker[u].staked_amount
    BY <2>2, <2>3, <2>4
  <2> QED
    BY <1>1, <1>2, <2>4, <2>5, <2>6, <2>7, TotalsUpdated
<1>5. ASSUME NEW u \in Users, Unstake(u)
      PROVE  TotalsMatchAccounts'
  <2> DEFINE t == Settled(staker[u])
  <2>1. staker[u] \in StakerAccount /\ SettlementComputes(staker[u])
    BY <1>1, <1>5 DEF Unstake, UnstakeChecks, TypeOK
  <2>2. t \in StakerAccount /\ t.staked_amount = staker[u].staked_amount
    BY <1>1, <2>1, SettledType, SettledFields
  <2>3. Weight(staker[u]) \in Nat /\ Weight(t) \in Nat
    BY <2>1, <2>2, WeightNat
  <2>4. /\ staker' = [staker EXCEPT ![u] = NoStaker]
        /\ pool'.total_weighted_stake = SettledWeightedStake(staker[u]) - Weight(t)
        /\ pool'.total_staked = pool.total_staked - t.staked_amount
    BY <1>1, <1>5 DEF Unstake, UnstakeChecks, TypeOK, StakingPoolAccount
  <2>5. SettledWeightedStake(staker[u])
          = (pool.total_weighted_stake - Weight(staker[u])) + Weight(t)
    BY DEF SettledWeightedStake
  <2> HIDE DEF t
  <2>6. /\ staker'[u] = NoStaker
        /\ \A v \in Users : v # u => staker'[v] = staker[v]
    BY <1>1, <2>4 DEF TypeOK
  <2>7. Weight(staker'[u]) = 0 /\ staker'[u].staked_amount = 0
    BY <2>6 DEF NoStaker, Weight
  <2>8. staker[u].staked_amount \in Nat
    BY <1>1, AccountNumbers
  <2>9. /\ pool'.total_weighted_stake
               = (pool.total_weighted_stake - Weight(staker[u])) + Weight(staker'[u])
        /\ pool'.total_staked
               = (pool.total_staked - staker[u].staked_amount)
                     + staker'[u].staked_amount
    BY <1>2, <2>2, <2>3, <2>4, <2>5, <2>7, <2>8
  <2> QED
    BY <1>1, <2>6, <2>9, TotalsUpdated
<1>6. ASSUME NEW amount \in Deposits, DepositRewards(amount)
      PROVE  TotalsMatchAccounts'
  BY <1>6, DepositAccrues, TotalsKept
<1>7. ASSUME NEW min_stake, NEW fee, UpdatePoolConfig(min_stake, fee)
      PROVE  TotalsMatchAccounts'
  BY <1>1, <1>7, TotalsKept DEF UpdatePoolConfig, TypeOK, StakingPoolAccount
<1>8. CASE EmergencyHalt \/ Resume \/ Tick \/ UNCHANGED vars
  BY <1>1, <1>8, TotalsKept
     DEF EmergencyHalt, Resume, Tick, vars, TypeOK, StakingPoolAccount
<1> QED
  BY <1>3, <1>4, <1>5, <1>6, <1>7, <1>8 DEF Next

\* u is paid from the vault.
Pays(u, lamports) ==
    /\ lamports \in Nat
    /\ user_sol' = [user_sol EXCEPT ![u] = @ + lamports]
    /\ reward_vault' = reward_vault - lamports

\* No step but a deposit adds to the deposits, or pays from the vault anything
\* but what stakers receive.
LEMMA NothingDeposited ==
    ASSUME IInv, [Next]_vars, ~\E amount \in Deposits : DepositRewards(amount)
    PROVE  /\ pool'.total_rewards_distributed = pool.total_rewards_distributed
           /\ \/ \E u \in Users, lamports \in Nat : Pays(u, lamports)
              \/ user_sol' = user_sol /\ reward_vault' = reward_vault
<1>1. TypeInv /\ TypeOK
  BY DEF IInv, TypeInv
<1>2. ASSUME NEW u \in Users, Claim(u)
      PROVE  /\ pool'.total_rewards_distributed = pool.total_rewards_distributed
             /\ \/ \E lamports \in Nat : Pays(u, lamports)
                \/ user_sol' = user_sol /\ reward_vault' = reward_vault
  <2>1. pool'.total_rewards_distributed = pool.total_rewards_distributed
    BY <1>1, <1>2 DEF Claim, ClaimNothing, ClaimRewards, TypeOK, StakingPoolAccount
  <2>2. CASE ClaimNothing(u)
    BY <2>1, <2>2 DEF ClaimNothing
  <2>3. CASE ClaimRewards(u)
    <3> DEFINE total == Claimable(Settled(staker[u]))
    <3>1. total \in Nat
      BY <1>1, <1>2, SettledType DEF Claim, TypeOK
    <3>2. Pays(u, total)
      BY <2>3, <3>1 DEF ClaimRewards, PayOut, Pays
    <3> QED
      BY <2>1, <3>1, <3>2
  <2> QED
    BY <1>2, <2>2, <2>3 DEF Claim
<1>3. ASSUME NEW u \in Users, Unstake(u)
      PROVE  /\ pool'.total_rewards_distributed = pool.total_rewards_distributed
             /\ \E lamports \in Nat : Pays(u, lamports)
  <2> DEFINE total == UnstakePayment(Settled(staker[u]))
  <2>1. pool'.total_rewards_distributed = pool.total_rewards_distributed
    BY <1>1, <1>3 DEF Unstake, UnstakeChecks, TypeOK, StakingPoolAccount
  <2>2. total \in Nat
    BY <1>1, <1>3, SettledType DEF Unstake, UnstakeChecks, UnstakePayment, TypeOK
  <2>3. Pays(u, total)
    BY <1>3, <2>2 DEF Unstake, UnstakeChecks, PayOut, Pays
  <2> QED
    BY <2>1, <2>2, <2>3
<1>4. ASSUME NEW u \in Users, NEW amount \in Amounts, Stake(u, amount)
      PROVE  /\ pool'.total_rewards_distributed = pool.total_rewards_distributed
             /\ user_sol' = user_sol /\ reward_vault' = reward_vault
  BY <1>1, <1>4 DEF Stake, TypeOK, StakingPoolAccount
<1>5. ASSUME NEW min_stake, NEW fee, UpdatePoolConfig(min_stake, fee)
      PROVE  /\ pool'.total_rewards_distributed = pool.total_rewards_distributed
             /\ user_sol' = user_sol /\ reward_vault' = reward_vault
  BY <1>1, <1>5 DEF UpdatePoolConfig, TypeOK, StakingPoolAccount
<1>6. CASE EmergencyHalt \/ Resume \/ Tick \/ UNCHANGED vars
  BY <1>1, <1>6 DEF EmergencyHalt, Resume, Tick, vars, TypeOK, StakingPoolAccount
<1> QED
  BY <1>2, <1>3, <1>4, <1>5, <1>6 DEF Next

\* The shares of one deposit do not exceed what is deposited.
LEMMA SharesFitDeposit ==
    ASSUME IInv, TotalsMatchAccounts,
           \A u \in Users : Share(u) \in Nat,
           NEW amount \in Deposits, DepositRewards(amount)
    PROVE  SumFunction([u \in Users |-> Share(u)])
               <= PRECISION * DepositedBy(pool, pool')
<1> DEFINE shares  == [u \in Users |-> Share(u)]
           weights == [u \in Users |-> Weight(staker[u])]
<1>1. PICK net \in Nat, total \in Nat \ {0} :
         /\ total = pool.total_weighted_stake
         /\ DepositedBy(pool, pool') = net
  BY DepositAccrues
<1>2. TypeOK /\ PRECISION \in Nat /\ PRECISION * net \in Nat
  BY <1>1, TimesNat, AmountsAssumption DEF IInv, TypeInv
<1>3. shares \in [Users -> Int] /\ weights \in [Users -> Int]
  <2>1. \A u \in Users : Weight(staker[u]) \in Nat
    BY <1>2, AccountNumbers
  <2> QED
    BY <2>1
<1>4. total = SumFunction(weights)
  BY <1>1 DEF TotalsMatchAccounts, Sum
<1> DEFINE scaled  == [u \in Users |-> total * shares[u]]
           portion == [u \in Users |-> (PRECISION * net) * weights[u]]
<1>5. ASSUME NEW u \in Users
      PROVE  total * shares[u] <= (PRECISION * net) * weights[u]
  <2> DEFINE w == Weight(staker[u])
             a == (net * PRECISION) * w
  <2>1. w \in Nat
    BY <1>2, AccountNumbers
  <2>2. PRECISION * net = net * PRECISION
    BY <1>1, <1>2
  <2>3. a \in Nat /\ a = (PRECISION * net) * w
    BY <1>2, <2>1, <2>2, TimesNat
  <2>4. CASE net = 0
    <3>1. Share(u) = 0
      BY <1>1, <2>4 DEF Share
    <3> QED
      BY <1>1, <2>3, <3>1
  <2>5. CASE net # 0
    <3>1. Share(u) = a \div total
      BY <1>1, <2>5 DEF Share
    <3> HIDE DEF a, w
    <3>2. total * (a \div total) <= a
      BY <1>1, <2>3, DivBounds
    <3> QED
      BY <2>3, <3>1, <3>2 DEF w
  <2> QED
    BY <2>4, <2>5
<1> HIDE DEF shares, weights
<1>6. /\ scaled \in [Users -> Int] /\ portion \in [Users -> Int]
      /\ \A u \in Users : scaled[u] = total * shares[u]
      /\ \A u \in Users : portion[u] = (PRECISION * net) * weights[u]
  BY <1>1, <1>2, <1>3
<1>7. \A u \in Users : scaled[u] <= portion[u]
  BY <1>5, <1>6
<1> HIDE DEF scaled, portion
<1>8. SumFunction(scaled) <= SumFunction(portion)
  BY <1>6, <1>7, UsersAssumption, SumMonotone
<1>9. SumFunction(scaled) = total * SumFunction(shares)
  BY <1>1, <1>3, <1>6, UsersAssumption, SumScale
<1>10. SumFunction(portion) = (PRECISION * net) * total
  BY <1>2, <1>3, <1>4, <1>6, UsersAssumption, SumScale
<1>11. SumFunction(shares) \in Int
  BY <1>3, UsersAssumption, SumType
<1>12. SumFunction(shares) <= PRECISION * net
  BY <1>1, <1>2, <1>8, <1>9, <1>10, <1>11, CancelFactor
<1> QED
  BY <1>1, <1>12 DEF shares

\* The shares of all deposits stay within them.
LEMMA SharesStep ==
    ASSUME IInv, IInv', HNext, HistoryType, TotalsMatchAccounts, SharesWithinDeposits
    PROVE  SharesWithinDeposits'
<1>1. /\ HistoryType'
      /\ \A u \in Users : earned'[u] = earned[u] + Share(u)
      /\ \A u \in Users : Share(u) \in Nat
      /\ PRECISION \in Nat /\ Next
  BY HistoryTypeKept, StepKeeps, AmountsAssumption DEF Keeps, HNext
<1> DEFINE shares == [u \in Users |-> Share(u)]
<1>2. shares \in [Users -> Int]
  BY <1>1
<1>3. earned \in [Users -> Int] /\ earned' \in [Users -> Int]
  BY <1>1 DEF HistoryType
<1>4. \A u \in Users : earned'[u] = earned[u] + 1 * shares[u]
  BY <1>1
<1>5. SumFunction(earned') = SumFunction(earned) + SumFunction(shares)
  <2> HIDE DEF shares
  <2>1. Combines(Users, earned', earned, 1, shares)
    BY <1>2, <1>3, <1>4 DEF Combines
  <2>2. SumFunction(earned') = SumFunction(earned) + 1 * SumFunction(shares)
    BY <2>1, UsersAssumption, SumLinear
  <2>3. SumFunction(shares) \in Int
    BY <1>2, UsersAssumption, SumType
  <2> QED
    BY <2>2, <2>3
<1>6. /\ SumFunction(earned) \in Int /\ SumFunction(earned') \in Int
      /\ SumFunction(shares) \in Int
  BY <1>2, <1>3, UsersAssumption, SumType
<1>7. /\ pool.total_rewards_distributed \in Nat
      /\ pool'.total_rewards_distributed \in Nat
  BY DEF IInv, TypeInv, TypeOK, StakingPoolAccount
<1>8. SumFunction(earned) <= PRECISION * pool.total_rewards_distributed
  BY DEF SharesWithinDeposits, Sum
<1>9. SumFunction(shares) <= PRECISION * DepositedBy(pool, pool')
  <2>1. CASE \E amount \in Deposits : DepositRewards(amount)
    BY <1>1, <2>1, SharesFitDeposit
  <2>2. CASE ~\E amount \in Deposits : DepositRewards(amount)
    <3>1. ASSUME NEW u \in Users
          PROVE  shares[u] = 0
      <4>1. DepositedBy(pool, pool') = 0
        BY <1>1, <1>7, <2>2, StepSettles DEF DepositedBy
      <4> QED
        BY <4>1 DEF Share
    <3>2. SumFunction(shares) = 0
      <4> HIDE DEF shares
      <4> QED
        BY <1>2, <3>1, UsersAssumption, SumZero
    <3>3. DepositedBy(pool, pool') \in Nat
      BY <1>1, <1>7, <2>2, NothingDeposited DEF DepositedBy
    <3> QED
      BY <1>1, <3>2, <3>3, TimesNat
  <2> QED
    BY <2>1, <2>2
<1> HIDE DEF shares
<1>10. PRECISION * pool'.total_rewards_distributed
         = PRECISION * pool.total_rewards_distributed
               + PRECISION * DepositedBy(pool, pool')
  BY <1>1, <1>7 DEF DepositedBy
<1>11. /\ PRECISION * pool.total_rewards_distributed \in Int
       /\ PRECISION * DepositedBy(pool, pool') \in Int
  BY <1>1, <1>7 DEF DepositedBy
<1>12. SumFunction(earned') <= PRECISION * pool'.total_rewards_distributed
  BY <1>5, <1>6, <1>8, <1>9, <1>10, <1>11
<1> QED
  BY <1>12 DEF SharesWithinDeposits, Sum

\* All that was deposited is in the vault or with stakers, after every step.
LEMMA DepositsKeptStep ==
    ASSUME IInv, IInv', [Next]_vars, DepositsKept
    PROVE  DepositsKept'
<1>1. /\ user_sol \in [Users -> Int] /\ user_sol' \in [Users -> Int]
      /\ reward_vault \in Nat /\ pool.total_rewards_distributed \in Nat
  BY DEF IInv, TypeInv, TypeOK, StakingPoolAccount
<1>2. SumFunction(user_sol) \in Int
  BY <1>1, UsersAssumption, SumType
<1>3. pool.total_rewards_distributed <= reward_vault + SumFunction(user_sol)
  BY DEF DepositsKept, Sum
<1>4. SUFFICES pool'.total_rewards_distributed
                   <= reward_vault' + SumFunction(user_sol')
  BY DEF DepositsKept, Sum
<1>5. ASSUME NEW amount \in Deposits, DepositRewards(amount)
      PROVE  pool'.total_rewards_distributed
                 <= reward_vault' + SumFunction(user_sol')
  <2>1. PICK net \in Nat :
           /\ pool'.total_rewards_distributed
                  = pool.total_rewards_distributed + net
           /\ reward_vault' = reward_vault + net
           /\ user_sol' = user_sol
    BY <1>5, DepositAccrues
  <2> QED
    BY <1>1, <1>2, <1>3, <2>1
<1>6. ASSUME NEW u \in Users, NEW lamports \in Nat, Pays(u, lamports),
             pool'.total_rewards_distributed = pool.total_rewards_distributed
      PROVE  pool'.total_rewards_distributed
                 <= reward_vault' + SumFunction(user_sol')
  <2>1. /\ user_sol'[u] = user_sol[u] + lamports
        /\ \A v \in Users : v # u => user_sol'[v] = user_sol[v]
        /\ user_sol[u] \in Int
        /\ reward_vault' = reward_vault - lamports
    BY <1>1, <1>6 DEF Pays
  <2>2. SumFunction(user_sol') = SumFunction(user_sol) - user_sol[u] + user_sol'[u]
    BY <1>1, <2>1, UsersAssumption, SumUpdate
  <2> QED
    BY <1>1, <1>2, <1>3, <1>6, <2>1, <2>2
<1> QED
  BY <1>1, <1>3, <1>5, <1>6, NothingDeposited
----------------------------------------------------------------------------
(* The invariant of the history. *)

\* Nothing is owed, deposited or paid in the initial states.
LEMMA InitHInv == HInit => HInv
<1> SUFFICES ASSUME HInit
             PROVE  HInv
  OBVIOUS
<1>1. IInv
  BY InitIInv DEF HInit
<1>2. HistoryType
  BY DEF HInit, HistoryType
<1>3. /\ pool.total_staked = 0 /\ pool.total_weighted_stake = 0
      /\ pool.total_rewards_distributed = 0
      /\ staker = [u \in Users |-> NoStaker]
      /\ user_sol = [u \in Users |-> 0]
      /\ earned = [u \in Users |-> 0]
      /\ truncated = [u \in Users |-> 0]
      /\ upgrades = [u \in Users |-> 0]
      /\ reward_vault \in Nat
      /\ PRECISION \in Nat
  BY EnvironmentAssumption, AmountsAssumption DEF HInit, Init
<1>4. ASSUME NEW u \in Users
      PROVE  Weight(staker[u]) = 0 /\ staker[u].staked_amount = 0
  <2>1. staker[u].staked_amount = 0 /\ staker[u].current_multiplier = 0
    BY <1>3 DEF NoStaker
  <2> QED
    BY <2>1 DEF Weight
<1>5. ASSUME NEW u \in Users
      PROVE  Bounded(u)
  <2>1. TypeOK /\ AccountSound(u)
    BY <1>1 DEF IInv, TypeInv, RewardInv
  <2>2. Accrued(u) = 0
    BY <1>4, <2>1, WeightlessAccrued
  <2>3. Earning(u) = 0
    BY <1>4 DEF Earning
  <2> QED
    BY <1>3, <2>2, <2>3 DEF Bounded
<1> DEFINE zero == [u \in Users |-> 0]
<1>6. zero \in [Users -> Int] /\ \A u \in Users : zero[u] = 0
  OBVIOUS
<1>7. /\ zero = [u \in Users |-> Weight(staker[u])]
      /\ zero = [u \in Users |-> staker[u].staked_amount]
      /\ zero = earned /\ zero = user_sol
  BY <1>3, <1>4
<1> HIDE DEF zero
<1>8. SumFunction(zero) = 0
  BY <1>6, UsersAssumption, SumZero
<1>9. TotalsMatchAccounts
  BY <1>3, <1>7, <1>8 DEF TotalsMatchAccounts, Sum
<1>10. SharesWithinDeposits
  <2>1. PRECISION * 0 = 0
    BY <1>3
  <2> QED
    BY <1>3, <1>7, <1>8, <2>1 DEF SharesWithinDeposits, Sum
<1>11. DepositsKept
  BY <1>3, <1>7, <1>8 DEF DepositsKept, Sum
<1> QED
  BY <1>1, <1>2, <1>5, <1>9, <1>10, <1>11 DEF HInv

\* Every step keeps the invariant.
LEMMA NextHInv == HInv /\ [HNext]_<<vars, history>> => HInv'
<1> SUFFICES ASSUME HInv, [HNext]_<<vars, history>>
             PROVE  HInv'
  OBVIOUS
<1>1. /\ IInv /\ HistoryType /\ TotalsMatchAccounts
      /\ SharesWithinDeposits /\ DepositsKept
      /\ \A u \in Users : Bounded(u)
  BY DEF HInv
<1>2. IInv'
  <2>1. [Next]_vars
    BY DEF HNext, history
  <2> QED
    BY <1>1, <2>1, NextIInv
<1>3. CASE HNext
  <2>1. [Next]_vars
    BY <1>3 DEF HNext
  <2>2. HistoryType'
    BY <1>1, <1>2, <1>3, HistoryTypeKept
  <2>3. \A u \in Users : Bounded(u)'
    BY <1>1, <1>2, <1>3, BoundedKept
  <2>4. TotalsMatchAccounts'
    BY <1>1, <1>2, <2>1, TotalsStep
  <2>5. SharesWithinDeposits'
    BY <1>1, <1>2, <1>3, SharesStep
  <2>6. DepositsKept'
    BY <1>1, <1>2, <2>1, DepositsKeptStep
  <2> QED
    BY <1>2, <2>2, <2>3, <2>4, <2>5, <2>6 DEF HInv
<1>4. CASE UNCHANGED <<vars, history>>
  BY <1>1, <1>2, <1>4
     DEF HInv, HistoryType, TotalsMatchAccounts, SharesWithinDeposits,
         DepositsKept, Bounded, Accrued, Earning, Weight, Sum, vars, history
<1> QED
  BY <1>3, <1>4

\* The invariant holds in every state.
LEMMA HistoryInvariant == HSpec => []HInv
<1>1. HInit => HInv
  BY InitHInv
<1>2. HInv /\ [HNext]_<<vars, history>> => HInv'
  BY NextHInv
<1> QED
  BY <1>1, <1>2, PTL DEF HSpec
----------------------------------------------------------------------------
(* The theorems. *)

\* The pool's totals are the sums over the accounts: the weight each deposit
\* is divided by is that of the stakers it is divided among.
THEOREM TotalsMatch == HSpec => []TotalsMatchAccounts
<1>1. HInv => TotalsMatchAccounts
  BY DEF HInv
<1> QED
  BY <1>1, HistoryInvariant, PTL

\* The invariant bounds what each user has received and can claim.
LEMMA HInvBounds ==
    ASSUME HInv, NEW u \in Users
    PROVE  /\ PRECISION * (user_sol[u] + Claimable(staker[u]))
                  <= earned[u] + upgrades[u] * (PRECISION - 1)
           /\ PRECISION * (user_sol[u] + Claimable(staker[u]))
                  >= earned[u] - truncated[u] - upgrades[u] * (PRECISION - 1)
<1>1. TypeOK /\ AccountSound(u) /\ HistoryType /\ Bounded(u)
  BY DEF HInv, IInv, TypeInv, RewardInv
<1>2. /\ PRECISION \in Nat /\ PRECISION - 1 \in Nat
      /\ user_sol[u] \in Nat /\ Earning(u) \in {0, 1} /\ Accrued(u) \in Int
      /\ earned[u] \in Nat /\ truncated[u] \in Nat /\ upgrades[u] \in Nat
  BY <1>1, AccountNumbers, AmountsAssumption DEF HistoryType
<1> DEFINE sol   == PRECISION * user_sol[u]
           owed  == PRECISION * Claimable(staker[u])
           one   == PRECISION - 1
           most  == upgrades[u] * one
           last  == Earning(u) * one
<1>3. /\ Claimable(staker[u]) \in Nat
      /\ owed <= Accrued(u) /\ Accrued(u) <= owed + last
  BY <1>1, ClaimableAccrued
<1>4. /\ sol + Accrued(u) <= earned[u] + most
      /\ sol + Accrued(u) >= earned[u] - truncated[u]
                                 - (upgrades[u] - Earning(u)) * one
  BY <1>1 DEF Bounded
<1> HIDE DEF one
<1>5. (upgrades[u] - Earning(u)) * one = most - last
  BY <1>2 DEF one
<1>6. /\ sol \in Int /\ owed \in Int /\ most \in Int /\ last \in Int
      /\ PRECISION * (user_sol[u] + Claimable(staker[u])) = sol + owed
  <2>1. one \in Int /\ Earning(u) \in Int
    BY <1>2 DEF one
  <2>2. most \in Int /\ last \in Int
    BY <1>2, <2>1
  <2>3. sol \in Int /\ owed \in Int
    BY <1>2, <1>3
  <2>4. \A a, b, c \in Int : a * (b + c) = a * b + a * c
    OBVIOUS
  <2> QED
    BY <1>2, <1>3, <2>2, <2>3, <2>4
<1> HIDE DEF sol, owed, most, last
<1>7. sol + owed <= earned[u] + most /\ sol + owed >= earned[u] - truncated[u] - most
  BY <1>2, <1>3, <1>4, <1>5, <1>6
<1> QED
  BY <1>6, <1>7 DEF most, one

\* No staker is ever paid or left to claim more than its shares of the
\* deposits and one unit of rounding for each time its multiplier rose.
THEOREM NobodyOverpaid == HSpec => []NeverOverpaid
<1>1. HInv => NeverOverpaid
  BY HInvBounds DEF NeverOverpaid
<1> QED
  BY <1>1, HistoryInvariant, PTL

\* ... nor less than that, but for the truncation of reward_per_share.
THEOREM NobodyShortchanged == HSpec => []NeverShortchanged
<1>1. HInv => NeverShortchanged
  BY HInvBounds DEF NeverShortchanged
<1> QED
  BY <1>1, HistoryInvariant, PTL

\* The vault covers what is claimable, but for one lamport per upgrade.
LEMMA HInvSolvent == HInv => SolventUpToRounding
<1> SUFFICES ASSUME HInv
             PROVE  SolventUpToRounding
  OBVIOUS
<1>1. /\ TypeOK /\ HistoryType /\ SharesWithinDeposits /\ DepositsKept
      /\ \A u \in Users : AccountSound(u)
      /\ PRECISION \in Nat /\ PRECISION > 0
      /\ reward_vault \in Nat /\ pool.total_rewards_distributed \in Nat
  BY AmountsAssumption
     DEF HInv, IInv, TypeInv, RewardInv, TypeOK, StakingPoolAccount
<1> DEFINE one   == PRECISION - 1
           claim == [u \in Users |-> Claimable(staker[u])]
           got   == [u \in Users |-> user_sol[u] + claim[u]]
           worth == [u \in Users |-> PRECISION * got[u]]
           most  == [u \in Users |-> earned[u] + one * upgrades[u]]
<1>2. /\ claim \in [Users -> Int] /\ user_sol \in [Users -> Int]
      /\ earned \in [Users -> Int] /\ upgrades \in [Users -> Int]
      /\ upgrades \in [Users -> Nat]
      /\ one \in Int
  <2>1. \A u \in Users : Claimable(staker[u]) \in Nat
    BY <1>1, ClaimableAccrued
  <2> QED
    BY <1>1, <2>1 DEF TypeOK, HistoryType
<1>3. \A u \in Users : worth[u] <= most[u]
  <2> SUFFICES ASSUME NEW u \in Users
               PROVE  worth[u] <= most[u]
    OBVIOUS
  <2>1. PRECISION * (user_sol[u] + Claimable(staker[u]))
            <= earned[u] + upgrades[u] * one
    BY HInvBounds
  <2>2. upgrades[u] * one = one * upgrades[u]
    BY <1>2
  <2> QED
    BY <2>1, <2>2
<1> HIDE DEF one, claim
<1>4. got \in [Users -> Int]
  BY <1>2
<1>5. Combines(Users, got, user_sol, 1, claim)
  BY <1>2, <1>4 DEF Combines
<1>6. /\ worth \in [Users -> Int]
      /\ \A u \in Users : worth[u] = PRECISION * got[u]
  <2> HIDE DEF got
  <2> QED
    BY <1>1, <1>4
<1>7. Combines(Users, most, earned, one, upgrades)
  BY <1>2 DEF Combines
<1> HIDE DEF got, worth, most
<1>8. most \in [Users -> Int]
  BY <1>7 DEF Combines
<1>9. SumFunction(worth) <= SumFunction(most)
  BY <1>3, <1>6, <1>8, UsersAssumption, SumMonotone
<1>10. SumFunction(worth) = PRECISION * SumFunction(got)
  BY <1>1, <1>4, <1>6, UsersAssumption, SumScale
<1>11. SumFunction(got) = SumFunction(user_sol) + 1 * SumFunction(claim)
  BY <1>5, UsersAssumption, SumLinear
<1>12. SumFunction(most) = SumFunction(earned) + one * SumFunction(upgrades)
  BY <1>7, UsersAssumption, SumLinear
<1>13. /\ SumFunction(user_sol) \in Int /\ SumFunction(claim) \in Int
       /\ SumFunction(earned) \in Int /\ SumFunction(upgrades) \in Int
       /\ SumFunction(got) \in Int
  BY <1>2, <1>4, UsersAssumption, SumType
<1>14. SumFunction(upgrades) >= 0
  <2> DEFINE zero == [u \in Users |-> 0]
  <2>1. /\ zero \in [Users -> Int]
        /\ \A u \in Users : zero[u] = 0
        /\ \A u \in Users : zero[u] <= upgrades[u]
    BY <1>2
  <2> HIDE DEF zero
  <2>2. SumFunction(zero) = 0 /\ SumFunction(zero) <= SumFunction(upgrades)
    BY <1>2, <2>1, UsersAssumption, SumZero, SumMonotone
  <2> QED
    BY <2>2
<1>15. /\ SumFunction(earned) <= PRECISION * pool.total_rewards_distributed
       /\ pool.total_rewards_distributed <= reward_vault + SumFunction(user_sol)
  BY <1>1 DEF SharesWithinDeposits, DepositsKept, Sum
<1> DEFINE ups   == SumFunction(upgrades)
           paid  == SumFunction(user_sol)
           owed  == SumFunction(claim)
           cover == reward_vault + ups
<1>16. PRECISION * (paid + owed) <= SumFunction(earned) + one * ups
  <2>1. SumFunction(got) = paid + owed
    BY <1>11, <1>13
  <2> QED
    BY <1>9, <1>10, <1>12, <2>1
<1>17. PRECISION * pool.total_rewards_distributed <= PRECISION * (reward_vault + paid)
  <2>1. reward_vault + paid \in Nat
    BY <1>1, <1>13, <1>15
  <2> QED
    BY <1>1, <1>15, <2>1, TimesMonotone
<1>18. one * ups <= PRECISION * ups
  BY <1>1, <1>2, <1>13, <1>14 DEF one
<1>19. PRECISION * (paid + owed) <= PRECISION * (reward_vault + paid) + PRECISION * ups
  <2>1. /\ PRECISION * (paid + owed) \in Int
        /\ PRECISION * (reward_vault + paid) \in Int
        /\ PRECISION * ups \in Int /\ one * ups \in Int
        /\ PRECISION * pool.total_rewards_distributed \in Int
    BY <1>1, <1>2, <1>13
  <2> QED
    BY <1>13, <1>15, <1>16, <1>17, <1>18, <2>1
<1> HIDE DEF ups, paid, owed
<1>20. ups \in Int /\ paid \in Int /\ owed \in Int
  BY <1>13 DEF ups, paid, owed
<1>21. /\ PRECISION * (paid + owed) = PRECISION * paid + PRECISION * owed
       /\ PRECISION * (reward_vault + paid) = PRECISION * reward_vault + PRECISION * paid
       /\ (reward_vault + ups) * PRECISION = PRECISION * reward_vault + PRECISION * ups
       /\ PRECISION * paid \in Int /\ PRECISION * owed \in Int
       /\ PRECISION * reward_vault \in Int /\ PRECISION * ups \in Int
  BY <1>1, <1>20
<1>22. PRECISION * owed <= (reward_vault + ups) * PRECISION
  BY <1>19, <1>21
<1>23. owed <= reward_vault + ups
  BY <1>1, <1>20, <1>22, CancelFactor
<1> QED
  BY <1>23 DEF SolventUpToRounding, Sum, owed, ups, claim

\* All that stakers may still take is in the vault, up to one lamport for
\* each time a multiplier was raised: no staker's payment can be spent on
\* another's.
THEOREM VaultCoversClaims == HSpec => []SolventUpToRounding
<1>1. HInv => SolventUpToRounding
  BY HInvSolvent
<1> QED
  BY <1>1, HistoryInvariant, PTL
----------------------------------------------------------------------------
(* Leaving the pool. *)

\* reward_per_share fits its type: both handlers that raise it check so.
SharesFit == pool.reward_per_share <= MaxU128

\* No step leaves it wider.
LEMMA SharesFitStep ==
    ASSUME TypeOK, SharesFit, [Next]_vars
    PROVE  SharesFit'
<1>1. CASE pool'.reward_per_share = pool.reward_per_share
  BY <1>1 DEF SharesFit
<1>2. ASSUME NEW u \in Users, NEW amount, Stake(u, amount)
      PROVE  SharesFit'
  BY <1>1, <1>2 DEF Stake, TypeOK, StakingPoolAccount
<1>3. ASSUME NEW u \in Users, Claim(u)
      PROVE  SharesFit'
  BY <1>1, <1>3 DEF Claim, ClaimNothing, ClaimRewards, TypeOK, StakingPoolAccount
<1>4. ASSUME NEW u \in Users, Unstake(u)
      PROVE  SharesFit'
  BY <1>4 DEF Unstake, UnstakeChecks, SharesFit, TypeOK, StakingPoolAccount
<1>5. ASSUME NEW amount, DepositRewards(amount)
      PROVE  SharesFit'
  BY <1>5 DEF DepositRewards, SharesFit, TypeOK, StakingPoolAccount
<1>6. ASSUME NEW min_stake, NEW fee, UpdatePoolConfig(min_stake, fee)
      PROVE  SharesFit'
  BY <1>1, <1>6 DEF UpdatePoolConfig, TypeOK, StakingPoolAccount
<1>7. CASE EmergencyHalt \/ Resume \/ Tick \/ UNCHANGED vars
  BY <1>1, <1>7 DEF EmergencyHalt, Resume, Tick, vars, TypeOK, StakingPoolAccount
<1> QED
  BY <1>2, <1>3, <1>4, <1>5, <1>6, <1>7 DEF Next

\* The totals start at the sums of nothing.
LEMMA TotalsInit == Init => TotalsMatchAccounts
<1> SUFFICES ASSUME Init
             PROVE  TotalsMatchAccounts
  OBVIOUS
<1> DEFINE zero == [u \in Users |-> 0]
<1>1. zero \in [Users -> Int] /\ \A u \in Users : zero[u] = 0
  OBVIOUS
<1>2. /\ pool.total_staked = 0 /\ pool.total_weighted_stake = 0
      /\ staker = [u \in Users |-> NoStaker]
  BY DEF Init
<1>3. /\ zero = [u \in Users |-> Weight(staker[u])]
      /\ zero = [u \in Users |-> staker[u].staked_amount]
  BY <1>2 DEF NoStaker, Weight
<1> HIDE DEF zero
<1>4. SumFunction(zero) = 0
  BY <1>1, UsersAssumption, SumZero
<1> QED
  BY <1>2, <1>3, <1>4 DEF TotalsMatchAccounts, Sum

\* A user's part of a total is within it.
LEMMA PartWithinTotals ==
    ASSUME TypeOK, TotalsMatchAccounts, NEW u \in Users
    PROVE  /\ Weight(staker[u]) <= pool.total_weighted_stake
           /\ staker[u].staked_amount <= pool.total_staked
<1> DEFINE w == [v \in Users |-> Weight(staker[v])]
           k == [v \in Users |-> staker[v].staked_amount]
           wu == [v \in {u} |-> Weight(staker[v])]
           ku == [v \in {u} |-> staker[v].staked_amount]
<1>1. \A v \in Users : /\ Weight(staker[v]) \in Nat
                       /\ staker[v].staked_amount \in Nat
  BY AccountNumbers
<1>2. /\ w \in [Users -> Nat] /\ k \in [Users -> Nat]
      /\ wu \in [{u} -> Nat] /\ ku \in [{u} -> Nat]
      /\ wu[u] = Weight(staker[u]) /\ ku[u] = staker[u].staked_amount
      /\ \A v \in {u} : wu[v] = w[v] /\ ku[v] = k[v]
  BY <1>1
<1>3. /\ pool.total_weighted_stake = SumFunction(w)
      /\ pool.total_staked = SumFunction(k)
  BY DEF TotalsMatchAccounts, Sum
<1> HIDE DEF w, k, wu, ku
<1>4. SumFunction(wu) <= SumFunction(w) /\ SumFunction(ku) <= SumFunction(k)
  BY <1>2, UsersAssumption, SumOverLess
<1>5. \A f \in [{u} -> Nat] : SumFunction(f) = f[u]
  <2> SUFFICES ASSUME NEW f \in [{u} -> Nat]
               PROVE  SumFunction(f) = f[u]
    OBVIOUS
  <2> DEFINE zero == [v \in {u} |-> 0]
  <2>1. IsFiniteSet({u})
    BY FS_Singleton
  <2>2. /\ zero \in [{u} -> Int] /\ f \in [{u} -> Int] /\ zero[u] = 0
        /\ \A v \in {u} : zero[v] = 0
        /\ \A v \in {u} : v # u => f[v] = zero[v]
    OBVIOUS
  <2> HIDE DEF zero
  <2>3. SumFunction(zero) = 0
    BY <2>1, <2>2, SumZero
  <2>4. SumFunction(f) = SumFunction(zero) - zero[u] + f[u]
    BY <2>1, <2>2, SumUpdate
  <2> QED
    BY <2>2, <2>3, <2>4
<1> QED
  BY <1>2, <1>3, <1>4, <1>5

\* What the settlement of a sound account computes fits, if its numbers do.
LEMMA SettlementFitting ==
    ASSUME TypeOK, NEW u \in Users, HasStake(u), AccountSound(u), SettlementFits(u),
           Weight(staker[u]) <= pool.total_weighted_stake
    PROVE  SettlementComputes(staker[u])
<1> DEFINE s == staker[u]
           t == Settled(s)
<1>1. s \in StakerAccount /\ s.reward_debt <= Accumulated(Weight(s))
      /\ s.stake_timestamp \in Nat /\ now \in Nat
  BY DEF TypeOK, StakerAccount, AccountSound
<1>2. /\ Weight(s) * pool.reward_per_share <= MaxU128
      /\ Weight(t) * pool.reward_per_share <= MaxU128
      /\ Claimable(t) <= MaxU64
  BY DEF SettlementFits
<1>3. CASE t = s
  BY <1>1, <1>2, <1>3 DEF SettlementComputes, OwedComputes
<1>4. CASE t # s
  <2>1. /\ t.pending_rewards = Claimable(s)
        /\ t.reward_debt = Accumulated(Weight(t))
        /\ t.staked_amount = s.staked_amount
        /\ t.current_multiplier = get_multiplier(s.stake_timestamp, now)
    BY <1>1, <1>4, SettledFields
  <2>2. Weight(t) \in Nat
    <3>1. t.current_multiplier \in Nat /\ t.staked_amount \in Nat
      BY <1>1, <2>1, MultiplierType DEF StakerAccount
    <3> QED
      BY <3>1, TimesNat DEF Weight
  <2>3. Accumulated(Weight(t)) \in Nat /\ Claimable(s) \in Nat
    BY <1>1, <2>2, AccumulatedNat, ClaimableNat
  <2> HIDE DEF t, s
  <2>4. Claimable(t) = Claimable(s)
    BY <2>1, <2>3 DEF Claimable, Owed
  <2>5. OwedComputes(s) /\ OwedComputes(t)
    BY <1>1, <1>2, <2>1, <2>3, <2>4 DEF OwedComputes
  <2> QED
    BY <2>5 DEF SettlementComputes, s, t
<1> QED
  BY <1>3, <1>4

\* No check of `unstake` but the vault's and the width of the numbers can fail.
LEMMA ChecksPass ==
    ASSUME IInv, TotalsMatchAccounts, SharesFit, NEW u \in Users, HasStake(u),
           SettlementFits(u),
           LET total == UnstakePayment(Settled(staker[u]))
           IN  total > 0 => VaultCovers(total)
    PROVE  UnstakeChecks(u)
<1> DEFINE s == staker[u]
           t == Settled(s)
           weighted == SettledWeightedStake(s)
<1>1. /\ TypeOK /\ AccountSound(u) /\ brain_vault = pool.total_staked
      /\ s \in StakerAccount /\ pool.reward_per_share \in Nat
      /\ pool.total_weighted_stake \in Nat /\ pool.total_staked \in Nat
  BY DEF IInv, TypeInv, TypeOK, RewardInv, PrincipalConserved, StakingPoolAccount
<1>2. /\ Weight(s) <= pool.total_weighted_stake
      /\ s.staked_amount <= pool.total_staked
  BY <1>1, PartWithinTotals
<1>3. SettlementComputes(s)
  BY <1>1, <1>2, SettlementFitting
<1>4. t \in StakerAccount /\ t.staked_amount = s.staked_amount
  BY <1>1, <1>3, SettledType, SettledFields
<1>5. Weight(s) \in Nat /\ Weight(t) \in Nat
  BY <1>1, <1>4, WeightNat
<1>6. weighted = (pool.total_weighted_stake - Weight(s)) + Weight(t)
  BY DEF SettledWeightedStake
<1>7. Forfeit(t, weighted) = 0
  <2>1. t.current_multiplier = 0 => t = s
    BY <1>1, <1>3, SettledSound
  <2>2. s.pending_rewards = 0
    BY <1>1 DEF AccountSound
  <2> HIDE DEF t, s
  <2> QED
    BY <2>1, <2>2 DEF Forfeit
<1> HIDE DEF t, s, weighted
<1>8. Weight(t) <= weighted
  BY <1>1, <1>2, <1>5, <1>6
<1> QED
  BY <1>1, <1>2, <1>3, <1>4, <1>7, <1>8 DEF UnstakeChecks, SharesFit, s, t, weighted

\* A user can leave, paused pool or not, as soon as the vault covers its
\* rewards, if it has any, and the numbers of its settlement fit: the totals
\* cover its stake and its weight, its debt is covered, nothing is forfeited.
THEOREM OnlyVaultBlocksExit == Spec => []ExitBlockedOnlyByVault
<1> DEFINE Inv == IInv /\ TotalsMatchAccounts /\ SharesFit
<1>1. Init => Inv
  <2> SUFFICES ASSUME Init PROVE Inv
    OBVIOUS
  <2>1. IInv
    BY InitIInv
  <2>2. pool.reward_per_share = 0
    BY DEF Init
  <2>3. SharesFit
    BY <2>2, AmountsAssumption DEF SharesFit
  <2>4. TotalsMatchAccounts
    BY TotalsInit
  <2> QED
    BY <2>1, <2>3, <2>4
<1>2. Inv /\ [Next]_vars => Inv'
  <2> SUFFICES ASSUME Inv, [Next]_vars PROVE Inv'
    OBVIOUS
  <2>1. IInv'
    BY NextIInv
  <2>2. TotalsMatchAccounts'
    BY <2>1, TotalsStep
  <2>3. SharesFit'
    BY SharesFitStep DEF IInv, TypeInv
  <2> QED
    BY <2>1, <2>2, <2>3
<1>3. Inv => ExitBlockedOnlyByVault
  BY ChecksPass DEF ExitBlockedOnlyByVault
<1> HIDE DEF Inv
<1> QED
  BY <1>1, <1>2, <1>3, PTL DEF Spec
----------------------------------------------------------------------------
(* Lamports. *)

\* Of a deposit, what is not a fee enters the vault.
LEMMA DepositKeepsLamports ==
    ASSUME TypeOK, NEW amount \in Deposits, DepositRewards(amount)
    PROVE  /\ user_sol' = user_sol
           /\ reward_vault' + treasury' + authority_sol'
                  = reward_vault + treasury + authority_sol
<1>1. amount \in Nat /\ pool.protocol_fee_bps \in Nat
  BY EnvironmentAssumption DEF TypeOK, StakingPoolAccount
<1>2. amount * pool.protocol_fee_bps \in Nat
  BY <1>1, TimesNat
<1>3. ProtocolFee(amount) \in Nat
  BY <1>2, AmountsAssumption, DivNat DEF ProtocolFee
<1>4. /\ user_sol' = user_sol
      /\ treasury' = treasury + ProtocolFee(amount)
      /\ reward_vault' = reward_vault + (amount - ProtocolFee(amount))
      /\ authority_sol' = authority_sol - amount
  BY DEF DepositRewards
<1>5. reward_vault \in Nat /\ treasury \in Nat /\ authority_sol \in Nat
  BY DEF TypeOK
<1>6. PICK f \in Nat : /\ treasury' = treasury + f
                       /\ reward_vault' = reward_vault + (amount - f)
  BY <1>3, <1>4
<1>7. reward_vault' + treasury' + authority_sol'
          = reward_vault + treasury + authority_sol
  BY <1>1, <1>4, <1>5, <1>6
<1> QED
  BY <1>4, <1>7

\* Nothing but a deposit moves the lamports outside the vault and the stakers.
LEMMA OthersUntouched ==
    ASSUME [Next]_vars, ~\E amount \in Deposits : DepositRewards(amount)
    PROVE  treasury' = treasury /\ authority_sol' = authority_sol
BY DEF Next, Stake, Claim, ClaimNothing, ClaimRewards, Unstake, UpdatePoolConfig,
       EmergencyHalt, Resume, Tick, vars

\* No step makes or loses a lamport.
LEMMA LamportsStep ==
    ASSUME IInv, IInv', [Next]_vars
    PROVE  Lamports' = Lamports
<1>1. /\ TypeOK
      /\ user_sol \in [Users -> Int] /\ user_sol' \in [Users -> Int]
      /\ {reward_vault, treasury, authority_sol} \subseteq Nat
      /\ {reward_vault', treasury', authority_sol'} \subseteq Nat
  BY DEF IInv, TypeInv, TypeOK
<1>2. SumFunction(user_sol) \in Int
  BY <1>1, UsersAssumption, SumType
<1>3. SUFFICES reward_vault' + SumFunction(user_sol') + treasury' + authority_sol'
                   = reward_vault + SumFunction(user_sol) + treasury + authority_sol
  BY DEF Lamports, Sum
<1>4. CASE \E amount \in Deposits : DepositRewards(amount)
  <2>1. /\ user_sol' = user_sol
        /\ reward_vault' + treasury' + authority_sol'
               = reward_vault + treasury + authority_sol
    <3>1. PICK amount \in Deposits : DepositRewards(amount)
      BY <1>4
    <3> QED
      BY <1>1, <3>1, DepositKeepsLamports
  <2>2. SumFunction(user_sol') = SumFunction(user_sol)
    BY <2>1
  <2> QED
    BY <1>1, <1>2, <2>1, <2>2
<1>5. CASE ~\E amount \in Deposits : DepositRewards(amount)
  <2>1. treasury' = treasury /\ authority_sol' = authority_sol
    BY <1>5, OthersUntouched
  <2>2. ASSUME NEW u \in Users, NEW lamports \in Nat, Pays(u, lamports)
        PROVE  reward_vault' + SumFunction(user_sol')
                   = reward_vault + SumFunction(user_sol)
    <3>1. /\ user_sol'[u] = user_sol[u] + lamports
          /\ \A v \in Users : v # u => user_sol'[v] = user_sol[v]
          /\ user_sol[u] \in Int
          /\ reward_vault' = reward_vault - lamports
      BY <1>1, <2>2 DEF Pays
    <3>2. SumFunction(user_sol') = SumFunction(user_sol) - user_sol[u] + user_sol'[u]
      BY <1>1, <3>1, UsersAssumption, SumUpdate
    <3> QED
      BY <1>1, <1>2, <2>2, <3>1, <3>2
  <2>3. reward_vault' + SumFunction(user_sol') = reward_vault + SumFunction(user_sol)
    BY <1>5, <2>2, NothingDeposited
  <2>4. SumFunction(user_sol') \in Int
    BY <1>1, UsersAssumption, SumType
  <2> QED
    BY <1>1, <1>2, <2>1, <2>3, <2>4
<1> QED
  BY <1>4, <1>5

\* deposit_rewards, claim and unstake only move lamports, however the fee, the
\* increment and the shares are rounded.
THEOREM NoLamportLost == Spec => LamportsConserved
<1>1. IInv /\ IInv' /\ [Next]_vars => [Lamports' = Lamports]_vars
  BY LamportsStep
<1> QED
  BY <1>1, InitIInv, NextIInv, PTL DEF Spec, LamportsConserved
=============================================================================
