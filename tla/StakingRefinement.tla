------------------------- MODULE StakingRefinement -------------------------
(***************************************************************************)
(* StakingPool implements StakingLedger.                                   *)
(***************************************************************************)
EXTENDS StakingPool

Ledger == INSTANCE StakingLedger
    WITH locked   <- [u \in Users |-> staker[u].staked_amount],
         vault    <- reward_vault,
         received <- user_sol,
         fees     <- treasury,
         halted   <- pool.is_paused,
         MaxFee   <- MAX_PROTOCOL_FEE_BPS,
         FeeScale <- BpsDenominator,
         MinDeposit <- MIN_REWARD_DEPOSIT,
         Rent     <- RentMinimum

\* Every behaviour of the pool is one of the ledger: in particular no upgrade
\* of a multiplier, late claim, re-stake or change of the configuration breaks
\* what the ledger promises to users and depositors.
ImplementsLedger == Ledger!Spec
=============================================================================
