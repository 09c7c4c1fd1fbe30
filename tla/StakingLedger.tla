--------------------------- MODULE StakingLedger ---------------------------
(***************************************************************************)
(* What the staking pool promises, without tiers, weights or accumulator:  *)
(* a user's BRAIN comes back to it whole and at once, by its own step and  *)
(* also while the pool is halted; SOL enters the vault with a deposit of   *)
(* which at most the maximal fee goes elsewhere, and leaves it to one user *)
(* at a time, never below the rent minimum.  StakingPool implements it.    *)
(***************************************************************************)
EXTENDS Integers

CONSTANTS Users, MaxFee, FeeScale, MinDeposit, Rent

VARIABLES
    locked,          \* BRAIN each user has in the pool
    vault,           \* lamports for rewards
    received,        \* lamports each user was paid
    fees,            \* lamports taken as fees
    halted

vars == <<locked, vault, received, fees, halted>>

Init ==
    /\ locked = [u \in Users |-> 0]
    /\ vault \in Nat
    /\ received = [u \in Users |-> 0]
    /\ fees = 0
    /\ halted = FALSE

Lock(u) ==
    /\ ~halted
    /\ locked[u] = 0
    /\ locked' = [locked EXCEPT ![u] = locked'[u]]
    /\ locked'[u] > 0
    /\ UNCHANGED <<vault, received, fees, halted>>

\* The vault gives u some lamports, or none, and may halt the pool by it.
Payment(u) ==
    /\ vault' <= vault
    /\ vault' # vault => vault' >= Rent
    /\ received' = [received EXCEPT ![u] = @ + (vault - vault')]
    /\ halted' \in {halted, vault' # vault}
    /\ halted => halted'
    /\ UNCHANGED fees

Reward(u) ==
    /\ ~halted
    /\ locked[u] > 0
    /\ Payment(u)
    /\ UNCHANGED locked

Release(u) ==
    /\ locked[u] > 0
    /\ Payment(u)
    /\ locked' = [locked EXCEPT ![u] = 0]

Fund ==
    LET net == vault' - vault
        fee == fees' - fees
    IN  /\ ~halted
        /\ net >= 0 /\ fee >= 0 /\ net + fee >= MinDeposit
        /\ fee * FeeScale <= (net + fee) * MaxFee
        /\ UNCHANGED <<locked, received, halted>>

HaltOrResume ==
    /\ halted' \in BOOLEAN
    /\ UNCHANGED <<locked, vault, received, fees>>

Next ==
    \/ \E u \in Users : Lock(u) \/ Reward(u) \/ Release(u)
    \/ Fund
    \/ HaltOrResume

Spec == Init /\ [][Next]_vars
=============================================================================
