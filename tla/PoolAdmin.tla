----------------------------- MODULE PoolAdmin -----------------------------
(***************************************************************************)
(* Who may do what: the keys recorded in the StakingPool account, and the  *)
(* instructions that only check a signature and write one of its fields.   *)
(* signer remembers the key that signed the last transaction.              *)
(***************************************************************************)
EXTENDS Integers

CONSTANTS
    Keys,            \* the keys that sign
    NoKey,           \* Pubkey::default()
    Treasuries,      \* bound: treasury wallets the owner names
    FirstOwner, FirstCrank, FirstTreasury

ASSUME KeysAssumption ==
    /\ NoKey \notin Keys
    /\ FirstOwner \in Keys /\ FirstCrank \in Keys
    /\ FirstTreasury \in Treasuries

VARIABLES owner, pending_owner, crank, treasury, is_paused, signer

admin == <<owner, pending_owner, crank, treasury, is_paused>>

AdminInit ==
    /\ owner = FirstOwner /\ crank = FirstCrank /\ treasury = FirstTreasury
    /\ pending_owner = NoKey
    /\ is_paused = FALSE
    /\ signer = FirstOwner

SignedBy(key) == signer' = key

SignedByOwner(key) == key = owner /\ SignedBy(key)

SignedByOwnerOrCrank(key) == key \in {owner, crank} /\ SignedBy(key)

TransferOwnership(key, new_owner) ==
    /\ SignedByOwner(key)
    /\ new_owner # NoKey
    /\ pending_owner' = new_owner
    /\ UNCHANGED <<owner, crank, treasury, is_paused>>

\* A fault: the offer outlives its acceptance.
ClearedOffer_Kept == pending_owner

ClearedOffer == NoKey

AcceptOwnership(key) ==
    /\ SignedBy(key)
    /\ pending_owner # NoKey
    /\ key = pending_owner
    /\ owner' = pending_owner
    /\ pending_owner' = ClearedOffer
    /\ UNCHANGED <<crank, treasury, is_paused>>

\* A fault: any key is accepted, the default one too.
UpdateCrank_AnyKey(key, new_crank) ==
    /\ SignedByOwner(key)
    /\ crank' = new_crank
    /\ UNCHANGED <<owner, pending_owner, treasury, is_paused>>

UpdateCrank(key, new_crank) ==
    /\ SignedByOwner(key)
    /\ new_crank # NoKey
    /\ crank' = new_crank
    /\ UNCHANGED <<owner, pending_owner, treasury, is_paused>>

UpdateTreasury(key, new_treasury) ==
    /\ SignedByOwner(key)
    /\ new_treasury # NoKey
    /\ treasury' = new_treasury
    /\ UNCHANGED <<owner, pending_owner, crank, is_paused>>

Resume(key) ==
    /\ SignedByOwner(key)
    /\ is_paused' = FALSE
    /\ UNCHANGED <<owner, pending_owner, crank, treasury>>

\* A payout by `claim` or `unstake` that leaves the vault low.
AutoPause(key) ==
    /\ SignedBy(key)
    /\ is_paused' = TRUE
    /\ UNCHANGED <<owner, pending_owner, crank, treasury>>
=============================================================================
