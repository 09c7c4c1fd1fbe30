----------------------------- MODULE DlmmExits -----------------------------
(***************************************************************************)
(* The on-chain life of DLMM exits: opened by the owner or by a passed     *)
(* vote, fed with claim records, completed, terminated or halted, closed   *)
(* and opened again under the same seeds; with the keys of PoolAdmin       *)
(* changing meanwhile.                                                     *)
(***************************************************************************)
EXTENDS PoolAdmin, FiniteSets

CONSTANTS
    Pairs,           \* (asset_mint, dlmm_pool): the seeds of an exit
    ClaimAmounts,    \* bound: amounts recorded
    PassedVotes,     \* ids of sell proposals that passed and may be executed
    AutoExecute,     \* GovernanceConfig.auto_execute
    MaxClaimed,      \* bound on total_sol_claimed
    MaxTime

ASSUME ExitsAssumption ==
    /\ ClaimAmounts \subseteq Nat /\ PassedVotes \subseteq Nat
    /\ AutoExecute \in BOOLEAN /\ MaxClaimed \in Nat /\ MaxTime \in Nat

VARIABLES
    exits,           \* DlmmExit accounts by pair; NoExit if there is none
    unspent_votes,   \* passed proposals not yet executed
    now,
    halt             \* history: what the last halt since resume named of
                     \* the active exits, or "none" if there was no halt

exit_vars == <<exits, unspent_votes, now, halt>>
vars == <<admin, signer, exit_vars>>

Active == 0
Completed == 1
Terminated == 2

DlmmExit ==
    [status : {Active, Completed, Terminated}, total_sol_claimed : Nat,
     last_claimed_amount : Nat, created_at : Nat, completed_at : Nat,
     proposal_id : Nat]

NoExit ==
    [status |-> -1, total_sol_claimed |-> 0, last_claimed_amount |-> 0,
     created_at |-> 0, completed_at |-> 0, proposal_id |-> 0]

IsOpen(pair) == exits[pair] # NoExit
IsActive(pair) == IsOpen(pair) /\ exits[pair].status = Active

NewExit(proposal_id) ==
    [status |-> Active, total_sol_claimed |-> 0, last_claimed_amount |-> 0,
     created_at |-> now, completed_at |-> 0, proposal_id |-> proposal_id]
----------------------------------------------------------------------------
(* Instructions. *)

\* Unix time is positive, so that completed_at = 0 means "not yet".
Init ==
    /\ AdminInit
    /\ exits = [pair \in Pairs |-> NoExit]
    /\ unspent_votes = PassedVotes
    /\ now = 1
    /\ halt = "none"

InitiateExit(key, pair) ==
    /\ SignedByOwner(key)
    /\ ~is_paused
    /\ ~IsOpen(pair)                              \* `init` of the exit PDA
    /\ exits' = [exits EXCEPT ![pair] = NewExit(0)]
    /\ UNCHANGED <<admin, unspent_votes, now, halt>>

\* A fault: the pause flag is not read.
MayOpen_WhilePaused == TRUE

MayOpen == ~is_paused

GovernanceInitiateExit(key, pair, proposal_id) ==
    /\ SignedBy(key)
    /\ MayOpen
    /\ key = owner \/ (key = crank /\ AutoExecute)
    /\ proposal_id \in unspent_votes
    /\ ~IsOpen(pair)
    /\ exits' = [exits EXCEPT ![pair] = NewExit(proposal_id)]
    /\ unspent_votes' = unspent_votes \ {proposal_id}
    /\ UNCHANGED <<admin, now, halt>>

\* Replayed amounts are told by the last amount recorded, and by it alone.
RecordClaim(key, pair, amount) ==
    /\ SignedByOwnerOrCrank(key)
    /\ amount > 0
    /\ IsActive(pair)
    /\ \/ exits[pair].last_claimed_amount = 0
       \/ exits[pair].last_claimed_amount # amount
    /\ exits[pair].total_sol_claimed + amount <= MaxClaimed
    /\ exits' = [exits EXCEPT ![pair].total_sol_claimed = @ + amount,
                              ![pair].last_claimed_amount = amount]
    /\ UNCHANGED <<admin, unspent_votes, now, halt>>

\* An account leaving Active; faults forget the time or the status check.
Ended_Undated(exit, status) == [exit EXCEPT !.status = status]

Ended(exit, status) == [exit EXCEPT !.status = status, !.completed_at = now]

MayEnd_AnyStatus(pair) == IsOpen(pair)

MayEnd(pair) == IsActive(pair)

CompleteExit(key, pair) ==
    /\ SignedByOwnerOrCrank(key)
    /\ MayEnd(pair)
    /\ exits' = [exits EXCEPT ![pair] = Ended(@, Completed)]
    /\ UNCHANGED <<admin, unspent_votes, now, halt>>

\* A fault: the crank may terminate too.
TerminateExit_ByCrank(key, pair) ==
    /\ SignedByOwnerOrCrank(key)
    /\ MayEnd(pair)
    /\ exits' = [exits EXCEPT ![pair] = Ended(@, Terminated)]
    /\ UNCHANGED <<admin, unspent_votes, now, halt>>

TerminateExit(key, pair) ==
    /\ SignedByOwner(key)
    /\ MayEnd(pair)
    /\ exits' = [exits EXCEPT ![pair] = Ended(@, Terminated)]
    /\ UNCHANGED <<admin, unspent_votes, now, halt>>

\* The seeds are free again; the recipient's rent is left out.
CloseDlmmExit(key, pair) ==
    /\ SignedByOwner(key)
    /\ IsOpen(pair)
    /\ exits[pair].status # Active
    /\ exits' = [exits EXCEPT ![pair] = NoExit]
    /\ UNCHANGED <<admin, unspent_votes, now, halt>>

\* listed: the pairs whose accounts the caller passes, writable, among the
\* remaining accounts.  Whatever else it passes there is skipped.
EmergencyHalt(key, listed) ==
    /\ SignedByOwner(key)
    /\ is_paused' = TRUE
    /\ exits' = [pair \in Pairs |->
                    IF pair \in listed /\ IsActive(pair)
                    THEN Ended(exits[pair], Terminated) ELSE exits[pair]]
    /\ halt' = IF \A pair \in Pairs : IsActive(pair) => pair \in listed
                THEN "all" ELSE "some"
    /\ UNCHANGED <<owner, pending_owner, crank, treasury, unspent_votes, now>>

Administer(key) ==
    /\ \/ \E other \in Keys \cup {NoKey} :
             TransferOwnership(key, other) \/ UpdateCrank(key, other)
       \/ AcceptOwnership(key)
       \/ \E wallet \in Treasuries : UpdateTreasury(key, wallet)
       \/ AutoPause(key)
    /\ UNCHANGED exit_vars

ResumePool(key) ==
    /\ Resume(key)
    /\ halt' = "none"
    /\ UNCHANGED <<exits, unspent_votes, now>>

Tick ==
    /\ now < MaxTime
    /\ now' = now + 1
    /\ UNCHANGED <<admin, signer, exits, unspent_votes, halt>>

\* The instructions on exit accounts.
ExitStep(key) ==
    \/ \E listed \in SUBSET Pairs : EmergencyHalt(key, listed)
    \/ \E pair \in Pairs :
          \/ InitiateExit(key, pair)
          \/ \E p \in PassedVotes : GovernanceInitiateExit(key, pair, p)
          \/ \E amount \in ClaimAmounts : RecordClaim(key, pair, amount)
          \/ CompleteExit(key, pair)
          \/ TerminateExit(key, pair)
          \/ CloseDlmmExit(key, pair)

Next ==
    \/ \E key \in Keys : Administer(key) \/ ResumePool(key) \/ ExitStep(key)
    \/ Tick

Spec == Init /\ [][Next]_vars
----------------------------------------------------------------------------
(* Safety. *)

\* The accounts hold values of their types; the pool always has an owner.
TypeOK ==
    /\ owner \in Keys /\ crank \in Keys /\ pending_owner \in Keys \cup {NoKey}
    /\ treasury \in Treasuries /\ is_paused \in BOOLEAN /\ signer \in Keys
    /\ exits \in [Pairs -> DlmmExit \cup {NoExit}]
    /\ unspent_votes \subseteq PassedVotes
    /\ now \in Nat /\ halt \in {"none", "some", "all"}

\* completed_at dates the end of an exit, whichever of the three instructions
\* ended it, and an active exit has none.
EndsAreDated ==
    \A pair \in Pairs : IsOpen(pair) =>
        IF exits[pair].status = Active
        THEN exits[pair].completed_at = 0
        ELSE /\ exits[pair].completed_at >= exits[pair].created_at
             /\ exits[pair].completed_at \in 1..now

\* After a halt that named every active exit none is active again until the
\* owner resumes, whatever the crank, a passed vote or a payout does.
HaltHolds ==
    halt = "all" => \A pair \in Pairs : ~IsActive(pair)

\* An exit ends once: after that its account never changes, until it is
\* closed, and what was claimed is only added to while it is active.
EndedExitsAreFinal ==
    [][\A pair \in Pairs : IsOpen(pair) =>
          IF exits[pair].status = Active
          THEN /\ exits'[pair] # NoExit
               /\ exits'[pair].total_sol_claimed >= exits[pair].total_sol_claimed
               /\ exits'[pair].created_at = exits[pair].created_at
               /\ exits'[pair].proposal_id = exits[pair].proposal_id
          ELSE exits'[pair] \in {exits[pair], NoExit}]_vars

\* README.md, "Crank authority": a key that is not the owner has no power but
\* to record claims and complete exits while it is the crank, to open exits
\* that were voted for, and to accept an ownership offered to it.
CrankIsLimited ==
    [][signer' # owner =>
          /\ UNCHANGED <<crank, treasury>>
          /\ is_paused => is_paused'
          /\ <<owner', pending_owner'>> \in
                {<<owner, pending_owner>>, <<signer', NoKey>>}
          /\ owner' # owner => owner' = pending_owner
          /\ \A pair \in Pairs : exits'[pair] # exits[pair] =>
                /\ signer' = crank
                /\ IF IsOpen(pair)
                   THEN exits'[pair] # NoExit /\ exits'[pair].status # Terminated
                   ELSE exits'[pair].proposal_id \in unspent_votes \ unspent_votes']_vars
----------------------------------------------------------------------------
(* Refinement. *)

Lifecycle == INSTANCE ExitLifecycle WITH
    Accounts <- Pairs,
    account <- [pair \in Pairs |-> [status |-> exits[pair].status,
                                    claimed |-> exits[pair].total_sol_claimed]],
    opening <- ~is_paused

\* Whatever the keys, votes and halts do, the exit accounts keep what
\* ExitLifecycle promises: they open only in an unpaused pool, book only while
\* active, end once, and close only then.
ImplementsLifecycle == Lifecycle!Spec

\* An owner's exit names vote 0, like an exit that rests on the first vote.
Mandates == INSTANCE VoteMandates WITH
    Accounts <- Pairs,
    Votes <- Nat,
    NoVote <- -1,
    Unvoted <- 0,
    granted <- PassedVotes,
    spent <- PassedVotes \ unspent_votes,
    rests_on <- [pair \in Pairs |->
                    IF IsOpen(pair) THEN exits[pair].proposal_id ELSE -1]

\* The accounts use votes up as Governance hands them out: whatever ends,
\* halts, closes and reopens them, by whichever key, and however a vote's
\* execution and the owner's instructions interleave.
ImplementsMandates == Mandates!Spec
=============================================================================
