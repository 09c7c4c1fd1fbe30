----------------------------- MODULE Governance -----------------------------
(***************************************************************************)
(* Proposals, votes and their execution.  The pool and the token accounts  *)
(* are seen as governance reads them: each voter's free and staked BRAIN   *)
(* and recorded multiplier, and the pause flag; their own rules are those  *)
(* of StakingPool.  DlmmExits continues the life of an exit created here.  *)
(***************************************************************************)
EXTENDS Integers, FiniteSets, Functions, SequencesExt

CONSTANTS
    Voters, Pairs,               \* Pairs: the (asset_mint, dlmm_pool) seeds
    MIN_PROPOSAL_OPTIONS, MAX_PROPOSAL_OPTIONS,
    MIN_VOTING_PERIOD, MIN_EXECUTION_DELAY,
    BpsDenominator,
    Windows,                     \* bound: <<start, end>> of votes proposed
    OptionCounts,                \* bound: numbers of options proposed
    ProposalTypes,               \* bound: types proposed
    QuorumChoices,               \* bound: quorums the owner sets
    InitialBrain,                \* BRAIN each voter starts with
    MaxProposals, MaxMultiplier, MaxTime

SELL == 1                        \* PROPOSAL_TYPE_SELL

ASSUME GovernanceAssumption ==
    /\ MIN_PROPOSAL_OPTIONS \in Nat /\ MAX_PROPOSAL_OPTIONS \in Nat
    /\ 2 <= MIN_PROPOSAL_OPTIONS
    /\ MIN_VOTING_PERIOD \in Nat /\ MIN_EXECUTION_DELAY \in Nat
    /\ BpsDenominator \in Nat \ {0}
    /\ Windows \subseteq Nat \X Nat
    /\ OptionCounts \subseteq Nat /\ ProposalTypes \subseteq Nat
    /\ QuorumChoices \subseteq Nat
    /\ InitialBrain \in [Voters -> Nat]
    /\ MaxProposals \in Nat /\ MaxMultiplier \in 0..3 /\ MaxTime \in Nat

\* Finitely many accounts hold BRAIN, so that their stakes have a sum.
ASSUME VotersAssumption == IsFiniteSet(Voters)

VARIABLES
    config,          \* the GovernanceConfig account
    proposals,       \* proposal accounts by id, ids in order of creation
    vote_records,    \* open VoteRecord accounts
    exits,           \* open DlmmExit accounts by pair
    wallet, staked, multiplier,
    is_paused,
    now

vars == <<config, proposals, vote_records, exits, wallet, staked, multiplier,
          is_paused, now>>
pool_vars == <<wallet, staked, multiplier, is_paused>>

T == INSTANCE Tally

Active == 0
Passed == 1
Rejected == 2
Unresolved == 255

NoExit == [proposal_id |-> -1, created_at |-> -1]
Sum(f) == SumFunction(f)
total_staked == Sum(staked)
total_weighted_stake == Sum([v \in Voters |-> staked[v] * multiplier[v]])

\* Proposal ids start from 0; the account of id p is proposals[p + 1].
Ids == 0..(Len(proposals) - 1)
Prop(p) == proposals[p + 1]
----------------------------------------------------------------------------
(* Instructions. *)

\* The state initialize_governance leaves.
Init ==
    /\ config = [next_proposal_id |-> 0, auto_execute |-> FALSE,
                 min_quorum_bps |-> 0]
    /\ proposals = <<>>
    /\ vote_records = {}
    /\ exits = [pair \in Pairs |-> NoExit]
    /\ wallet = InitialBrain
    /\ staked = [v \in Voters |-> 0]
    /\ multiplier = [v \in Voters |-> 0]
    /\ is_paused = FALSE
    /\ now = 0

SetAutoExecute(enabled) ==
    /\ config' = [config EXCEPT !.auto_execute = enabled]
    /\ UNCHANGED <<proposals, vote_records, exits, pool_vars, now>>

SetQuorum(bps) ==
    /\ config' = [config EXCEPT !.min_quorum_bps = bps]
    /\ UNCHANGED <<proposals, vote_records, exits, pool_vars, now>>

\* The counter after a proposal is created; a fault leaves it.
NextConfig_Stuck == config

NextConfig == [config EXCEPT !.next_proposal_id = @ + 1]

CreateProposal(type, options, starts, ends) ==
    /\ ~is_paused
    /\ options \in MIN_PROPOSAL_OPTIONS..MAX_PROPOSAL_OPTIONS
    /\ ends > starts
    /\ ends - starts >= MIN_VOTING_PERIOD
    /\ starts >= now
    /\ Len(proposals) < MaxProposals
    /\ proposals' = Append(proposals,
          [proposal_type |-> type, vote_counts |-> [i \in 1..options |-> 0],
           voting_starts |-> starts, voting_ends |-> ends, status |-> Active,
           total_vote_weight |-> 0, winning_option_index |-> Unresolved,
           executed |-> FALSE, passed_at |-> 0,
           quorum_snapshot |-> total_weighted_stake])
    /\ config' = NextConfig
    /\ UNCHANGED <<vote_records, exits, pool_vars, now>>

\* BRAIN in the voter's own account counts once, staked BRAIN twice if the
\* voter passes its staker account.
VotingWeight(voter, with_staker) ==
    wallet[voter] + IF with_staker THEN 2 * staked[voter] ELSE 0

RecordOf(p, voter) ==
    {r \in vote_records : r.proposal_id = p /\ r.voter = voter}

\* A fault: the vote is counted and leaves no record.
NewRecord_Lost(p, voter, option, weight) == {}

NewRecord(p, voter, option, weight) ==
    {[proposal_id |-> p, voter |-> voter, option_index |-> option,
      weight |-> weight]}

CastVote(p, voter, option, with_staker) ==
    LET weight == VotingWeight(voter, with_staker)
    IN  /\ p \in Ids
        /\ ~is_paused
        /\ Prop(p).status = Active
        /\ now >= Prop(p).voting_starts
        /\ now < Prop(p).voting_ends
        /\ option \in DOMAIN Prop(p).vote_counts
        /\ with_staker => staked[voter] > 0
        /\ weight > 0
        /\ RecordOf(p, voter) = {}                \* `init` of the record PDA
        /\ vote_records' =
              vote_records \cup NewRecord(p, voter, option, weight)
        /\ proposals' = [proposals EXCEPT
              ![p + 1].vote_counts[option] = @ + weight,
              ![p + 1].total_vote_weight = @ + weight]
        /\ UNCHANGED <<config, exits, pool_vars, now>>

\* The proposal as close_proposal leaves it.
RejectUnresolved(proposal) ==
    [proposal EXCEPT !.status = Rejected, !.winning_option_index = Unresolved]

Resolved_IgnoringTies(proposal) ==
    LET winner == T!Scan(proposal.vote_counts).max_index - 1
    IN  [proposal EXCEPT !.winning_option_index = winner,
                         !.status = IF winner = 0 THEN Passed ELSE Rejected,
                         !.passed_at = IF winner = 0 THEN now ELSE 0]

Resolved(proposal) ==
    LET scan == T!Scan(proposal.vote_counts)
    IN  CASE \/ proposal.total_vote_weight = 0
             \/ T!MissesQuorum(proposal.total_vote_weight,
                               proposal.quorum_snapshot, config.min_quorum_bps)
             \/ scan.is_tie               -> RejectUnresolved(proposal)
          [] OTHER ->
               [proposal EXCEPT
                  !.winning_option_index = scan.max_index - 1,
                  !.status = IF scan.max_index = 1 THEN Passed ELSE Rejected,
                  !.passed_at = IF scan.max_index = 1 THEN now ELSE 0]

\* The window in which close_proposal runs; a fault lets it run too early.
VotingOver_TooEarly(p) == now >= Prop(p).voting_starts

VotingOver(p) == now >= Prop(p).voting_ends

CloseProposal(p) ==
    /\ p \in Ids
    /\ Prop(p).status = Active
    /\ VotingOver(p)
    /\ ~is_paused
    /\ proposals' = [proposals EXCEPT ![p + 1] = Resolved(@)]
    /\ UNCHANGED <<config, vote_records, exits, pool_vars, now>>

\* The voter takes its record's rent back once the proposal is closed.
RecordClosable_Anytime(p) == TRUE

RecordClosable(p) == Prop(p).status # Active

CloseVoteRecord(p, voter) ==
    /\ p \in Ids
    /\ RecordOf(p, voter) # {}
    /\ RecordClosable(p)
    /\ vote_records' = vote_records \ RecordOf(p, voter)
    /\ UNCHANGED <<config, proposals, exits, pool_vars, now>>

\* The timelock, as the code writes it.
TimelockOver_FromClose(p) == now >= Prop(p).passed_at

TimelockOver(p) ==
    Prop(p).passed_at > 0 => now - Prop(p).passed_at >= MIN_EXECUTION_DELAY

NotExecuted_Unchecked(p) == TRUE

NotExecuted(p) == ~Prop(p).executed

GovernanceInitiateExit(p, pair, by_owner) ==
    /\ p \in Ids
    /\ ~is_paused
    /\ by_owner \/ config.auto_execute
    /\ Prop(p).status = Passed
    /\ TimelockOver(p)
    /\ Prop(p).winning_option_index = 0
    /\ Prop(p).proposal_type = SELL
    /\ NotExecuted(p)
    /\ exits[pair] = NoExit                       \* `init` of the exit PDA
    /\ exits' = [exits EXCEPT ![pair] =
                    [proposal_id |-> p, created_at |-> now]]
    /\ proposals' = [proposals EXCEPT ![p + 1].executed = TRUE]
    /\ UNCHANGED <<config, vote_records, pool_vars, now>>

\* The end of an exit account, which frees its seeds (see DlmmExits).
CloseDlmmExit(pair) ==
    /\ exits[pair] # NoExit
    /\ exits' = [exits EXCEPT ![pair] = NoExit]
    /\ UNCHANGED <<config, proposals, vote_records, pool_vars, now>>
----------------------------------------------------------------------------
(* The environment: the pool and the token program. *)

MoveBrain(from, to) ==
    /\ from # to /\ wallet[from] > 0
    /\ wallet' = [wallet EXCEPT ![from] = 0, ![to] = @ + wallet[from]]
    /\ UNCHANGED <<config, proposals, vote_records, exits, staked, multiplier,
                   is_paused, now>>

StakeBrain(v) ==
    /\ ~is_paused /\ staked[v] = 0 /\ wallet[v] > 0
    /\ staked' = [staked EXCEPT ![v] = wallet[v]]
    /\ wallet' = [wallet EXCEPT ![v] = 0]
    /\ UNCHANGED <<config, proposals, vote_records, exits, multiplier,
                   is_paused, now>>

RaiseMultiplier(v) ==
    /\ ~is_paused /\ staked[v] > 0 /\ multiplier[v] < MaxMultiplier
    /\ multiplier' = [multiplier EXCEPT ![v] = @ + 1]
    /\ UNCHANGED <<config, proposals, vote_records, exits, wallet, staked,
                   is_paused, now>>

UnstakeBrain(v) ==
    /\ staked[v] > 0
    /\ wallet' = [wallet EXCEPT ![v] = @ + staked[v]]
    /\ staked' = [staked EXCEPT ![v] = 0]
    /\ multiplier' = [multiplier EXCEPT ![v] = 0]
    /\ UNCHANGED <<config, proposals, vote_records, exits, is_paused, now>>

PauseOrResume ==
    /\ is_paused' = ~is_paused
    /\ UNCHANGED <<config, proposals, vote_records, exits, wallet, staked,
                   multiplier, now>>

Tick ==
    /\ now < MaxTime
    /\ now' = now + 1
    /\ UNCHANGED <<config, proposals, vote_records, exits, pool_vars>>

Next ==
    \/ \E enabled \in BOOLEAN : SetAutoExecute(enabled)
    \/ \E bps \in QuorumChoices : SetQuorum(bps)
    \/ \E type \in ProposalTypes, options \in OptionCounts, window \in Windows :
          CreateProposal(type, options, window[1], window[2])
    \/ \E p \in 0..(MaxProposals - 1) :
          \/ \E voter \in Voters, option \in 1..MAX_PROPOSAL_OPTIONS,
                with_staker \in BOOLEAN : CastVote(p, voter, option, with_staker)
          \/ \E voter \in Voters : CloseVoteRecord(p, voter)
          \/ CloseProposal(p)
          \/ \E pair \in Pairs, by_owner \in BOOLEAN :
                GovernanceInitiateExit(p, pair, by_owner)
    \/ \E pair \in Pairs : CloseDlmmExit(pair)
    \/ \E v \in Voters :
          \/ \E to \in Voters : MoveBrain(v, to)
          \/ StakeBrain(v)
          \/ RaiseMultiplier(v)
          \/ UnstakeBrain(v)
    \/ PauseOrResume
    \/ Tick

Spec == Init /\ [][Next]_vars
----------------------------------------------------------------------------
(* Safety. *)

Proposal ==
    [proposal_type : Nat, vote_counts : Seq(Nat), voting_starts : Nat,
     voting_ends : Nat, status : {Active, Passed, Rejected},
     total_vote_weight : Nat, winning_option_index : Nat, executed : BOOLEAN,
     passed_at : Nat, quorum_snapshot : Nat]

VoteRecord ==
    [proposal_id : Nat, voter : Voters, option_index : Nat \ {0},
     weight : Nat \ {0}]

\* The accounts hold values of their types; ids are handed out in order.
TypeOK ==
    /\ config \in [next_proposal_id : Nat, auto_execute : BOOLEAN,
                   min_quorum_bps : Nat]
    /\ \A p \in Ids : Prop(p) \in Proposal
    /\ config.next_proposal_id = Len(proposals)
    /\ \A r \in vote_records : r \in VoteRecord
    /\ exits \in [Pairs -> [proposal_id : Int, created_at : Int]]
    /\ wallet \in [Voters -> Nat] /\ staked \in [Voters -> Nat]
    /\ multiplier \in [Voters -> 0..3] /\ is_paused \in BOOLEAN /\ now \in Nat

RecordsFor(p, option) ==
    {r \in vote_records : r.proposal_id = p /\ r.option_index = option}

Weights(records) == MapThenSumSet(LAMBDA r : r.weight, records)

\* While a proposal is open its tallies are the sum of the vote records, one
\* per voter; later, records may go but no weight is added for them.
TallyMatchesRecords ==
    \A p \in Ids :
        LET counts == Prop(p).vote_counts
        IN  /\ Prop(p).total_vote_weight = Sum(counts)
            /\ \A option \in DOMAIN counts :
                  IF Prop(p).status = Active
                  THEN counts[option] = Weights(RecordsFor(p, option))
                  ELSE counts[option] >= Weights(RecordsFor(p, option))
            /\ \A voter \in Voters : Cardinality(RecordOf(p, voter)) <= 1

\* A proposal passes only if votes were cast and its first option outweighs
\* every other one; a rejected one that names a winner names the only
\* heaviest option.
OutcomeIsStrictPlurality ==
    \A p \in Ids :
        LET winner == Prop(p).winning_option_index
            best   == T!Heaviest(Prop(p).vote_counts)
        IN  CASE Prop(p).status = Passed ->
                    winner = 0 /\ best = {1} /\ Prop(p).total_vote_weight > 0
              [] Prop(p).status = Rejected ->
                    winner = Unresolved \/ (winner > 0 /\ best = {winner + 1})
              [] OTHER -> winner = Unresolved /\ ~Prop(p).executed

\* An exit opened by governance was voted for: of its proposal's options the
\* first, to sell, outweighs every other.
ExitsFollowVotes ==
    \A pair \in Pairs : exits[pair] # NoExit =>
        LET p == exits[pair].proposal_id
        IN  /\ p \in Ids
            /\ Prop(p).proposal_type = SELL
            /\ T!Heaviest(Prop(p).vote_counts) = {1}

\* Stakers have the voting window, of at least the minimum length, and then
\* the execution delay before an exit opens, whenever the vote was closed; and
\* no second exit rests on the same proposal.
ExitsKeepTerms ==
    \A pair \in Pairs : exits[pair] # NoExit =>
        LET p == exits[pair].proposal_id
        IN  /\ p \in Ids
            /\ exits[pair].created_at >= Prop(p).voting_ends + MIN_EXECUTION_DELAY
            /\ exits[pair].created_at >=
                  Prop(p).voting_starts + MIN_VOTING_PERIOD + MIN_EXECUTION_DELAY
            /\ \A other \in Pairs \ {pair} : exits[other].proposal_id # p

\* A vote is spent by the exit it opens, also after that exit's account is
\* closed and its seeds are free again.
ExecutedOnce ==
    [][\A pair \in Pairs :
          /\ exits'[pair] # exits[pair]
          /\ exits'[pair] # NoExit
          => LET p == exits'[pair].proposal_id
             IN  ~proposals[p + 1].executed /\ proposals'[p + 1].executed]_vars

\* Closing is final: nothing but the execution of a passed proposal changes a
\* closed one, and a proposal under vote keeps its terms.
ClosedProposalsAreFinal ==
    [][\A i \in DOMAIN proposals :
          LET old == proposals[i]
              new == proposals'[i]
          IN  /\ old.status # Active =>
                    new \in {old, [old EXCEPT !.executed = (old.status = Passed)]}
              /\ new.vote_counts # old.vote_counts =>
                    /\ now >= old.voting_starts /\ now < old.voting_ends
                    /\ ~is_paused
              /\ new.status # old.status => now >= old.voting_ends]_vars

\* The tallies of two to MaxOptions options with weights up to MaxWeight.
Tallies(MaxOptions, MaxWeight) ==
    UNION {[1..n -> 0..MaxWeight] : n \in 2..MaxOptions}

\* close_proposal's loop finds the heaviest option, and tells a tie, on every
\* tally of up to five options with weights up to three.  The formula is about
\* data, so the states that precede every vote are enough to evaluate it in.
ScanIsCorrect ==
    proposals = <<>> /\ now = 0 =>
        \A counts \in Tallies(5, 3) : T!ScanFindsHeaviest(counts)
----------------------------------------------------------------------------
(* Refinement. *)

GrantedVotes == {p \in Ids : Prop(p).status = Passed /\ Prop(p).proposal_type = SELL}
SpentVotes == {p \in Ids : Prop(p).executed}

Mandates == INSTANCE VoteMandates WITH
    Accounts <- Pairs,
    Votes <- Nat,
    NoVote <- NoExit.proposal_id,
    Unvoted <- NoExit.proposal_id,
    granted <- GrantedVotes,
    spent <- SpentVotes,
    rests_on <- [pair \in Pairs |-> exits[pair].proposal_id]

\* A vote to sell, once passed, stays so whatever is voted, closed, returned or
\* reconfigured later, and opens one exit, ever: an exit account opens only on
\* a passed vote that opened none before, also after that one's account is
\* closed and its seeds are free again.
ImplementsMandates == Mandates!Spec
=============================================================================
