# Verification of the BRAIN staking program and its DLMM exit crank

TLA+ models of this repository, TLC runs on small instances of them, and TLAPS
proofs of the main properties of the staking pool and its distribution of
rewards, of governance, of the exit accounts, of the crank and of the halt
command. `PROJECT.json` maps every
definition to the lines of source it models, lists the runs, and lists the
hazards the properties were chosen for.

## The system

Holders of the BRAIN token stake it in a Solana program and earn SOL. The SOL
comes from exits: assets of the fund are placed as one-sided positions of a
Meteora DLMM pool, and a service, the crank, claims what the positions earn and
deposits it for the stakers. Holders vote on which assets to sell.

| Part | State it keeps | Operations | Hard about it |
|---|---|---|---|
| Staking pool (`programs/brain-staking`, `StakingPool`, `StakerAccount`) | totals, `reward_per_share`, fee, pause flag; a staker's amount, multiplier, debt; token vault, reward vault | stake, claim, unstake, deposit_rewards, update_pool_config, pause and resume | lazily raised multipliers, a hand-kept weight total, roundings, checked arithmetic that can lock a position, a vault that cannot pay |
| Governance (`Proposal`, `VoteRecord`, `GovernanceConfig`) | proposals with tallies, one record per vote, quorum and auto-execution settings | create, cast, close, close record, execute, set quorum, set auto-execute | votes interleaved with moving stakes, the tally loop, timelock, seeds used again |
| Exit accounts (`DlmmExit`) | status, claims recorded, dates, proposal id | initiate, governance-initiate, record_claim, complete, terminate, close, emergency_halt | halt against late records and executions, accounts reopened under the same address |
| Keys (`StakingPool.owner`, `pending_owner`, `crank`, `treasury`) | who may do what | two-step ownership transfer, rotation of crank and treasury | handover while both sides act |
| Crank (`crank/src`) | in memory only: the cycle, the exit under way, what was read of it, the shutdown flag | fetch, read fees, claim + deposit + record, dust check, close + complete, sleep, shutdown, restart | everything submitted lands later, out of order, in parts or never; any await may throw; values are read long before they are booked |
| Crank emergency commands (`emergency.ts`) | in memory: the exits fetched, the steps done, their results | terminate one exit, halt all | a list read once and used after many awaits, isolated failing steps, transactions that count as done when they are accepted |

The parts meet in shared accounts: every instruction reads the pool's pause
flag or keys; deposits change the pool that stakers read; governance opens the
exits the crank works on, and the owner ends them beside it. A Solana
transaction is atomic: a handler that returns an error leaves no trace. So the
program's models have one action per instruction whose guard is the conjunction
of the handler's checks, and concurrency is the order of transactions. The
crank is not atomic: its model has one action per stretch between two awaits
that matter.

What makes each part correct, in short: the pool pays each staker its share of
each deposit and returns its BRAIN; a proposal's outcome is the plurality of
its vote records, and an exit rests on one passed vote; an ended exit stays
ended and a halt holds; keys other than the owner's do what the documents allow
them; the crank books for an exit what it deposited, completes it with its last
position, starves none and stops when told to; the halt command tries every
step on every exit, and what it fetched does not outlive its halt.

## Modules

| Module | Models | Correspondence |
|---|---|---|
| `StakingPool` | the pool's instructions | `pool` and `staker` are the accounts, `token_vault`, `reward_vault`, `user_sol`, `authority_sol`, `treasury_sol` the balances; `Settled` is the settlement at the head of `claim` and `unstake`; the `Computes` operators are the checked arithmetic with limits `MaxU64`, `MaxU128` |
| `StakingLedger` | what the pool promises, without tiers or accumulator | an abstract specification |
| `StakingRefinement` | the mapping between the two | locked BRAIN is `staked_amount`, the ledger's vault is the reward vault |
| `RewardAccounting` | the distribution the accumulator stands for | `StakingPool` with history: each user's exact shares, the accumulator's truncation, the number of raises |
| `Tally` | the loop of `close_proposal` and the quorum test | three locals folded over the tallies; an instance in `Governance` |
| `Governance` | proposals, votes and execution, with as much of the pool as they read | one action per instruction; `MoveBrain`, `StakeBrain`, `RaiseMultiplier`, `UnstakeBrain`, `PauseOrResume` are the pool beside it |
| `PoolAdmin` | keys, with the signature every instruction asks for | `signer` is the key that signed the last transaction |
| `DlmmExits` | exit accounts, on `PoolAdmin` | accounts by (asset mint, DLMM pool), as their seeds are; a closed account's pair is free again |
| `ExitLifecycle` | what an exit account promises, without keys, dates and votes | an abstract specification, which both `DlmmExits` (`ImplementsLifecycle`) and `Crank` (`KeepsLifecycle`) are shown to keep |
| `VoteMandates` | what a passed vote to sell is worth, without ballots, dates and keys: granted for good, and good for one exit, ever | an abstract specification, which both `Governance`, which grants, and `DlmmExits`, which spends, are shown to keep (`ImplementsMandates` of each) |
| `Crank` | `startMonitor`, `processExit`, `submitWithJitoFallback`, and what the chain does with what is sent | `pc` is the place in the loop, `seen` the reading of `monitorPosition`, `in_flight` a bag of bundles and single transactions; `Land` executes one whole or not at all, `Drop` is expiry or refusal |
| `Emergency` | `emergencyHaltAll` and `terminateSingleExit`, on `DlmmExits` | `pc` is the place in the command, `fetched` the list with the amounts it read, `results` the steps done of each exit, `sent` the transactions accepted and not landed; `Beside` is everybody else acting on the exit accounts |
| `Arith`, `StakingPool_proofs`, `StakingRefinement_proofs`, `RewardAccounting_proofs`, `Governance_proofs`, `DlmmExits_proofs`, `Crank_proofs`, `Emergency_proofs` | proofs | see below |
| `MC...` | small instances | |

Operators named with an underscore (`Settled_Forgetful`, `AfterError_EndsCycle`
and so on) are faults: wrong variants of the definition that follows them,
which no specification uses. Each property was seen to fail when its variant
replaces the definition (`mutants` in `PROJECT.json`).

### Reading the source

At this commit the program does not compile (a semicolon is missing at
`constants.rs:38`, two governance handlers borrow an account twice, and
`emergency_rescue` takes `to_account_info` of a key). Handlers are read with the
least repair that lets them compile. Three consequences of the text as written
keep instructions out of the models, because they never change a state:
`renounce_ownership` parses a string that is not base58 and always fails;
`update_treasury_by_governance` and `update_pool_config_by_governance` change
accounts that are not declared `mut`, which Anchor does not write back;
`emergency_rescue` signs for an authority the vault does not have. The reward
vault is a system-owned account from which the handlers debit lamports
directly; the models take it that the runtime lets them.

The crank is modelled with the contracts of `MonitorDeps`, which its tests
inject. As wired in `index.ts` the service finds no exits: it filters accounts
by 202 bytes (`index.ts:28-30`), and they have 210 since `last_claimed_amount`
was added; its transaction builders return promises cast to transactions.
Closing is taken to be what the comment of `closePosition` says; the SDK is not
part of the repository.

## Runs

Passing runs:

| Run | Instance | Shows |
|---|---|---|
| `staking_pool` | two interchangeable wallets with two BRAIN, three tiers one tick apart, deposits below and at the minimum, fees 0, 5 and a refused 6, an empty and a funded vault, `MaxU64` = 200, `MaxU128` = 1000 | principal is conserved; debts stay covered; multipliers are earned; a user is paid exactly what it accrued, and only the vault can keep it in; a paused pool only releases; the pool implements the ledger |
| `reward_accounting` | deposits of 5, 20 and 21, so that divisions leave remainders, three BRAIN | totals are the sums of the accounts; payments equal the exact shares up to a named rounding, in both directions; the vault is solvent up to one lamport per raise |
| `governance` | one proposal, two interchangeable voters with one BRAIN each, two exit addresses, five ticks, quorums of nothing and of everything; and all tallies of two to five options with weights up to three | the tally loop is right, ties included; tallies match records; outcomes are strict pluralities; exits follow votes, window and timelock; closed proposals are final; a passed vote is a mandate for one exit (`VoteMandates`) |
| `dlmm_exits` | two exits, three keys, two treasuries | ends are final and dated; a full halt holds; the crank's key can do what the documents list; the accounts keep `ExitLifecycle` |
| `crank_loop` | two exits, one of which has no position, bundles of two operations, two units under way, one restart | no exit starves, whatever others throw; a signal begins nothing new and ends the loop; readings do not outlive their exit |
| `crank_delivery` | one exit, bundles of four, two lamports of fees, two units under way, one restart | while bundles travel whole, what is recorded is what was deposited, a late bundle books nothing on an ended exit, no exit stays active with its positions gone, and a completed one has none left but those whose close could not be built; whole or torn, the transactions keep `ExitLifecycle` |
| `emergency` | two interchangeable exits, the owner's key and the crank's, one proposal that passed, one run of the command, claims of one lamport | every exit fetched goes through all six steps; after the command's halt only exits opened since its fetch are active; its deposits repeat at most what the accounts record |

Why the bounds suffice: tiers, cliff and timelock are differences of
times, and the runs have one tick before, at and after each. Two users are the
fewest for a share, and a third would only divide deposits finer, which
`reward_accounting` bounds for any division; the proofs cover any number. The
integer limits of `staking_pool` are low enough for every checked operation to
overflow in some state. With one proposal and two exit addresses a proposal can
be executed, its exit closed, and another execution be tried at the same and
at the other address. Two units in flight are the fewest that can overtake each
other, and three operations of a claim do not fit a bundle of two.
In `emergency` one run of the command (`MaxRuns`) already leaves transactions
behind that land after its end, after a resume, and after its exits were closed
and opened again; `Emergency_proofs` covers any number of runs and exits. That
run identifies states by a VIEW without `signer` and `halt`, two histories of
`DlmmExits` that no guard and none of its properties reads. `MaxClaimed` bounds
what is recorded, `MaxTime` the clock.
In the runs of the crank the fees an exit ever earns (`MaxFees`), the lamports
deposited (`MaxBooked`), what is under way (`MaxInFlight`) and restarts
(`MaxCrashes`) are bounded by guards. Deadlock is not checked where clocks and
funds run out, or a stopped crank leaves nothing to do.

Fairness is used in the crank's runs only. The loop is one sequence of awaits,
each of which returns or throws, hence weak fairness of `LoopStep`; a fetch is
tried four times per cycle and cycles repeat, hence strong fairness of a
successful fetch. Nothing is assumed of deliveries, of which calls throw, or of
the market. `KindSpec`, for one counterexample, also lets every delivery and
every claim that is possible again and again succeed.

Runs that show a disagreement of code and documents:

| Run | The documents say | The code does |
|---|---|---|
| `claimed_within_deposits` | claims never exceed net deposits (`fuzz_tests.rs:148`) | each raise of a multiplier rounds the debt down and can credit one lamport twice |
| `exit_always_possible` | BRAIN is always returned (`README.md:42`) | `unstake` fails as a whole when the vault cannot pay the rewards and stay rent exempt |
| `fees_eventually_claimed` | fees above the threshold are claimed (`crank/README.md:11`) | the default threshold is a thousandth of `MIN_REWARD_DEPOSIT`, and the refused deposit undoes the claim's bundle; two equal claims in a row have the same end at `record_claim.rs:40` |
| `closes_only_dust` | an exit is completed when its remainder is below $1 (`crank/README.md:12`) | the remainder passed to the check is 0, so any known price closes it |
| `records_what_was_claimed` | the exit records the SOL claimed (`dlmm_exit.rs:16`) | it records what was read before, whichever claims landed |

Seen while modelling, and without a run: `deposit_rewards.rs:105` speaks of
deposits waiting in the vault while nobody is past the cliff, line 52 refuses
them; a staker past the cliff has weight 0 until its own next claim
(`claim.rs:49`), while `constants.rs:4` lets it begin to earn at seven days; the
weight of a vote is free BRAIN plus twice the staked (`cast_vote.rs:87`), not
the staked (`README.md:78`); the quorum is taken of weighted stake
(`create_proposal.rs:99`), not of total stake (`README.md:81`); `emergency_halt`
ends the exits it is passed, not all (`README.md:90`); the first proposal's id
is 0, which on an exit means "opened by the owner" (`dlmm_exit.rs:24`); the
forfeiture branch of `unstake` is dead code (`NothingPending`); a close that
cannot be built is left out of the exit that is completed all the same
(`dlmm-lifecycle.ts:194`): `CompletedExitsAreClosed` counts such positions
apart, and they are the only ones left in a completed exit. A completion that
is lost while its closes land would leave an exit active for ever
(`monitor.ts:97`); `NoExitLeftBehind` shows that bundles which travel whole
rule it out, and the fallback to single transactions does not.

Of the halt command (`crank/src/emergency.ts`): the transactions that close
positions and claim fees are built and never submitted (lines 84 and 103), and
the steps count as done, so the positions stay open, and the monitor no longer
looks at the exits once they have ended; the deposit pays `total_sol_claimed`
(line 136), which the monitor had deposited already, once more in every run
(`RepaysRecordedAtMost`); a step is done when the transaction was accepted, not
when it landed. A failing fetch (line 239) throws before the halt is sent, and
the pool is not paused. An exit opened between the fetch and the halt stays
active in the paused pool, where the comment at line 225 and
`docs/ops/EMERGENCY-HALT.md:23` speak of all exits; what holds is
`HaltReachesFetched`.

## Proofs

What is proved holds for every value of the constants that satisfies the
assumptions named; the runs show the same properties on their instances.

| Module | For any | Theorems, and what the runs call them |
|---|---|---|
| `StakingPool_proofs` | users, balances, tiers in order, positive precision, fee limit of at most the whole | `TypeCorrect`: no balance or counter falls below zero; `DebtsCovered`, `NothingLeftPending`, `MultipliersEarned`, `PrincipalSafe` (invariants); `RewardsPaidExactly`, `PauseHolds`, `VaultSafe` (action properties) |
| `StakingRefinement_proofs` | the same | `PoolImplementsLedger`: the refinement of `StakingLedger` |
| `RewardAccounting_proofs` | the same, and a finite set of users | `TotalsMatch`, `NobodyOverpaid`, `NobodyShortchanged`, `VaultCoversClaims` (the invariants of `reward_accounting`); `OnlyVaultBlocksExit` (the invariant `ExitBlockedOnlyByVault`); `NoLamportLost` (action property) |
| `Governance_proofs` | finite set of voters; proposals, options, exits | `LoopFindsHeaviest`: the tally loop, for a list of any length; `TypeCorrect`, `TalliesMatch`, `PluralityDecides`, `ExitsVotedFor`, `TermsHold`, `ScanCorrect` (invariants); `VotesSpentOnce`, `ClosedStayClosed` (action properties); `GovernanceGrantsMandates`: the refinement of `VoteMandates` |
| `DlmmExits_proofs` | pairs, keys, votes | `TypeCorrect`, `EndsDated`, `HaltsHold` (invariants); `EndsAreFinal`, `CrankLimited` (action properties); `ExitsImplementLifecycle`, `ExitsUseMandates`: the refinements of `ExitLifecycle` and `VoteMandates` |
| `Crank_proofs` | finite sets of exits and positions, bundle sizes, readings, bounds | `Types`, `RecordsMatch`, `NoneLeftBehind`, `CompletedAreClosed` (invariants); `LateBundlesRefused`, `ShutdownHolds`, `ShutdownComes`, `EveryCycleEnds`, `CyclesServe` (action properties); `CrankKeepsLifecycle`: the refinement of `ExitLifecycle` |
| `Emergency_proofs` | exits, keys, runs of the command, lost or late transactions | `CommandKeepsRules` (the command is a behaviour of `DlmmExits`, which carries the theorems above over, as `EndsAreFinalBesideCommand` does for one of them); `EmergencyTypes`, `FailuresIsolated`, `HaltReaches`, `RepaysAtMost` |

The assumptions are in the modules that declare the constants:
`TiersAssumption`, `AmountsAssumption`, `EnvironmentAssumption`,
`UsersAssumption` (sums are over finitely many accounts, as on a chain),
`GovernanceAssumption`, `VotersAssumption`, `CrankAssumption` (among others that
exits and positions are finitely many, that each position belongs to one exit
and that "no reading" is not a reading),
and those of `DlmmExits` and `Emergency`. All are about types, order and
finiteness, and none restricts a behaviour of the code; the bounds of the runs
(`MaxTime`, `MaxFees` and so on) are any natural numbers.

**The pool.** None of the invariants is inductive alone: that a subtraction
stays in the naturals needs the debt covered; that the debt stays covered needs
the multiplier to be at most the earned one, for a raise rewrites the debt and a
fall would not; that nothing is pending needs the debt of an unearning account
to be zero. So `IInv` is the conjunction of `TypeInv` (types and the fee limit),
`RewardInv` (each account is *sound*: debt covered, nothing pending, multiplier
earned) and `PrincipalConserved`. Soundness is a property of one account and two
numbers, `reward_per_share` and the time: lemmas show that a settlement makes a
sound account sound, that an account left alone stays sound when the two numbers
grow (`AccountKept`), and that no step lets them fall. The action properties
follow from `IInv` by cases on `Next`. The refinement uses `IInv` only where a
payment must be non-negative and a fee no larger than its deposit. Facts about
products and quotients that the SMT solver does not find are lemmas of `Arith`.

**The distribution.** `HInv` adds to `IInv` what relates the accounts to the
history. For one user, `Bounded` compares what it was paid and has accrued, in
units of 1/`PRECISION` lamport and before any division, with its exact shares:
the lower bound counts one raise less for an account that earns, because its
first raise, from weight zero, settles nothing; without that it is not
inductive. For all users together, `TotalsMatchAccounts` makes the sum of the
shares of a deposit the whole of it (`SharesWithinDeposits`), and `DepositsKept`
says that a deposit is in the vault or was paid. Solvency is the sum of the
upper bounds of `Bounded` over all users, against these two. The same totals and
the soundness of accounts prove `OnlyVaultBlocksExit`: of the checks of
`unstake` (`UnstakeChecks`, its whole guard), none fails but the vault's, asked
only if there are rewards to pay, and the limits of the integers for this
account's settlement, which are its hypotheses. The pool's totals need none: an
account's stake and weight are parts of them (`PartWithinTotals`), and the
accumulator is within `MaxU128` (`SharesFit`). `NoLamportLost` adds the balances
up: what a deposit does not pay as a fee enters the vault
(`DepositKeepsLamports`), and a payout leaves it for one user
(`NothingDeposited`), however the divisions round.

**Sums and loops.** The library's induction theorems cannot be instantiated
here, nor do its folds come with facts. `Arith` states induction without
operators as parameters: `NumberInduction` and `SetInduction` are about a set
instead of a predicate, from the well-foundedness of the naturals. From them it
proves that a fold over a finite set exists, and that it is a sum: additive,
monotone, and changed by the difference when one summand changes
(`SumUpdate`). These lemmas carry `TotalsMatchAccounts`, solvency and the
tallies. `LoopFindsHeaviest` is an induction over the prefixes of the tally
list: `Known` says what the three locals of the loop hold after the first n
options.

**The exit accounts.** `AccountSteps` says once, for one account, which five fates
a step has for it: left alone, opened, booked, ended, closed. The invariants
and both action properties are read off it. `DateInv` adds to `EndsAreDated`
that no account was created after the clock, without which an end could be
dated before its begin; `HaltInv` adds to `HaltHolds` that a halt lasts only
while the pool is paused, which is what refuses new exits.

**Governance.** `PropInv` is about one proposal at a time (`Sound`: a passed
proposal passed after its window, which had the minimum length, and its first
option outweighs the others; only a passed one is executed), `ExitInv` about
exits (`Backed`: an open exit rests on an executed proposal past its timelock;
`OneEach`: on a proposal of its own). `OneEach` is kept because execution asks
that the proposal is not executed, and `Backed` says that those of the open
exits are. `RecordInv` (records are of proposals that exist, one for each voter)
and `TallyInv` (a tally is the sum of its records, and no less once the proposal
is closed and records may be) hold together: a vote adds one record and one
summand. Nothing is needed of the pool beside it but types (`PoolInv`): the
weight of a vote is recorded, and stakes that move later do not change it.

**Mandates.** `VoteMandates` is the seam between governance and the exit accounts,
as `ExitLifecycle` is the one between the accounts and the crank. In
`Governance` the granted votes are the passed proposals to sell and the spent
ones those executed; `MandateOfChange` says of each kind of change of one
proposal (voted, closed, executed, as in `PropInv`'s proof) what it does to the
two sets: only a passed proposal is executed, so that closing never spends and
execution never grants. In `DlmmExits` all votes are granted from the start and
`unspent_votes` is what is left; `VotesStay` reads off `AccountSteps` that
claims, ends and halts leave an account on its vote. Together: from the first
ballot to an exit account that was closed and opened again under the same
seeds, no vote opens two.

**The crank.** `UnitOf` says what may be under way for an exit: a claim with its
deposit and its record, closes with their completion, in bundles in which
nothing follows the transaction that changes the account, or, once its bundles
were torn apart, any of these transactions. `SeenInv` says that a reading has
all positions still open, which is what a completion is built from. Landing a
unit executes it transaction by transaction; `Trace` is the list of states it
goes through, and `Landed` what its last state has changed, by induction over
the unit: only the last transaction moves the exit account, and the ones before
it moved the deposits and positions that go with it. With `UnitsInv` the three
invariants about records, positions and completion follow. They claim nothing of
exits whose bundles were torn; types, refused late bundles and the refinement
hold for these too.

**The crank's progress.** Liveness is out of the prover's reach; its safety half is
not. `LoopAdvances` says once what a step does to the loop: it advances in
one of nine ways, starts anew after a crash, or stays. `ShutdownComes` and
`EveryCycleEnds` are variants: after a signal the distance to the end
(`StepsToEnd`, six at most) falls with every step of the loop; inside a cycle
`CycleLeft`, five steps for each exit of the list and what is left of this one,
falls, whichever calls throw and whatever the chain does meanwhile.
`CyclesServe` says that an exit leaves the list only by its turn, and that the
list is empty before the loop sleeps. What is left to fairness, and to TLC, is
that the loop takes steps at all, and that a fetch succeeds again and again.

**The halt command.** Every step of the command is a step of `DlmmExits` or leaves
its accounts alone, so the invariants of the accounts hold beside it.
`StepInv` relates the place in the command, the exits still to do and the
results: an exit fetched is still to do, under way, or has six results. For
`HaltReaches`, `ReachInv` follows the halt transaction from the fetch until it
lands: an active exit was fetched or was opened late (`Reaches`), while it is
not sent and while it is under way. For `RepaysAtMost`, `RepayInv` gives every
deposit the run that sent it: those under way or still to come are of different
runs (`OneDeposit`) and none of the runs whose deposit has landed (`Repaid`), so
that the runs bound the deposits; and each is within what the account records
now (`Recorded`), since an account open since the fetch only grows.

Only model-checked: the two liveness properties, `EveryExitServed` and
`ShutdownStops`, of which the safety half is proved. Every other property of a
passing run is stated by a theorem. The other way round, `NothingPending`,
`LamportsConserved`, `LoopFindsHeaviest` (`ScanIsCorrect` is its bounded
instance), `ExecutedOnce` (which `ImplementsMandates` contains),
`ImplementsMandates` of `DlmmExits`, `CommandKeepsRules`, `ShutdownIsNear`,
`CyclesAreFinite` and `CyclesServeAll` are proved and in no run. The three about
the loop, `LamportsConserved` and the mandates of `DlmmExits` hold on the
instances of `crank_loop`, `reward_accounting` (with half its funds) and
`dlmm_exits` as well, where they were tried before they were proved.

## Not modelled

The instructions named above that change nothing (written to take effect,
`update_treasury_by_governance`, which its comment `H-07` says a treasury
update needs, would let the owner do after a vote what `update_treasury` lets
it do without); the `realloc_*` migrations: they take the accounts they are to
grow as typed accounts, and these refuse an account of the old length, so the
migration that the repository's `README.md` lists does not take place; what the
halt command's `unwrapWsol` and `transferAssetToTreasury` move: they are steps
that succeed or fail; `last_claim_timestamp`, written and never read; texts of
proposals; Jito tips; the crank wallet's own balance and the unwrapping of
WSOL; decoding, metrics and logs; scripts. `checkBundleStatus` and
`createOneSidedPosition` have no caller.

## Plan

Done, in this order: pool and its proofs, ledger and refinement, reward
accounting, tally, governance, keys and exits, crank; the exit accounts'
lifecycle and its two refinements, completion against positions left open, the
halt command beside the exit accounts, the proofs of exit accounts, halt
command and governance; sums and induction in `Arith`, and with them the proofs
of the distribution, of the tallies, of the crank and of what the halt command
repays; that only the vault keeps a staker in, that no lamport is lost, the
crank's progress, and the mandates of votes through both modules they cross.

Next: the crank's wallet with WSOL, in which deposits are paid before the claims
that fill it have landed (`monitor.ts:125`), and what the theorems above then
say of it.
