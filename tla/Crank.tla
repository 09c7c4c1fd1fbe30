-------------------------------- MODULE Crank --------------------------------
(***************************************************************************)
(* The crank's monitoring loop: it fetches the active exits, reads the     *)
(* fees of each one's positions, submits claims with a deposit and a       *)
(* record, and closes the positions and completes the exit once their      *)
(* remainder counts as dust.  What it submits travels apart from it: a     *)
(* bundle lands whole or not at all, transactions sent one by one land     *)
(* each for itself, in any order, also after a crash or a later cycle.     *)
(***************************************************************************)
EXTENDS Integers, FiniteSets, Sequences, SequencesExt, Bags

CONSTANTS
    Exits,                   \* exit accounts
    Positions,               \* DLMM positions of the crank's wallet
    ExitOf,                  \* the exit in whose DLMM pool a position is
    claimThreshold,          \* config.claimThresholdLamports
    MIN_REWARD_DEPOSIT,      \* what deposit_rewards takes at least
    MAX_OPS_PER_BUNDLE,
    Sellable,                \* positions whose bins the price may pass
    Prices, NoPrice,         \* what the price sources say; NoPrice: unknown
    NoExit, NoReading,
    MaxFees,                 \* bound: fees an exit's positions ever earn
    MaxBooked,               \* bound: lamports deposited for an exit
    MaxInFlight,             \* bound: bundles and transactions under way
    MaxCrashes               \* bound: restarts of the service

ASSUME CrankAssumption ==
    /\ IsFiniteSet(Exits) /\ IsFiniteSet(Positions)
    /\ ExitOf \in [Positions -> Exits]
    /\ claimThreshold \in Nat /\ MIN_REWARD_DEPOSIT \in Nat \ {0}
    /\ MAX_OPS_PER_BUNDLE \in Nat \ {0}
    /\ Prices \subseteq Nat /\ NoPrice \notin Prices
    /\ Sellable \subseteq Positions /\ NoExit \notin Exits
    /\ NoReading \notin [positions : SUBSET Positions, totalFeeY : Nat]
    /\ {MaxFees, MaxBooked, MaxInFlight, MaxCrashes} \subseteq Nat

VARIABLES
    exits,        \* DlmmExit accounts
    fees,         \* fees waiting in a position
    open,         \* positions not closed
    sold,         \* positions whose asset is sold but for dust
    pool_open,    \* deposit_rewards finds the pool unpaused, with stakers
    books,        \* history: lamports claimed and deposited for an exit
    in_flight,    \* bag of what was submitted, a sequence of transactions each
    pc,           \* where the loop is
    todo,         \* exits of this cycle still to be processed
    current,      \* the exit being processed
    seen,         \* positions and fee sum that monitorPosition returned
    shutdown,     \* shutdownRequested
    crashes,
    torn,         \* history: exits with a set of transactions sent in parts
    skipped       \* history: other exits completed with a position left out

account_vars == <<exits, fees, open, books>>
market_vars == <<sold, pool_open>>
chain_vars == <<account_vars, market_vars>>
loop_vars == <<pc, todo, current, seen>>
history_vars == <<torn, skipped>>
vars == <<chain_vars, in_flight, loop_vars, shutdown, crashes, history_vars>>

Active == 0
Completed == 1
Terminated == 2

PositionsOf(exit) == {p \in Positions : ExitOf[p] = exit}
OpenOf(exit) == PositionsOf(exit) \cap open
SumOver(f, S) == SumFunctionOnSet(f, S)
----------------------------------------------------------------------------
(* Transactions, and what the programs do with them.                       *)

ClaimTx(position) == [op |-> "claim", on |-> position, amount |-> 0]
CloseTx(position) == [op |-> "close", on |-> position, amount |-> 0]
DepositTx(exit, amount) == [op |-> "deposit", on |-> exit, amount |-> amount]
RecordTx(exit, amount) == [op |-> "record", on |-> exit, amount |-> amount]
CompleteTx(exit) == [op |-> "complete", on |-> exit, amount |-> 0]

Chain == [exits |-> exits, fees |-> fees, open |-> open, books |-> books]

\* A fault: record_claim does not ask whether the exit is active.
Accepts_RecordsOfEndedExits(chain, tx) ==
    \/ tx.op \in {"claim", "close"} /\ tx.on \in chain.open
    \/ tx.op = "deposit" /\ pool_open /\ tx.amount >= MIN_REWARD_DEPOSIT
    \/ /\ tx.op = "record" /\ tx.amount > 0
       /\ chain.exits[tx.on].last_claimed_amount # tx.amount
    \/ tx.op = "complete" /\ chain.exits[tx.on].status = Active

Accepts(chain, tx) ==
    \/ tx.op \in {"claim", "close"} /\ tx.on \in chain.open
    \/ tx.op = "deposit" /\ pool_open /\ tx.amount >= MIN_REWARD_DEPOSIT
    \/ /\ tx.op = "record" /\ tx.amount > 0
       /\ chain.exits[tx.on].status = Active
       /\ chain.exits[tx.on].last_claimed_amount # tx.amount
    \/ tx.op = "complete" /\ chain.exits[tx.on].status = Active

Applied(chain, tx) ==
    CASE tx.op = "claim" ->
            [chain EXCEPT !.fees[tx.on] = 0,
                          !.books[ExitOf[tx.on]].claimed = @ + chain.fees[tx.on]]
      [] tx.op = "close" -> [chain EXCEPT !.open = @ \ {tx.on}]
      [] tx.op = "deposit" -> [chain EXCEPT !.books[tx.on].deposited = @ + tx.amount]
      [] tx.op = "record" ->
            [chain EXCEPT !.exits[tx.on].total_sol_claimed = @ + tx.amount,
                          !.exits[tx.on].last_claimed_amount = tx.amount]
      [] tx.op = "complete" -> [chain EXCEPT !.exits[tx.on].status = Completed]

Executed(unit) ==
    FoldLeft(LAMBDA run, tx :
                IF run.ok /\ Accepts(run.chain, tx)
                THEN [run EXCEPT !.chain = Applied(run.chain, tx)]
                ELSE [run EXCEPT !.ok = FALSE],
             [ok |-> TRUE, chain |-> Chain], unit)

\* A unit lands if every transaction in it runs.
Land(unit) ==
    LET result == Executed(unit)
    IN  /\ BagIn(unit, in_flight)
        /\ result.ok
        /\ \A exit \in Exits : result.chain.books[exit].deposited <= MaxBooked
        /\ exits' = result.chain.exits
        /\ fees' = result.chain.fees
        /\ open' = result.chain.open
        /\ books' = result.chain.books
        /\ in_flight' = in_flight (-) SetToBag({unit})
        /\ UNCHANGED <<market_vars, loop_vars, shutdown, crashes, history_vars>>

\* Refused, not picked up by a leader, or its blockhash too old.
Drop(unit) ==
    /\ BagIn(unit, in_flight)
    /\ in_flight' = in_flight (-) SetToBag({unit})
    /\ UNCHANGED <<chain_vars, loop_vars, shutdown, crashes, history_vars>>

Deliver == \E unit \in BagToSet(in_flight) : Land(unit) \/ Drop(unit)
----------------------------------------------------------------------------
(* What else moves the accounts. *)

Accrue(position) ==
    LET exit == ExitOf[position]
    IN  /\ position \in open
        /\ books[exit].claimed + SumOver(fees, PositionsOf(exit)) < MaxFees
        /\ fees' = [fees EXCEPT ![position] = @ + 1]
        /\ UNCHANGED <<exits, open, books, market_vars, in_flight, loop_vars,
                       shutdown, crashes, history_vars>>

Fill(position) ==
    /\ position \in (open \cap Sellable) \ sold
    /\ sold' = sold \cup {position}
    /\ UNCHANGED <<account_vars, pool_open, in_flight, loop_vars, shutdown,
                   crashes, history_vars>>

OwnerTerminates(exit) ==
    /\ exits[exit].status = Active
    /\ exits' = [exits EXCEPT ![exit].status = Terminated]
    /\ UNCHANGED <<fees, open, books, market_vars, in_flight, loop_vars,
                   shutdown, crashes, history_vars>>

PoolChanges ==
    /\ pool_open' = ~pool_open
    /\ UNCHANGED <<account_vars, sold, in_flight, loop_vars, shutdown,
                   crashes, history_vars>>
----------------------------------------------------------------------------
(* Submission. *)

Chunks(txs) ==
    {SubSeq(txs, i, Min({i + MAX_OPS_PER_BUNDLE - 1, Len(txs)})) :
        i \in {j \in DOMAIN txs : (j - 1) % MAX_OPS_PER_BUNDLE = 0}}

\* Jito takes a chunk as one bundle, or each of its transactions is sent
\* alone, of which some are refused at once.  A bundle that Jito took although
\* its answer timed out lands as its transactions would one after the other.
submitWithJitoFallback(exit, txs) ==
    \E bundles \in SUBSET Chunks(txs) :
        LET singles == {<<tx>> : tx \in UNION {Range(chunk) :
                                    chunk \in Chunks(txs) \ bundles}}
        IN  \E taken \in SUBSET singles :
                /\ in_flight' = in_flight (+) SetToBag(bundles \cup taken)
                /\ BagCardinality(in_flight') <= MaxInFlight
                /\ torn' = IF bundles = {txs} THEN torn ELSE torn \cup {exit}
----------------------------------------------------------------------------
(* The loop. *)

Init ==
    /\ exits = [e \in Exits |-> [status |-> Active, total_sol_claimed |-> 0,
                                 last_claimed_amount |-> 0]]
    /\ fees = [p \in Positions |-> 0]
    /\ open = Positions
    /\ books = [e \in Exits |-> [claimed |-> 0, deposited |-> 0]]
    /\ sold = {}
    /\ pool_open = TRUE
    /\ in_flight = EmptyBag
    /\ pc = "fetch"
    /\ todo = {}
    /\ current = NoExit
    /\ seen = NoReading
    /\ shutdown = FALSE
    /\ crashes = 0
    /\ torn = {}
    /\ skipped = {}

\* A fault: the flag is only read before a cycle.
MayStart_Unasked == TRUE

MayStart == ~shutdown

\* A fault: the flag is read before the sleep only.
AfterSleep_Unasked == "fetch"

AfterSleep == IF shutdown THEN "done" ELSE "fetch"

\* A fault: one try around the whole cycle.
AfterError_EndsCycle == "sleep"

AfterError == "next"

\* A fault: what was read of an exit is still there for the next.
Released_KeepsReading == seen

Released == NoReading

FetchActiveExits ==
    /\ pc = "fetch"
    /\ todo' = {e \in Exits : exits[e].status = Active}
    /\ pc' = "next"
    /\ UNCHANGED <<chain_vars, in_flight, current, seen, shutdown, crashes, history_vars>>

\* All retries of withRetry failed.
FetchFails ==
    /\ pc = "fetch"
    /\ pc' = "sleep"
    /\ UNCHANGED <<chain_vars, in_flight, todo, current, seen, shutdown,
                   crashes, history_vars>>

NextExit(exit) ==
    /\ pc = "next"
    /\ MayStart
    /\ exit \in todo
    /\ todo' = todo \ {exit}
    /\ current' = exit
    /\ pc' = "monitor"
    /\ UNCHANGED <<chain_vars, in_flight, seen, shutdown, crashes, history_vars>>

EndCycle ==
    /\ pc = "next"
    /\ todo = {} \/ ~MayStart
    /\ todo' = {}
    /\ pc' = "sleep"
    /\ UNCHANGED <<chain_vars, in_flight, current, seen, shutdown, crashes, history_vars>>

\* processExit returns, normally or by an error.
Leave(next) ==
    /\ pc' = next
    /\ current' = NoExit
    /\ seen' = Released

monitorPosition ==
    /\ pc = "monitor"
    /\ OpenOf(current) # {}
    /\ LET total == SumOver(fees, OpenOf(current))
       IN  /\ seen' = [positions |-> OpenOf(current), totalFeeY |-> total]
           /\ pc' = IF total >= claimThreshold THEN "claim" ELSE "dust"
    /\ UNCHANGED <<chain_vars, in_flight, todo, current, shutdown, crashes, history_vars>>

NoPositions ==
    /\ pc = "monitor"
    /\ OpenOf(current) = {}
    /\ Leave("next")
    /\ UNCHANGED <<chain_vars, in_flight, todo, shutdown, crashes, history_vars>>

\* A fault: the deposit is left to another bundle.
Bookings_RecordOnly(exit, amount) == <<RecordTx(exit, amount)>>

Bookings(exit, amount) == <<DepositTx(exit, amount), RecordTx(exit, amount)>>

\* claimFees leaves out the positions whose transaction could not be built;
\* the amount is in any case the sum that was read.
SubmitClaim(built) ==
    /\ pc = "claim"
    /\ submitWithJitoFallback(current,
           SetToSeq({ClaimTx(p) : p \in built})
               \o Bookings(current, seen.totalFeeY))
    /\ pc' = "dust"
    /\ skipped' = skipped \ torn'
    /\ UNCHANGED <<chain_vars, todo, current, seen, shutdown, crashes>>

\* checkDust, of the remainder passed to it, at the price known.
IsDust(price, remaining) == price # NoPrice /\ price * remaining < 1

\* The monitor passes 0 for what remains.
CheckDust(price) ==
    /\ pc = "dust"
    /\ IF IsDust(price, 0)
       THEN pc' = "close" /\ UNCHANGED <<current, seen>>
       ELSE Leave("next")
    /\ UNCHANGED <<chain_vars, in_flight, todo, shutdown, crashes, history_vars>>

\* Faults: the completion is forgotten, or sent without the closes.
Closings_Alone(exit, built) == SetToSeq({CloseTx(p) : p \in built})

Closings_Forgotten(exit, built) == <<CompleteTx(exit)>>

Closings(exit, built) ==
    Append(SetToSeq({CloseTx(p) : p \in built}), CompleteTx(exit))

\* closePosition leaves out the positions whose transaction could not be
\* built; the completion is sent in any case.
CloseAndComplete(built) ==
    /\ pc = "close"
    /\ submitWithJitoFallback(current, Closings(current, built))
    /\ skipped' =
          (IF built = seen.positions THEN skipped ELSE skipped \cup {current}) \ torn'
    /\ Leave("next")
    /\ UNCHANGED <<chain_vars, todo, shutdown, crashes>>

\* Any call of processExit may throw; what was submitted before stays so.
Throw ==
    /\ pc \in {"monitor", "claim", "dust", "close"}
    /\ Leave(AfterError)
    /\ UNCHANGED <<chain_vars, in_flight, todo, shutdown, crashes, history_vars>>

Sleep ==
    /\ pc = "sleep"
    /\ pc' = AfterSleep
    /\ UNCHANGED <<chain_vars, in_flight, todo, current, seen, shutdown,
                   crashes, history_vars>>

RequestShutdown ==
    /\ pc # "done"
    /\ ~shutdown
    /\ shutdown' = TRUE
    /\ UNCHANGED <<chain_vars, in_flight, loop_vars, crashes, history_vars>>

\* The process dies and is started again; nothing of it was saved.
Crash ==
    /\ crashes < MaxCrashes
    /\ pc # "done"
    /\ crashes' = crashes + 1
    /\ pc' = "fetch"
    /\ todo' = {}
    /\ current' = NoExit
    /\ seen' = NoReading
    /\ shutdown' = FALSE
    /\ UNCHANGED <<chain_vars, in_flight, history_vars>>

LoopStep ==
    \/ FetchActiveExits \/ FetchFails \/ EndCycle \/ Sleep
    \/ \E exit \in Exits : NextExit(exit)
    \/ monitorPosition \/ NoPositions \/ Throw
    \/ pc = "claim" /\ \E built \in SUBSET seen.positions : SubmitClaim(built)
    \/ \E price \in Prices \cup {NoPrice} : CheckDust(price)
    \/ pc = "close" /\ \E built \in SUBSET seen.positions : CloseAndComplete(built)

Environment ==
    \/ \E position \in Positions : Accrue(position) \/ Fill(position)
    \/ \E exit \in Exits : OwnerTerminates(exit)
    \/ PoolChanges

Next == LoopStep \/ Deliver \/ Environment \/ RequestShutdown \/ Crash

Spec == Init /\ [][Next]_vars
----------------------------------------------------------------------------
(* Fairness. *)

\* The loop awaits its calls in turn, and each returns or throws; of endlessly
\* many fetches, four tries each, one succeeds.
LoopFairness == WF_vars(LoopStep) /\ SF_vars(FetchActiveExits)

FairSpec == Spec /\ LoopFairness

\* All one can hope for from the network: no call fails for ever, and what
\* could land again and again does.
KindNetwork ==
    /\ \A e \in Exits : /\ SF_vars(current = e /\ monitorPosition)
                        /\ SF_vars(current = e /\ pc = "claim"
                                      /\ SubmitClaim(seen.positions))
    /\ SF_vars(\E unit \in BagToSet(in_flight) : Land(unit))
    /\ WF_vars(Deliver)

KindSpec == FairSpec /\ KindNetwork
----------------------------------------------------------------------------
(* Properties. *)

Transactions ==
    [op : {"claim", "close"}, on : Positions, amount : {0}]
        \cup [op : {"deposit", "record", "complete"}, on : Exits, amount : Nat]

\* Types; an exit is under way exactly inside processExit, and a reading of
\* its positions is held exactly after monitorPosition.
TypeOK ==
    /\ exits \in [Exits -> [status : {Active, Completed, Terminated},
                            total_sol_claimed : Nat, last_claimed_amount : Nat]]
    /\ fees \in [Positions -> Nat]
    /\ open \subseteq Positions /\ sold \subseteq Positions
    /\ books \in [Exits -> [claimed : Nat, deposited : Nat]]
    /\ \A unit \in BagToSet(in_flight) : Range(unit) \subseteq Transactions
    /\ pc \in {"fetch", "next", "monitor", "claim", "dust", "close", "sleep", "done"}
    /\ todo \subseteq Exits /\ torn \subseteq Exits /\ skipped \subseteq Exits
    /\ pc \in {"monitor", "claim", "dust", "close"} <=> current \in Exits
    /\ current \in Exits \cup {NoExit}
    /\ pc \in {"claim", "dust", "close"} <=> seen # NoReading
    /\ seen # NoReading => seen.positions # {} /\ seen.totalFeeY \in Nat
    /\ shutdown \in BOOLEAN /\ pool_open \in BOOLEAN /\ crashes \in 0 .. MaxCrashes

\* As long as the bundles of an exit travel whole, its account records what
\* was deposited for it, to the lamport: whatever is lost, delayed past a
\* later cycle, submitted twice or left behind by a crash.
RecordsMatchDeposits ==
    \A e \in Exits \ torn : exits[e].total_sol_claimed = books[e].deposited

\* A bundle that arrives after the exit was completed or terminated is undone
\* by its refused record: it deposits nothing any more.
LateBundlesBookNothing ==
    [][\A e \in Exits \ torn :
          exits[e].status # Active => books'[e].deposited = books[e].deposited]_vars

\* No exit is left active with its positions gone, which no cycle would look
\* at again: where bundles travel whole, the completion is in the bundle that
\* closes the last position, and nobody else closes any.
NoExitLeftBehind ==
    \A e \in Exits \ torn : exits[e].status = Active /\ PositionsOf(e) # {} =>
                             OpenOf(e) # {}

\* No liquidity is left in an exit that the crank completed, unless a close
\* could not be built or the transactions travelled apart.
CompletedExitsAreClosed ==
    \A e \in Exits \ (torn \cup skipped) : exits[e].status = Completed =>
                                               OpenOf(e) = {}

\* After a signal the exit under way is finished, and no other is begun.
ShutdownStartsNothing ==
    [][shutdown /\ shutdown' => current' \in {current, NoExit}]_vars

\* Every active exit is processed again and again, whatever errors the others
\* meet, with failed fetches and restarts between.
EveryExitServed ==
    \A e \in Exits : []<>(current = e \/ exits[e].status # Active \/ shutdown)

\* A signal ends the loop, unless a restart forgets it.
ShutdownStops == shutdown ~> (pc = "done" \/ ~shutdown)

\* What the loop has at most before it, in steps of its own, until the
\* cycle has ended and it is done, if it takes up no further exit.
StepsToEnd(at) ==
    CASE at = "done" -> 0
      [] at = "sleep" -> 1
      [] at = "next" -> 2
      [] at = "close" -> 3
      [] at = "dust" -> 4
      [] at = "claim" -> 5
      [] at = "monitor" -> 6
      [] at = "fetch" -> 3

\* What a signal has at most to wait for: whatever fails, is fetched or is read
\* meanwhile, the loop comes closer to its end with every step it takes.
ShutdownIsNear ==
    [][shutdown /\ shutdown' /\ loop_vars' # loop_vars
          => StepsToEnd(pc') < StepsToEnd(pc)]_vars

\* What a cycle that was fetched has at most before it.
CycleLeft == StepsToEnd(pc) + 5 * Cardinality(todo)

\* No cycle goes on for ever: one exit after the other leaves the list and is
\* gone through once, in five steps at most.
CyclesAreFinite ==
    [][pc # "fetch" /\ pc' # "fetch" /\ loop_vars' # loop_vars
          => CycleLeft' < CycleLeft]_vars

\* No cycle leaves out an exit that it fetched, whichever of the others fail:
\* an exit goes from the list by being processed, and the list is empty
\* before the loop sleeps; but for a signal or the death of the process.
CyclesServeAll ==
    /\ [](pc \in {"fetch", "sleep", "done"} => todo = {})
    /\ [][\A e \in todo : e \in todo' \/ current' = e
                            \/ shutdown \/ crashes' > crashes]_vars

Lifecycle == INSTANCE ExitLifecycle WITH
    Accounts <- Exits,
    account <- [e \in Exits |-> [status |-> exits[e].status,
                                 claimed |-> exits[e].total_sol_claimed]],
    opening <- TRUE

\* However its transactions are bundled, torn, delayed and repeated, the crank
\* moves exit accounts only as their lifecycle allows; DlmmExits keeps the same
\* promise, so that the two agree on what they share.
KeepsLifecycle == Lifecycle!Spec

(* What the documents say, and the program does not do. *)

Claimable(e) ==
    /\ exits[e].status = Active
    /\ SumOver(fees, OpenOf(e)) >= claimThreshold

\* crank/README.md: "Claim fees when above the configured threshold, deposit
\* SOL to the reward vault"; be it later, or unless the pool takes no deposits
\* or the service is stopped.
FeesEventuallyClaimed ==
    \A e \in Exits : Claimable(e) ~> (~Claimable(e) \/ ~pool_open \/ shutdown)

\* crank/README.md: "if remaining position value is below $1 (Jupiter/Pyth),
\* complete the exit"; so the crank closes only positions that are sold.
ClosesOnlyDust == [][open \ open' \subseteq sold]_vars

\* dlmm_exit.rs on total_sol_claimed: "Cumulative SOL claimed from filled
\* bins".
RecordsWhatWasClaimed ==
    \A e \in Exits : exits[e].total_sol_claimed <= books[e].claimed
=============================================================================
