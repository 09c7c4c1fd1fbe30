----------------------------- MODULE Emergency -----------------------------
(***************************************************************************)
(* The crank's halt command, beside everything else that moves the exit    *)
(* accounts: it fetches the active exits, takes each through six isolated  *)
(* steps, and submits emergency_halt with all that it fetched.  It runs    *)
(* with some wallet, not necessarily the owner's; what it submits lands    *)
(* later, in any order, or never; it may die, and be run again.            *)
(***************************************************************************)
EXTENDS DlmmExits, Sequences, Functions

CONSTANTS
    MIN_REWARD_DEPOSIT,
    NoPair,
    MaxRuns          \* bound: times the command is run

ASSUME EmergencyAssumption ==
    MIN_REWARD_DEPOSIT \in Nat \ {0} /\ NoPair \notin Pairs /\ MaxRuns \in Nat

VARIABLES
    pc,              \* where the command is
    runs,
    wallet,          \* the key it signs with
    fetched,         \* total_sol_claimed of the exits it fetched
    todo,            \* exits not yet taken through the steps
    current,
    results,         \* TerminateExitResult: steps done, and whether all worked
    sent,            \* accepted transactions that have not landed
    repaid,          \* history: lamports deposited for a pair by the command
    opened_late,     \* history: pairs opened since the first fetch
    halted           \* history: its halt landed, and no resume since

progress_vars == <<pc, fetched, todo, current, results>>
command_vars == <<progress_vars, runs, wallet>>
history_vars == <<repaid, opened_late, halted>>
all_vars == <<vars, command_vars, sent, history_vars>>

Steps == <<"closePosition", "claimFees", "unwrapWsol", "depositRewards",
           "transferAssetToTreasury", "terminateExit">>

Nothing == [pair \in {} |-> 0]

NoResult == [steps |-> 0, success |-> TRUE]

TerminateTx(pair) ==
    [op |-> "terminate", listed |-> {pair}, amount |-> 0, key |-> wallet, run |-> runs]

\* What a deposit pays in; a fault takes the exits together.
RecordedTotal_OfAll(pair) == FoldFunction(+, 0, fetched)

RecordedTotal(pair) == fetched[pair]

DepositTx(pair) ==
    [op |-> "deposit", listed |-> {pair}, amount |-> RecordedTotal(pair),
     key |-> wallet, run |-> runs]
HaltTx(pairs) ==
    [op |-> "halt", listed |-> pairs, amount |-> 0, key |-> wallet, run |-> runs]
----------------------------------------------------------------------------
(* The command. *)

EmergencyInit ==
    /\ Init
    /\ pc = "idle" /\ runs = 0 /\ wallet = FirstOwner
    /\ fetched = Nothing /\ todo = {} /\ current = NoPair /\ results = Nothing
    /\ sent = {}
    /\ repaid = [pair \in Pairs |-> 0]
    /\ opened_late = {}
    /\ halted = FALSE

Idle == pc \in {"idle", "ended", "failed"}

Start(key) ==
    /\ Idle
    /\ runs < MaxRuns
    /\ runs' = runs + 1
    /\ wallet' = key
    /\ UNCHANGED <<vars, sent, history_vars>>

emergencyHaltAll(key) ==
    LET active == {pair \in Pairs : IsActive(pair)}
    IN  /\ Start(key)
        /\ fetched' = [pair \in active |-> exits[pair].total_sol_claimed]
        /\ results' = [pair \in active |-> NoResult]
        /\ todo' = active
        /\ current' = NoPair
        /\ pc' = "next"

\* fetchActiveExits is awaited outside of any try: no halt is submitted.
FetchFails(key) ==
    /\ Start(key)
    /\ pc' = "failed"
    /\ fetched' = Nothing /\ results' = Nothing /\ todo' = {} /\ current' = NoPair

NextExit(pair) ==
    /\ pc = "next"
    /\ pair \in todo
    /\ todo' = todo \ {pair}
    /\ current' = pair
    /\ pc' = "step"
    /\ UNCHANGED <<vars, runs, wallet, fetched, results, sent, history_vars>>

\* What a step that does not fail submits; the transactions that close
\* the position and claim its fees are built and left at that.
Submitted(step) ==
    CASE step = "depositRewards" -> {DepositTx(current)}
      [] step = "terminateExit"  -> {TerminateTx(current)}
      [] OTHER                   -> {}

\* A step that submits is done when Jito or the RPC node accepts; one that
\* fails, by a time-out of Jito's answer, may have been accepted all the same.
Sends(ok, txs) == sent' = sent \cup txs \/ (~ok /\ sent' = sent)

\* Its result goes to the list whether or not it failed.
AfterStep(ok) ==
    [steps |-> results[current].steps + 1, success |-> results[current].success /\ ok]

\* A fault: a failing step ends its exit.
ExitDone_OnFailure(result) == result.steps = Len(Steps) \/ ~result.success

ExitDone(result) == result.steps = Len(Steps)

\* A fault: the exit just finished stays the current one.
Released_Kept == current

Released == NoPair

terminateSingleExit(ok) ==
    /\ pc = "step"
    /\ LET result == AfterStep(ok)
       IN  /\ results' = [results EXCEPT ![current] = result]
           /\ Sends(ok, Submitted(Steps[result.steps]))
           /\ IF ExitDone(result)
              THEN pc' = "next" /\ current' = Released
              ELSE UNCHANGED <<pc, current>>
    /\ UNCHANGED <<vars, runs, wallet, fetched, todo, history_vars>>

\* A fault: an exit whose steps all worked is taken to be terminated.
HaltList_OfFailedExits == {pair \in DOMAIN fetched : ~results[pair].success}

HaltList == DOMAIN fetched

SubmitHalt(ok) ==
    /\ pc = "next"
    /\ todo = {}
    /\ Sends(ok, {HaltTx(HaltList)})
    /\ pc' = "ended"
    /\ UNCHANGED <<vars, runs, wallet, fetched, todo, current, results,
                   history_vars>>

Die ==
    /\ ~Idle
    /\ pc' = "failed"
    /\ fetched' = Nothing /\ results' = Nothing /\ todo' = {} /\ current' = NoPair
    /\ UNCHANGED <<vars, runs, wallet, sent, history_vars>>
----------------------------------------------------------------------------
(* What becomes of its transactions. *)

LandTerminate(tx) ==
    /\ tx.op = "terminate"
    /\ \E pair \in tx.listed : TerminateExit(tx.key, pair)
    /\ UNCHANGED history_vars

LandHalt(tx) ==
    /\ tx.op = "halt"
    /\ EmergencyHalt(tx.key, tx.listed)
    /\ halted' = TRUE
    /\ UNCHANGED <<repaid, opened_late>>

\* deposit_rewards leaves the exit accounts and the keys alone.
LandDeposit(tx) ==
    /\ tx.op = "deposit"
    /\ tx.key \in {owner, crank}
    /\ ~is_paused
    /\ tx.amount >= MIN_REWARD_DEPOSIT
    /\ \E pair \in tx.listed : repaid' = [repaid EXCEPT ![pair] = @ + tx.amount]
    /\ UNCHANGED <<vars, opened_late, halted>>

Land(tx) ==
    /\ LandTerminate(tx) \/ LandHalt(tx) \/ LandDeposit(tx)
    /\ sent' = sent \ {tx}
    /\ UNCHANGED command_vars

Drop(tx) ==
    /\ sent' = sent \ {tx}
    /\ UNCHANGED <<vars, command_vars, history_vars>>
----------------------------------------------------------------------------
(* Everyone else; the keys stay as they are while the command is in use. *)

Beside ==
    /\ \E key \in Keys :
          \/ ExitStep(key)
          \/ ResumePool(key)
          \/ AutoPause(key) /\ UNCHANGED exit_vars
    /\ opened_late' = opened_late \cup
          {pair \in Pairs : runs > 0 /\ ~IsOpen(pair) /\ exits'[pair] # NoExit}
    /\ halted' = (halted /\ is_paused')
    /\ UNCHANGED <<command_vars, sent, repaid>>

EmergencyNext ==
    \/ \E key \in Keys : emergencyHaltAll(key) \/ FetchFails(key)
    \/ \E pair \in Pairs : NextExit(pair)
    \/ \E ok \in BOOLEAN : terminateSingleExit(ok) \/ SubmitHalt(ok)
    \/ Die
    \/ \E tx \in sent : Land(tx) \/ Drop(tx)
    \/ Beside

EmergencySpec == EmergencyInit /\ [][EmergencyNext]_all_vars
----------------------------------------------------------------------------
(* Properties. *)

Transaction ==
    [op : {"terminate", "deposit", "halt"}, listed : SUBSET Pairs, amount : Nat,
     key : Keys, run : Nat]

\* Types; an exit is under way exactly while its steps run, and none has more
\* results than steps.
EmergencyTypeOK ==
    /\ pc \in {"idle", "next", "step", "ended", "failed"}
    /\ runs \in 0..MaxRuns /\ wallet \in Keys
    /\ fetched \in [DOMAIN fetched -> Nat] /\ DOMAIN fetched \subseteq Pairs
    /\ results \in [DOMAIN fetched -> [steps : 0..Len(Steps), success : BOOLEAN]]
    /\ todo \subseteq DOMAIN fetched
    /\ pc = "step" <=> current \in DOMAIN fetched
    /\ current \in DOMAIN fetched \cup {NoPair}
    /\ sent \subseteq Transaction
    /\ repaid \in [Pairs -> Nat] /\ opened_late \subseteq Pairs
    /\ halted \in BOOLEAN

\* emergency.ts, "Per-exit failures are isolated": however many steps fail, a
\* command that comes to its end has tried all six for each exit it fetched.
FailuresAreIsolated ==
    pc = "ended" => \A pair \in DOMAIN fetched : results[pair].steps = Len(Steps)

\* Once the command's halt has landed, and until the owner resumes, the only
\* exits that can be active were opened after its fetch: whatever was dropped,
\* came late, ended, closed or opened in between.
HaltReachesFetched ==
    halted => \A pair \in Pairs : IsActive(pair) => pair \in opened_late

\* A deposit of the command repeats what the exit's account records, at most
\* once for each run, however old the fetched total is when it lands.
RepaysRecordedAtMost ==
    \A pair \in Pairs \ opened_late : IsOpen(pair) =>
        repaid[pair] <= runs * exits[pair].total_sol_claimed

=============================================================================
