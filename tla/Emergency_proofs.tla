-------------------------- MODULE Emergency_proofs --------------------------
(***************************************************************************)
(* Proofs about Emergency, for any number of exits, keys and runs of the   *)
(* command: it keeps the rules of DlmmExits, its failures are isolated,    *)
(* its halt reaches what it fetched, and its deposits repay an exit once   *)
(* per run at most.                                                        *)
(***************************************************************************)
EXTENDS Emergency, DlmmExits_proofs, Arith

\* Nothing is the function without arguments.
LEMMA NothingIsEmpty == DOMAIN Nothing = {} /\ \A S : Nothing \in [{} -> S]
  BY DEF Nothing

\* An exit takes the command six steps.
LEMMA StepsAreSix == Len(Steps) = 6
  BY DEF Steps

\* Before the first run nothing is fetched or sent.
LEMMA EmergencyInitType == EmergencyInit => EmergencyTypeOK
  <1>. SUFFICES ASSUME EmergencyInit PROVE EmergencyTypeOK
    OBVIOUS
  <1>1. DOMAIN fetched = {} /\ fetched \in [{} -> Nat] /\ todo = {}
    BY NothingIsEmpty DEF EmergencyInit
  <1>2. results \in [{} -> [steps : 0..Len(Steps), success : BOOLEAN]]
    BY NothingIsEmpty DEF EmergencyInit
  <1>3. pc = "idle" /\ current = NoPair
    BY DEF EmergencyInit
  <1>4. runs \in 0..MaxRuns /\ wallet \in Keys /\ sent = {} /\ opened_late = {}
    BY KeysAssumption, EmergencyAssumption DEF EmergencyInit
  <1>5. repaid \in [Pairs -> Nat] /\ halted \in BOOLEAN
    BY DEF EmergencyInit
  <1>. QED
    BY <1>1, <1>2, <1>3, <1>4, <1>5 DEF EmergencyTypeOK

\* What the command submits for an exit it fetched is a transaction.
LEMMA TransactionTypes ==
    ASSUME EmergencyTypeOK, NEW pair \in DOMAIN fetched
    PROVE  TerminateTx(pair) \in Transaction /\ DepositTx(pair) \in Transaction
  BY DEF EmergencyTypeOK, TerminateTx, DepositTx, Transaction, RecordedTotal

\* The halt at the end is a transaction.
LEMMA HaltTxType == EmergencyTypeOK => HaltTx(HaltList) \in Transaction
  BY DEF EmergencyTypeOK, HaltTx, HaltList, Transaction
----------------------------------------------------------------------------
(* The command beside the exits: its steps are steps of DlmmExits. *)

\* Each step of the command, of the network and of the others is one of the
\* exits' instructions, or leaves the exits alone.
LEMMA StepsRefine ==
    ASSUME EmergencyTypeOK, [EmergencyNext]_all_vars
    PROVE  [Next]_vars
  <1>1. CASE UNCHANGED all_vars
    BY <1>1 DEF all_vars
  <1>2. ASSUME NEW key \in Keys, emergencyHaltAll(key) \/ FetchFails(key)
        PROVE  UNCHANGED vars
    BY <1>2 DEF emergencyHaltAll, FetchFails, Start
  <1>3. ASSUME NEW pair \in Pairs, NextExit(pair)
        PROVE  UNCHANGED vars
    BY <1>3 DEF NextExit
  <1>4. ASSUME NEW ok \in BOOLEAN, terminateSingleExit(ok) \/ SubmitHalt(ok)
        PROVE  UNCHANGED vars
    BY <1>4 DEF terminateSingleExit, SubmitHalt
  <1>5. CASE Die
    BY <1>5 DEF Die
  <1>6. ASSUME NEW tx \in sent, Land(tx)
        PROVE  [Next]_vars
    <2>1. tx.key \in Keys /\ tx.listed \in SUBSET Pairs
      BY DEF EmergencyTypeOK, Transaction
    <2>2. CASE LandTerminate(tx)
      <3>1. PICK pair \in Pairs : TerminateExit(tx.key, pair)
        BY <2>1, <2>2 DEF LandTerminate
      <3>. QED
        BY <2>1, <3>1 DEF Next, ExitStep
    <2>3. CASE LandHalt(tx)
      BY <2>1, <2>3 DEF LandHalt, Next, ExitStep
    <2>4. CASE LandDeposit(tx)
      BY <2>4 DEF LandDeposit
    <2>. QED
      BY <1>6, <2>2, <2>3, <2>4 DEF Land
  <1>7. ASSUME NEW tx \in sent, Drop(tx)
        PROVE  UNCHANGED vars
    BY <1>7 DEF Drop
  <1>8. CASE Beside
    BY <1>8 DEF Beside, Next, Administer
  <1>. QED
    BY <1>1, <1>2, <1>3, <1>4, <1>5, <1>6, <1>7, <1>8 DEF EmergencyNext
----------------------------------------------------------------------------
(* Types. *)

\* What the command holds, apart from what it sent.
ProgressOK ==
    /\ pc \in {"idle", "next", "step", "ended", "failed"}
    /\ fetched \in [DOMAIN fetched -> Nat] /\ DOMAIN fetched \subseteq Pairs
    /\ results \in [DOMAIN fetched -> [steps : 0..6, success : BOOLEAN]]
    /\ todo \subseteq DOMAIN fetched
    /\ pc = "step" <=> current \in DOMAIN fetched
    /\ current \in DOMAIN fetched \cup {NoPair}

\* The types of the rest.
OthersOK ==
    /\ runs \in 0..MaxRuns /\ wallet \in Keys
    /\ sent \subseteq Transaction
    /\ repaid \in [Pairs -> Nat] /\ opened_late \subseteq Pairs
    /\ halted \in BOOLEAN

\* The two parts are the type invariant.
LEMMA TypeParts == EmergencyTypeOK <=> ProgressOK /\ OthersOK
  BY StepsAreSix DEF EmergencyTypeOK, ProgressOK, OthersOK

\* The exits fetched and not yet begun, the one under way, those done.
StepInv ==
    /\ pc = "step" => current \notin todo /\ results[current].steps < 6
    /\ pc = "ended" => todo = {}
    /\ pc \in {"next", "step", "ended"} =>
          \A pair \in DOMAIN fetched :
             /\ pair \in todo => results[pair].steps = 0
             /\ pair \notin todo /\ pair # current => results[pair].steps = 6

\* They hold before the first run.
LEMMA InitParts == EmergencyInit => ProgressOK /\ OthersOK /\ StepInv
  BY EmergencyInitType, TypeParts, NothingIsEmpty DEF EmergencyInit, StepInv

\* A run begins with every exit it fetched ahead of it.
LEMMA StartProgress ==
    ASSUME TypeOK, NEW key \in Keys, emergencyHaltAll(key) \/ FetchFails(key)
    PROVE  ProgressOK' /\ StepInv'
  <1>. DEFINE active == {pair \in Pairs : IsActive(pair)}
  <1>1. CASE emergencyHaltAll(key)
    <2>1. \A pair \in active : exits[pair].total_sol_claimed \in Nat
      BY OpenAccount DEF IsActive, DlmmExit
    <2>2. fetched' \in [active -> Nat] /\ DOMAIN fetched' = active
      BY <1>1, <2>1 DEF emergencyHaltAll
    <2>3. results' = [pair \in active |-> NoResult]
      BY <1>1 DEF emergencyHaltAll
    <2>4. results' \in [active -> [steps : 0..6, success : BOOLEAN]]
      BY <2>3 DEF NoResult
    <2>5. todo' = active /\ pc' = "next" /\ current' = NoPair /\ active \subseteq Pairs
      BY <1>1 DEF emergencyHaltAll
    <2>6. ProgressOK'
      BY <2>2, <2>4, <2>5, EmergencyAssumption DEF ProgressOK
    <2>7. StepInv'
      BY <2>2, <2>3, <2>5 DEF StepInv, NoResult
    <2>. QED
      BY <2>6, <2>7
  <1>2. CASE FetchFails(key)
    BY <1>2, NothingIsEmpty DEF FetchFails, ProgressOK, StepInv
  <1>. QED
    BY <1>1, <1>2

\* It takes up one exit at its first step.
LEMMA NextExitProgress ==
    ASSUME ProgressOK, StepInv, NEW pair \in Pairs, NextExit(pair)
    PROVE  ProgressOK' /\ StepInv'
  <1>1. /\ pc = "next" /\ pair \in todo /\ pair \in DOMAIN fetched
        /\ todo' = todo \ {pair} /\ current' = pair /\ pc' = "step"
        /\ fetched' = fetched /\ results' = results
    BY DEF NextExit, ProgressOK
  <1>2. current = NoPair /\ NoPair \notin DOMAIN fetched
    BY <1>1, EmergencyAssumption DEF ProgressOK
  <1>3. ProgressOK'
    BY <1>1 DEF ProgressOK
  <1>4. StepInv'
    BY <1>1, <1>2 DEF StepInv
  <1>. QED
    BY <1>3, <1>4

\* A step adds one to the results of the current exit, up to six, which
\* releases it.
LEMMA StepCounts ==
    ASSUME ProgressOK, NEW ok \in BOOLEAN, terminateSingleExit(ok),
           results[current].steps < 6
    PROVE  /\ pc = "step" /\ current \in DOMAIN fetched
           /\ AfterStep(ok).steps = results[current].steps + 1
           /\ AfterStep(ok).steps \in 1..6
           /\ AfterStep(ok) \in [steps : 0..6, success : BOOLEAN]
           /\ results' = [results EXCEPT ![current] = AfterStep(ok)]
           /\ \/ /\ AfterStep(ok).steps = 6 /\ pc' = "next" /\ current' = NoPair
              \/ AfterStep(ok).steps < 6 /\ pc' = pc /\ current' = current
  <1>1. pc = "step" /\ current \in DOMAIN fetched
    BY DEF ProgressOK, terminateSingleExit
  <1>2. results[current] \in [steps : 0..6, success : BOOLEAN]
    BY <1>1 DEF ProgressOK
  <1>3. /\ AfterStep(ok).steps = results[current].steps + 1
        /\ AfterStep(ok).success = (results[current].success /\ ok)
    BY DEF AfterStep
  <1>4. AfterStep(ok) \in [steps : 0..6, success : BOOLEAN]
    <2>1. results[current].steps + 1 \in 0..6
      BY <1>2
    <2>2. (results[current].success /\ ok) \in BOOLEAN
      BY Zenon
    <2>. QED
      BY <2>1, <2>2 DEF AfterStep
  <1>5. results' = [results EXCEPT ![current] = AfterStep(ok)]
    BY DEF terminateSingleExit
  <1>6. \/ AfterStep(ok).steps = 6 /\ pc' = "next" /\ current' = NoPair
        \/ AfterStep(ok).steps # 6 /\ pc' = pc /\ current' = current
    BY StepsAreSix DEF terminateSingleExit, ExitDone, Released
  <1>. QED
    BY <1>1, <1>2, <1>3, <1>4, <1>5, <1>6

\* A step, failed or not, is followed by the next, or by the next exit.
LEMMA StepProgress ==
    ASSUME ProgressOK, StepInv, NEW ok \in BOOLEAN, terminateSingleExit(ok)
    PROVE  ProgressOK' /\ StepInv'
  <1>1. results[current].steps < 6 /\ current \notin todo
    BY DEF terminateSingleExit, StepInv
  <1>2. fetched' = fetched /\ todo' = todo
    BY DEF terminateSingleExit
  <1>3. NoPair \notin DOMAIN fetched
    BY EmergencyAssumption DEF ProgressOK
  <1>. DEFINE result == AfterStep(ok)
  <1>4. /\ pc = "step" /\ current \in DOMAIN fetched
        /\ result.steps \in 1..6
        /\ result \in [steps : 0..6, success : BOOLEAN]
        /\ results' = [results EXCEPT ![current] = result]
        /\ \/ result.steps = 6 /\ pc' = "next" /\ current' = NoPair
           \/ result.steps < 6 /\ pc' = pc /\ current' = current
    BY <1>1, StepCounts
  <1>. HIDE DEF result
  <1>5. DOMAIN results = DOMAIN fetched
    BY DEF ProgressOK
  <1>6. ProgressOK'
    BY <1>2, <1>3, <1>4 DEF ProgressOK
  <1>7. StepInv'
    BY <1>1, <1>2, <1>3, <1>4, <1>5 DEF StepInv
  <1>. QED
    BY <1>6, <1>7

\* The run's progress is kept in order by every step.
LEMMA ProgressStep ==
    ASSUME TypeOK, ProgressOK, StepInv, [EmergencyNext]_all_vars
    PROVE  ProgressOK' /\ StepInv'
  <1>1. CASE UNCHANGED progress_vars
    BY <1>1 DEF progress_vars, ProgressOK, StepInv
  <1>2. ASSUME NEW ok \in BOOLEAN, SubmitHalt(ok)
        PROVE  ProgressOK' /\ StepInv'
    BY <1>2, EmergencyAssumption DEF SubmitHalt, ProgressOK, StepInv
  <1>3. CASE Die
    BY <1>3, NothingIsEmpty DEF Die, ProgressOK, StepInv
  <1>4. ASSUME NEW tx \in sent, Land(tx) \/ Drop(tx)
        PROVE  UNCHANGED progress_vars
    BY <1>4 DEF Land, Drop, command_vars
  <1>5. ASSUME Beside
        PROVE  UNCHANGED progress_vars
    BY <1>5 DEF Beside, command_vars
  <1>6. ASSUME UNCHANGED all_vars
        PROVE  UNCHANGED progress_vars
    BY <1>6 DEF all_vars, command_vars
  <1>. QED
    BY <1>1, <1>2, <1>3, <1>4, <1>5, <1>6, StartProgress, NextExitProgress,
       StepProgress DEF EmergencyNext

\* Only transactions are sent.
LEMMA Sent ==
    ASSUME ProgressOK, OthersOK, [EmergencyNext]_all_vars
    PROVE  sent' \subseteq Transaction
  <1>1. EmergencyTypeOK
    BY TypeParts
  <1>2. ASSUME NEW key \in Keys, emergencyHaltAll(key) \/ FetchFails(key)
        PROVE  sent' = sent
    BY <1>2 DEF emergencyHaltAll, FetchFails, Start
  <1>3. ASSUME NEW ok \in BOOLEAN, terminateSingleExit(ok)
        PROVE  sent' \subseteq Transaction
    <2>1. current \in DOMAIN fetched
      BY <1>3 DEF terminateSingleExit, ProgressOK
    <2>2. \A step : Submitted(step) \subseteq Transaction
      BY <1>1, <2>1, TransactionTypes DEF Submitted
    <2>3. \E step : sent' = sent \cup Submitted(step) \/ sent' = sent
      BY <1>3 DEF terminateSingleExit, Sends
    <2>. QED
      BY <2>2, <2>3 DEF OthersOK
  <1>4. ASSUME NEW ok \in BOOLEAN, SubmitHalt(ok)
        PROVE  sent' \subseteq Transaction
    BY <1>1, <1>4, HaltTxType DEF SubmitHalt, Sends, OthersOK
  <1>5. ASSUME \/ \E pair \in Pairs : NextExit(pair)
               \/ Die \/ Beside
               \/ \E tx \in sent : Land(tx) \/ Drop(tx)
               \/ UNCHANGED all_vars
        PROVE  sent' \subseteq sent
    BY <1>5 DEF NextExit, Die, Beside, Land, Drop, all_vars
  <1>. QED
    BY <1>2, <1>3, <1>4, <1>5 DEF EmergencyNext, OthersOK

\* The types of the rest are kept by every step.
LEMMA OthersStep ==
    ASSUME TypeOK, ProgressOK, OthersOK, [EmergencyNext]_all_vars
    PROVE  OthersOK'
  <1>. DEFINE Rest == /\ runs' \in 0..MaxRuns /\ wallet' \in Keys
                      /\ repaid' \in [Pairs -> Nat] /\ opened_late' \subseteq Pairs
                      /\ halted' \in BOOLEAN
  <1>1. ASSUME UNCHANGED <<runs, wallet, history_vars>>
        PROVE  Rest
    BY <1>1 DEF OthersOK, history_vars
  <1>2. ASSUME NEW key \in Keys, emergencyHaltAll(key) \/ FetchFails(key)
        PROVE  Rest
    BY <1>2, EmergencyAssumption
    DEF emergencyHaltAll, FetchFails, Start, OthersOK, history_vars
  <1>3. ASSUME NEW tx \in sent, Land(tx)
        PROVE  Rest
    <2>1. tx.amount \in Nat /\ tx.listed \subseteq Pairs
      BY DEF OthersOK, Transaction
    <2>2. runs' = runs /\ wallet' = wallet
      BY <1>3 DEF Land, command_vars
    <2>3. CASE LandTerminate(tx)
      BY <2>2, <2>3 DEF LandTerminate, OthersOK, history_vars
    <2>4. CASE LandHalt(tx)
      BY <2>2, <2>4 DEF LandHalt, OthersOK
    <2>5. CASE LandDeposit(tx)
      <3>1. PICK pair \in tx.listed : repaid' = [repaid EXCEPT ![pair] = @ + tx.amount]
        BY <2>5 DEF LandDeposit
      <3>2. pair \in Pairs /\ repaid[pair] + tx.amount \in Nat
        BY <2>1, <3>1 DEF OthersOK
      <3>3. repaid' \in [Pairs -> Nat]
        BY <3>1, <3>2 DEF OthersOK
      <3>. QED
        BY <2>2, <2>5, <3>3 DEF LandDeposit, OthersOK
    <2>. QED
      BY <1>3, <2>3, <2>4, <2>5 DEF Land
  <1>4. ASSUME NEW tx \in sent, Drop(tx)
        PROVE  Rest
    BY <1>1, <1>4 DEF Drop, command_vars
  <1>5. ASSUME Beside
        PROVE  Rest
    BY <1>5 DEF Beside, OthersOK, command_vars
  <1>6. ASSUME UNCHANGED all_vars
        PROVE  Rest
    BY <1>1, <1>6 DEF all_vars, command_vars
  <1>7. ASSUME \/ \E pair \in Pairs : NextExit(pair)
               \/ \E ok \in BOOLEAN : terminateSingleExit(ok) \/ SubmitHalt(ok)
               \/ Die
        PROVE  Rest
    BY <1>1, <1>7 DEF NextExit, terminateSingleExit, SubmitHalt, Die
  <1>8. Rest
    BY <1>2, <1>3, <1>4, <1>5, <1>6, <1>7 DEF EmergencyNext
  <1>. QED
    BY <1>8, Sent DEF OthersOK
----------------------------------------------------------------------------
(* What the halt reaches. *)

\* An exit that is active was active before, or is opened by this step.
LEMMA NewlyActive ==
    ASSUME TypeOK, ProgressOK, OthersOK, [EmergencyNext]_all_vars,
           NEW q \in Pairs, IsActive(q)', runs > 0
    PROVE  IsActive(q) \/ q \in opened_late'
  <1>1. EmergencyTypeOK
    BY TypeParts
  <1>2. ASSUME exits'[q] = exits[q]
        PROVE  IsActive(q)
    BY <1>2 DEF IsActive, IsOpen
  <1>3. CASE Beside
    <2>1. [Next]_vars
      BY <1>1, StepsRefine
    <2>2. CASE Opened(q)
      BY <1>3, <2>2 DEF Beside, Opened, IsActive, IsOpen
    <2>3. CASE Closed(q)
      BY <2>3 DEF Closed, IsActive, IsOpen
    <2>. QED
      BY <1>2, <2>1, <2>2, <2>3, AccountSteps DEF Booked, EndedNow
  <1>4. ASSUME NEW tx \in sent, LandTerminate(tx) \/ LandHalt(tx)
        PROVE  IsActive(q) \/ exits'[q] = exits[q]
    BY <1>4 DEF LandTerminate, TerminateExit, MayEnd, LandHalt, EmergencyHalt,
                TypeOK
  <1>5. ASSUME UNCHANGED vars
        PROVE  exits'[q] = exits[q]
    BY <1>5 DEF vars, exit_vars
  <1>6. ASSUME NEW tx \in sent, LandDeposit(tx) \/ Drop(tx)
        PROVE  UNCHANGED vars
    BY <1>6 DEF LandDeposit, Drop
  <1>7. ASSUME \/ \E key \in Keys : emergencyHaltAll(key) \/ FetchFails(key)
               \/ \E pair \in Pairs : NextExit(pair)
               \/ \E ok \in BOOLEAN : terminateSingleExit(ok) \/ SubmitHalt(ok)
               \/ Die
               \/ UNCHANGED all_vars
        PROVE  UNCHANGED vars
    BY <1>7 DEF emergencyHaltAll, FetchFails, Start, NextExit, terminateSingleExit,
                SubmitHalt, Die, all_vars
  <1>. QED
    BY <1>2, <1>3, <1>4, <1>5, <1>6, <1>7 DEF EmergencyNext, Land

\* An exit opened after the first fetch is never forgotten, nor is that there
\* was a fetch.
LEMMA OpenedLateGrows ==
    ASSUME OthersOK, [EmergencyNext]_all_vars
    PROVE  opened_late \subseteq opened_late' /\ (runs > 0 => runs' > 0)
  <1>1. ASSUME NEW key \in Keys, emergencyHaltAll(key) \/ FetchFails(key)
        PROVE  opened_late' = opened_late /\ runs' = runs + 1
    BY <1>1 DEF emergencyHaltAll, FetchFails, Start, history_vars
  <1>2. ASSUME NEW tx \in sent, Land(tx) \/ Drop(tx)
        PROVE  opened_late' = opened_late /\ runs' = runs
    BY <1>2 DEF Land, LandTerminate, LandHalt, LandDeposit, Drop, history_vars,
                command_vars
  <1>3. ASSUME Beside
        PROVE  opened_late \subseteq opened_late' /\ runs' = runs
    BY <1>3 DEF Beside, command_vars
  <1>4. ASSUME \/ \E pair \in Pairs : NextExit(pair)
               \/ \E ok \in BOOLEAN : terminateSingleExit(ok) \/ SubmitHalt(ok)
               \/ Die
               \/ UNCHANGED all_vars
        PROVE  opened_late' = opened_late /\ runs' = runs
    BY <1>4 DEF NextExit, terminateSingleExit, SubmitHalt, Die, all_vars,
                history_vars, command_vars
  <1>5. runs \in Nat
    BY EmergencyAssumption DEF OthersOK
  <1>. QED
    BY <1>1, <1>2, <1>3, <1>4, <1>5 DEF EmergencyNext

\* Every active exit is in S or was opened since the first fetch.
Reaches(S) == \A pair \in Pairs : IsActive(pair) => pair \in S \cup opened_late

\* Since the first run, what is fetched, listed in a halt under way, and
\* halted reaches every exit that was active then.
ReachInv ==
    /\ pc \in {"next", "step"} \/ sent # {} \/ halted => runs > 0
    /\ pc \in {"next", "step"} => Reaches(DOMAIN fetched)
    /\ \A tx \in sent : tx.op = "halt" => Reaches(tx.listed)
    /\ HaltReachesFetched

\* A set that reaches every active exit still does after any step.
LEMMA ReachesStep ==
    ASSUME TypeOK, ProgressOK, OthersOK, [EmergencyNext]_all_vars, runs > 0,
           NEW S, Reaches(S)
    PROVE  \A pair \in Pairs : IsActive(pair)' => pair \in S \cup opened_late'
  BY NewlyActive, OpenedLateGrows DEF Reaches

\* The fetch, and the transactions not landed, reach all that is active.
LEMMA ReachStarts ==
    ASSUME OthersOK, ReachInv,
           NEW key \in Keys, emergencyHaltAll(key) \/ FetchFails(key)
    PROVE  ReachInv'
  <1>1. /\ runs' > 0
        /\ UNCHANGED <<sent, halted, opened_late, exits>>
        /\ pc' \in {"next", "failed"}
    BY EmergencyAssumption
    DEF emergencyHaltAll, FetchFails, Start, OthersOK, history_vars, vars, exit_vars
  <1>2. pc' = "next" => DOMAIN fetched' = {pair \in Pairs : IsActive(pair)}
    BY DEF emergencyHaltAll, FetchFails
  <1>. QED
    BY <1>1, <1>2 DEF ReachInv, Reaches, HaltReachesFetched, IsActive, IsOpen

\* What emergency_halt named and did not end was not active.
LEMMA HaltLands ==
    ASSUME TypeOK, OthersOK, ReachInv, NEW tx \in sent, LandHalt(tx)
    PROVE  HaltReachesFetched'
  <1>. SUFFICES ASSUME NEW q \in Pairs, IsActive(q)'
                PROVE  q \in opened_late'
    BY DEF HaltReachesFetched
  <1>1. exits'[q] = IF q \in tx.listed /\ IsActive(q)
                    THEN Ended(exits[q], 2) ELSE exits[q]
    BY DEF LandHalt, EmergencyHalt, Terminated
  <1>2. ~(q \in tx.listed /\ IsActive(q))
    <2>. SUFFICES ASSUME q \in tx.listed, IsActive(q) PROVE FALSE
      OBVIOUS
    <2>1. exits[q] \in DlmmExit /\ now \in Nat
      BY OpenAccount DEF IsActive, TypeOK
    <2>2. exits'[q].status = 2
      BY <1>1, <2>1, EndedAccount
    <2>. QED
      BY <2>2 DEF IsActive, Active
  <1>3. IsActive(q)
    BY <1>1, <1>2 DEF IsActive, IsOpen
  <1>4. Reaches(tx.listed)
    BY DEF ReachInv, LandHalt
  <1>. QED
    BY <1>2, <1>3, <1>4 DEF Reaches, LandHalt

\* Every step keeps the command's reach.
LEMMA ReachInvStep ==
    ASSUME TypeOK, ProgressOK, OthersOK, ReachInv, [EmergencyNext]_all_vars
    PROVE  ReachInv'
  <1>1. CASE \E key \in Keys : emergencyHaltAll(key) \/ FetchFails(key)
    BY <1>1, ReachStarts
  <1>. SUFFICES ASSUME ~\E key \in Keys : emergencyHaltAll(key) \/ FetchFails(key)
                PROVE  ReachInv'
    BY <1>1
  <1>2. /\ pc' \in {"next", "step"} => pc \in {"next", "step"} /\ fetched' = fetched
        /\ \A tx \in sent' : \/ tx \in sent
                             \/ pc \in {"next", "step"} /\ tx.op # "halt"
                             \/ pc \in {"next", "step"} /\ tx = HaltTx(HaltList)
    <2>1. ASSUME NEW ok \in BOOLEAN, terminateSingleExit(ok)
          PROVE  \A tx \in sent' : tx \in sent \/ tx.op # "halt"
      <3>1. \A step : \A tx \in Submitted(step) : tx.op # "halt"
        BY DEF Submitted, DepositTx, TerminateTx
      <3>2. \E step : sent' = sent \cup Submitted(step) \/ sent' = sent
        BY <2>1 DEF terminateSingleExit, Sends
      <3>. QED
        BY <3>1, <3>2
    <2>2. ASSUME NEW ok \in BOOLEAN, terminateSingleExit(ok)
          PROVE  pc = "step" /\ fetched' = fetched
      BY <2>2 DEF terminateSingleExit
    <2>3. ASSUME NEW ok \in BOOLEAN, SubmitHalt(ok)
          PROVE  /\ pc = "next" /\ pc' = "ended"
                 /\ \A tx \in sent' : tx \in sent \/ tx = HaltTx(HaltList)
      BY <2>3 DEF SubmitHalt, Sends
    <2>4. ASSUME NEW pair \in Pairs, NextExit(pair)
          PROVE  pc = "next" /\ fetched' = fetched /\ sent' = sent
      BY <2>4 DEF NextExit
    <2>5. ASSUME Die
          PROVE  pc' = "failed" /\ sent' = sent
      BY <2>5 DEF Die
    <2>6. ASSUME \/ \E tx \in sent : Land(tx) \/ Drop(tx)
                 \/ Beside
                 \/ UNCHANGED all_vars
          PROVE  pc' = pc /\ fetched' = fetched /\ sent' \subseteq sent
      BY <2>6 DEF Land, Drop, Beside, all_vars, command_vars, progress_vars
    <2>. QED
      BY <2>1, <2>2, <2>3, <2>4, <2>5, <2>6 DEF EmergencyNext
  <1>3. halted' => \/ halted
                   \/ \E tx \in sent : LandHalt(tx)
    BY DEF EmergencyNext, NextExit, terminateSingleExit, SubmitHalt, Die, Land,
           LandTerminate, LandDeposit, Drop, Beside, all_vars, history_vars
  <1>4. runs' > 0 \/ ~(pc' \in {"next", "step"} \/ sent' # {} \/ halted')
    BY <1>2, <1>3, OpenedLateGrows DEF ReachInv
  <1>. SUFFICES ASSUME runs > 0
                PROVE  ReachInv'
    <2>1. runs > 0 \/ ~(pc' \in {"next", "step"} \/ sent' # {} \/ halted')
      BY <1>2, <1>3 DEF ReachInv
    <2>2. ASSUME ~(pc' \in {"next", "step"}), sent' = {}, ~halted'
          PROVE  ReachInv'
      BY <2>2 DEF ReachInv, HaltReachesFetched
    <2>. QED
      BY <2>1, <2>2
  <1>5. pc' \in {"next", "step"} => Reaches(DOMAIN fetched)'
    BY <1>2, ReachesStep DEF ReachInv, Reaches
  <1>6. ASSUME NEW tx \in sent', tx.op = "halt"
        PROVE  Reaches(tx.listed)'
    <2>1. CASE tx \in sent
      BY <1>6, <2>1, ReachesStep DEF ReachInv, Reaches
    <2>2. CASE pc \in {"next", "step"} /\ tx = HaltTx(HaltList)
      <3>1. tx.listed = DOMAIN fetched
        BY <2>2 DEF HaltTx, HaltList
      <3>. QED
        BY <2>2, <3>1, ReachesStep DEF ReachInv, Reaches
    <2>. QED
      BY <1>2, <1>6, <2>1, <2>2
  <1>7. HaltReachesFetched'
    <2>1. CASE halted
      <3>1. Reaches({})
        BY <2>1 DEF ReachInv, HaltReachesFetched, Reaches
      <3>. QED
        BY <3>1, ReachesStep DEF HaltReachesFetched
    <2>2. CASE \E tx \in sent : LandHalt(tx)
      BY <2>2, HaltLands
    <2>. QED
      BY <1>3, <2>1, <2>2 DEF HaltReachesFetched
  <1>. QED
    BY <1>4, <1>5, <1>6, <1>7 DEF ReachInv
----------------------------------------------------------------------------
(* What the deposits repay. *)

\* What the account has booked.
Total(q) == exits[q].total_sol_claimed

\* The command's deposits for q that have not landed, and whether the run
\* under way has still to submit its own.
Deposits(q) == {tx \in sent : tx.op = "deposit" /\ q \in tx.listed}

Underway == pc \in {"next", "step"}

ToCome(q) == Underway /\ q \in DOMAIN fetched /\ results[q].steps < 4

\* A run submits one deposit for q at most.
OneDeposit(q) ==
    /\ \A tx \in Deposits(q) : tx.run \in 1..runs
    /\ \A tx, other \in Deposits(q) : tx.run = other.run => tx = other
    /\ ToCome(q) => \A tx \in Deposits(q) : tx.run # runs

\* What was fetched, or is about to be paid in, the account still records.
Recorded(q) ==
    /\ \A tx \in Deposits(q) : tx.amount <= Total(q)
    /\ Underway /\ q \in DOMAIN fetched => fetched[q] <= Total(q)

\* The deposits that landed are those of different runs, none of which has
\* another one to come.
Repaid(q) ==
    \E landed \in SUBSET (1..runs) :
       /\ repaid[q] <= Cardinality(landed) * Total(q)
       /\ \A tx \in Deposits(q) : tx.run \notin landed
       /\ ToCome(q) => runs \notin landed

\* Nothing is sent before the first run; after it every exit's deposits are
\* of different runs and within what its account, unless it was opened later,
\* has booked.
RepayInv ==
    /\ runs = 0 => sent = {} /\ ~Underway /\ \A q \in Pairs : repaid[q] = 0
    /\ \A q \in Pairs : OneDeposit(q)
    /\ \A q \in Pairs \ opened_late : IsOpen(q) => Recorded(q) /\ Repaid(q)

\* The four ways a step of the command bears on the deposits for q.
Starting(q) ==
    /\ runs' = runs + 1 /\ Deposits(q)' = Deposits(q)
    /\ repaid'[q] = repaid[q] /\ exits' = exits /\ opened_late' = opened_late
    /\ Underway' /\ q \in DOMAIN fetched' => fetched'[q] = Total(q)

Submitting(q) ==
    /\ ToCome(q) /\ ~ToCome(q)' /\ Underway' /\ q \in DOMAIN fetched'
    /\ fetched' = fetched /\ runs' = runs /\ repaid'[q] = repaid[q]
    /\ \E tx : /\ tx.run = runs /\ tx.amount = fetched[q]
               /\ Deposits(q)' \subseteq Deposits(q) \cup {tx}
    /\ exits' = exits /\ opened_late' = opened_late

Landing(q) ==
    /\ \E tx \in Deposits(q) : /\ Deposits(q)' = Deposits(q) \ {tx}
                              /\ repaid'[q] = repaid[q] + tx.amount
    /\ UNCHANGED <<progress_vars, runs, exits, opened_late>>

Elsewhere(q) ==
    /\ runs' = runs /\ repaid'[q] = repaid[q]
    /\ Deposits(q)' \subseteq Deposits(q)
    /\ Underway' /\ q \in DOMAIN fetched' =>
          Underway /\ q \in DOMAIN fetched /\ fetched'[q] = fetched[q]
    /\ ToCome(q)' => ToCome(q)

\* A run's start changes no deposit, and reads what the account has booked.
LEMMA StartingStep ==
    ASSUME TypeOK, ProgressOK, OthersOK, NEW q \in Pairs,
           NEW key \in Keys, emergencyHaltAll(key) \/ FetchFails(key)
    PROVE  Starting(q)
  <1>1. /\ runs' = runs + 1 /\ sent' = sent /\ repaid' = repaid /\ exits' = exits
        /\ opened_late' = opened_late
    BY DEF emergencyHaltAll, FetchFails, Start, history_vars, vars, exit_vars
  <1>2. Underway' /\ q \in DOMAIN fetched' => fetched'[q] = Total(q)
    BY DEF Underway, emergencyHaltAll, FetchFails, Total
  <1>. QED
    BY <1>1, <1>2 DEF Starting, Deposits

\* The fourth step submits the deposit, and only for the exit under way.
LEMMA StepDeposits ==
    ASSUME ProgressOK, OthersOK, StepInv, NEW q \in Pairs, NEW ok \in BOOLEAN,
           terminateSingleExit(ok)
    PROVE  Submitting(q) \/ Elsewhere(q)
  <1>. DEFINE result == AfterStep(ok)
  <1>1. results[current].steps < 6
    BY DEF terminateSingleExit, StepInv
  <1>2. /\ pc = "step" /\ current \in DOMAIN fetched
        /\ result.steps = results[current].steps + 1 /\ result.steps \in 1..6
        /\ results' = [results EXCEPT ![current] = result]
        /\ pc' \in {"next", "step"}
        /\ results[current].steps \in 0..6
        /\ DOMAIN results = DOMAIN fetched
    BY <1>1, StepCounts DEF ProgressOK
  <1>3. /\ fetched' = fetched /\ runs' = runs /\ repaid' = repaid /\ exits' = exits
        /\ opened_late' = opened_late /\ wallet' = wallet
        /\ Sends(ok, Submitted(Steps[result.steps]))
    BY DEF terminateSingleExit, history_vars, vars, exit_vars
  <1>. HIDE DEF result
  <1>4. Underway /\ Underway'
    BY <1>2 DEF Underway
  <1>5. CASE q = current /\ result.steps = 4
    <2>1. ToCome(q) /\ ~ToCome(q)'
      BY <1>2, <1>3, <1>4, <1>5 DEF ToCome
    <2>2. sent' \subseteq sent \cup {DepositTx(q)}
      BY <1>3, <1>5 DEF Sends, Submitted, Steps
    <2>3. DepositTx(q).run = runs /\ DepositTx(q).amount = fetched[q]
      BY DEF DepositTx, RecordedTotal
    <2>4. Deposits(q)' \subseteq Deposits(q) \cup {DepositTx(q)}
      BY <2>2 DEF Deposits
    <2>. QED
      BY <1>2, <1>3, <1>4, <1>5, <2>1, <2>3, <2>4 DEF Submitting
  <1>6. CASE ~(q = current /\ result.steps = 4)
    <2>1. Deposits(q)' \subseteq Deposits(q)
      <3>1. \A tx \in Submitted(Steps[result.steps]) :
               ~(tx.op = "deposit" /\ q \in tx.listed)
        <4>1. Steps[result.steps] = "depositRewards" <=> result.steps = 4
          BY <1>2 DEF Steps
        <4>2. DepositTx(current).listed = {current}
          BY DEF DepositTx
        <4>. QED
          BY <1>6, <4>1, <4>2 DEF Submitted, TerminateTx
      <3>. QED
        BY <1>3, <3>1 DEF Sends, Deposits
    <2>2. ToCome(q)' => ToCome(q)
      BY <1>2, <1>3, <1>4 DEF ToCome
    <2>. QED
      BY <1>3, <1>4, <2>1, <2>2 DEF Elsewhere
  <1>. QED
    BY <1>5, <1>6

\* A deposit that lands is for one pair.
LEMMA LandDeposits ==
    ASSUME ProgressOK, OthersOK, NEW q \in Pairs, NEW tx \in sent, Land(tx)
    PROVE  Landing(q) \/ Elsewhere(q)
  <1>1. sent' = sent \ {tx} /\ UNCHANGED <<progress_vars, runs>>
    BY DEF Land, command_vars
  <1>2. Deposits(q)' = Deposits(q) \ {tx}
    BY <1>1 DEF Deposits
  <1>3. CASE repaid'[q] = repaid[q]
    BY <1>1, <1>2, <1>3 DEF Elsewhere, Underway, ToCome, progress_vars
  <1>4. CASE LandTerminate(tx) \/ LandHalt(tx)
    BY <1>3, <1>4 DEF LandTerminate, LandHalt, history_vars
  <1>5. CASE LandDeposit(tx)
    <2>1. PICK pair \in tx.listed : repaid' = [repaid EXCEPT ![pair] = @ + tx.amount]
      BY <1>5 DEF LandDeposit
    <2>2. UNCHANGED <<exits, opened_late>>
      BY <1>5 DEF LandDeposit, vars, exit_vars
    <2>3. CASE pair = q
      <3>1. tx \in Deposits(q)
        BY <1>5, <2>3 DEF Deposits, LandDeposit
      <3>2. repaid'[q] = repaid[q] + tx.amount
        BY <2>1, <2>3 DEF OthersOK
      <3>. QED
        BY <1>1, <1>2, <2>2, <3>1, <3>2 DEF Landing
    <2>4. CASE pair # q
      BY <1>3, <2>1, <2>4 DEF OthersOK
    <2>. QED
      BY <2>3, <2>4
  <1>. QED
    BY <1>4, <1>5 DEF Land

\* Every step bears on the deposits for q in one of the four ways.
LEMMA DepositSteps ==
    ASSUME TypeOK, ProgressOK, OthersOK, StepInv, [EmergencyNext]_all_vars,
           NEW q \in Pairs
    PROVE  Starting(q) \/ Submitting(q) \/ Landing(q) \/ Elsewhere(q)
  <1>1. ASSUME NEW ok \in BOOLEAN, SubmitHalt(ok)
        PROVE  Elsewhere(q)
    <2>1. Deposits(q)' \subseteq Deposits(q)
      BY <1>1 DEF SubmitHalt, Sends, HaltTx, Deposits
    <2>2. pc' = "ended" /\ runs' = runs /\ repaid' = repaid
      BY <1>1 DEF SubmitHalt, history_vars
    <2>. QED
      BY <2>1, <2>2 DEF Elsewhere, Underway, ToCome
  <1>2. ASSUME NEW pair \in Pairs, NextExit(pair)
        PROVE  Elsewhere(q)
    <2>1. /\ pc = "next" /\ fetched' = fetched /\ results' = results
          /\ runs' = runs /\ repaid' = repaid /\ sent' = sent
      BY <1>2 DEF NextExit, history_vars
    <2>. QED
      BY <2>1 DEF Elsewhere, Underway, ToCome, Deposits
  <1>3. ASSUME Die
        PROVE  Elsewhere(q)
    BY <1>3 DEF Die, Elsewhere, Underway, ToCome, Deposits, history_vars
  <1>4. ASSUME (\E tx \in sent : Drop(tx)) \/ Beside \/ UNCHANGED all_vars
        PROVE  Elsewhere(q)
    <2>1. /\ UNCHANGED <<progress_vars, runs, repaid>>
          /\ sent' \subseteq sent
      BY <1>4 DEF Drop, Beside, all_vars, command_vars, history_vars
    <2>. QED
      BY <2>1 DEF Elsewhere, Underway, ToCome, Deposits, progress_vars
  <1>. QED
    BY <1>1, <1>2, <1>3, <1>4, StartingStep, StepDeposits, LandDeposits
    DEF EmergencyNext

\* An exit that is open, and was not opened by others since the first fetch,
\* was open before and records no less.
LEMMA TotalGrows ==
    ASSUME TypeOK, ProgressOK, OthersOK, [EmergencyNext]_all_vars, NEW q \in Pairs,
           runs > 0, IsOpen(q)', q \notin opened_late'
    PROVE  /\ IsOpen(q) /\ q \notin opened_late
           /\ Total(q) \in Nat /\ Total(q)' \in Nat /\ Total(q) <= Total(q)'
  <1>1. q \notin opened_late
    BY OpenedLateGrows
  <1>2. EmergencyTypeOK
    BY TypeParts
  <1>3. [Next]_vars /\ TypeOK'
    BY <1>2, StepsRefine, NextType
  <1>4. IsOpen(q)
    <2>1. CASE Beside
      BY <2>1 DEF Beside, IsOpen
    <2>2. ASSUME exits'[q] = exits[q]
          PROVE  IsOpen(q)
      BY <2>2 DEF IsOpen
    <2>3. ASSUME NEW tx \in sent, LandTerminate(tx) \/ LandHalt(tx)
          PROVE  IsOpen(q) \/ exits'[q] = exits[q]
      BY <2>3 DEF LandTerminate, TerminateExit, MayEnd, LandHalt, EmergencyHalt,
                  IsActive, TypeOK
    <2>4. ASSUME NEW tx \in sent, LandDeposit(tx) \/ Drop(tx)
          PROVE  exits' = exits
      BY <2>4 DEF LandDeposit, Drop, vars, exit_vars
    <2>5. ASSUME \/ \E key \in Keys : emergencyHaltAll(key) \/ FetchFails(key)
                 \/ \E pair \in Pairs : NextExit(pair)
                 \/ \E ok \in BOOLEAN : terminateSingleExit(ok) \/ SubmitHalt(ok)
                 \/ Die
                 \/ UNCHANGED all_vars
          PROVE  exits' = exits
      BY <2>5 DEF emergencyHaltAll, FetchFails, Start, NextExit, terminateSingleExit,
                  SubmitHalt, Die, all_vars, vars, exit_vars
    <2>. QED
      BY <2>1, <2>2, <2>3, <2>4, <2>5 DEF EmergencyNext, Land
  <1>5. exits[q] \in DlmmExit /\ Total(q) \in Nat
    BY <1>4, OpenAccount DEF Total, DlmmExit
  <1>6. CASE exits'[q] = exits[q]
    BY <1>1, <1>4, <1>5, <1>6 DEF Total
  <1>7. CASE Booked(q)
    <2>1. PICK amount \in Nat \ {0} : exits'[q] = WithClaim(exits[q], amount)
      BY <1>7 DEF Booked
    <2>2. exits'[q].total_sol_claimed = exits[q].total_sol_claimed + amount
      BY <1>5, <2>1 DEF WithClaim, DlmmExit
    <2>. QED
      BY <1>1, <1>4, <1>5, <2>2 DEF Total
  <1>8. CASE EndedNow(q)
    <2>1. exits'[q].total_sol_claimed = exits[q].total_sol_claimed
      BY <1>5, <1>8, EndedAccount DEF EndedNow, TypeOK
    <2>. QED
      BY <1>1, <1>4, <1>5, <2>1 DEF Total
  <1>. QED
    BY <1>3, <1>4, <1>6, <1>7, <1>8, AccountSteps DEF Opened, Closed, IsOpen

\* Every step keeps it at one deposit per run and exit.
LEMMA OneDepositStep ==
    ASSUME TypeOK, ProgressOK, OthersOK, StepInv, ReachInv, [EmergencyNext]_all_vars,
           NEW q \in Pairs, OneDeposit(q)
    PROVE  OneDeposit(q)'
  <1>1. runs \in Nat /\ \A tx \in Deposits(q) : tx.run \in 1..runs
    BY EmergencyAssumption DEF OthersOK, OneDeposit
  <1>2. CASE Starting(q)
    <2>1. runs' = runs + 1 /\ Deposits(q)' = Deposits(q)
      BY <1>2 DEF Starting
    <2>2. \A tx \in Deposits(q)' : tx.run \in 1..runs' /\ tx.run # runs'
      BY <1>1, <2>1
    <2>. QED
      BY <2>1, <2>2 DEF OneDeposit
  <1>3. CASE Submitting(q)
    <2>1. PICK tx : tx.run = runs /\ Deposits(q)' \subseteq Deposits(q) \cup {tx}
      BY <1>3 DEF Submitting
    <2>2. ToCome(q) /\ ~ToCome(q)' /\ runs' = runs
      BY <1>3 DEF Submitting
    <2>3. runs \in 1..runs
      <3>1. runs > 0
        BY <2>2 DEF ToCome, Underway, ReachInv
      <3>. QED
        BY <1>1, <3>1
    <2>. QED
      BY <1>1, <2>1, <2>2, <2>3 DEF OneDeposit
  <1>4. CASE Landing(q)
    <2>1. Deposits(q)' \subseteq Deposits(q) /\ runs' = runs /\ ToCome(q)' = ToCome(q)
      BY <1>4 DEF Landing, progress_vars, ToCome, Underway
    <2>. QED
      BY <2>1 DEF OneDeposit
  <1>5. CASE Elsewhere(q)
    <2>1. /\ Deposits(q)' \subseteq Deposits(q) /\ runs' = runs
          /\ ToCome(q)' => ToCome(q)
      BY <1>5 DEF Elsewhere
    <2>. QED
      BY <2>1 DEF OneDeposit
  <1>. QED
    BY <1>2, <1>3, <1>4, <1>5, DepositSteps

\* What landed against what the account records.
LEMMA RepaidStep ==
    ASSUME TypeOK, ProgressOK, OthersOK, StepInv, [EmergencyNext]_all_vars,
           NEW q \in Pairs \ opened_late', IsOpen(q)', runs > 0,
           OneDeposit(q), Recorded(q), Repaid(q)
    PROVE  Recorded(q)' /\ Repaid(q)'
  <1>1. /\ Total(q) \in Nat /\ Total(q)' \in Nat /\ Total(q) <= Total(q)'
        /\ runs \in Nat
    BY TotalGrows, EmergencyAssumption DEF OthersOK
  <1>2. \A tx \in Deposits(q) : tx.amount \in Nat /\ tx.run \in 1..runs
    BY DEF Deposits, OthersOK, Transaction, OneDeposit
  <1>3. \A p \in DOMAIN fetched : fetched[p] \in Nat
    BY DEF ProgressOK
  <1>4. repaid[q] \in Nat
    BY DEF OthersOK
  <1>5. PICK landed \in SUBSET (1..runs) :
           /\ repaid[q] <= Cardinality(landed) * Total(q)
           /\ \A tx \in Deposits(q) : tx.run \notin landed
           /\ ToCome(q) => runs \notin landed
    BY DEF Repaid
  <1>6. IsFiniteSet(landed) /\ Cardinality(landed) \in Nat
    <2>1. IsFiniteSet(1..runs)
      BY <1>1, FS_Interval
    <2>. QED
      BY <2>1, FS_Subset, FS_CardinalityType
  <1>7. repaid[q] <= Cardinality(landed) * Total(q)'
    <2>1. Cardinality(landed) * Total(q) <= Cardinality(landed) * Total(q)'
      BY <1>1, <1>6, TimesMonotone
    <2>2. Cardinality(landed) * Total(q) \in Nat /\ Cardinality(landed) * Total(q)' \in Nat
      BY <1>1, <1>6, TimesNat
    <2>. QED
      BY <1>4, <1>5, <2>1, <2>2
  <1>8. CASE Starting(q)
    <2>1. /\ runs' = runs + 1 /\ Deposits(q)' = Deposits(q) /\ repaid'[q] = repaid[q]
          /\ Total(q)' = Total(q)
          /\ Underway' /\ q \in DOMAIN fetched' => fetched'[q] = Total(q)
      BY <1>8 DEF Starting, Total
    <2>2. Recorded(q)'
      BY <1>1, <2>1 DEF Recorded
    <2>3. landed \in SUBSET (1..runs') /\ runs' \notin landed
      BY <1>1, <2>1
    <2>. QED
      BY <1>5, <1>7, <2>1, <2>2, <2>3 DEF Repaid
  <1>9. CASE Submitting(q)
    <2>1. PICK tx : /\ tx.run = runs /\ tx.amount = fetched[q]
                    /\ Deposits(q)' \subseteq Deposits(q) \cup {tx}
      BY <1>9 DEF Submitting
    <2>2. /\ ToCome(q) /\ ~ToCome(q)' /\ runs' = runs /\ repaid'[q] = repaid[q]
          /\ fetched' = fetched /\ Total(q)' = Total(q)
          /\ q \in DOMAIN fetched /\ fetched[q] <= Total(q)
      BY <1>9 DEF Submitting, ToCome, Recorded, Total
    <2>3. Recorded(q)'
      BY <2>1, <2>2 DEF Recorded
    <2>4. \A other \in Deposits(q)' : other.run \notin landed
      BY <1>5, <2>1, <2>2
    <2>. QED
      BY <1>7, <2>2, <2>3, <2>4 DEF Repaid
  <1>10. CASE Landing(q)
    <2>1. PICK tx \in Deposits(q) : /\ Deposits(q)' = Deposits(q) \ {tx}
                                    /\ repaid'[q] = repaid[q] + tx.amount
      BY <1>10 DEF Landing
    <2>2. /\ runs' = runs /\ Total(q)' = Total(q) /\ ToCome(q)' = ToCome(q)
          /\ Underway' = Underway /\ fetched' = fetched
      BY <1>10 DEF Landing, progress_vars, ToCome, Underway, Total
    <2>3. Recorded(q)'
      BY <2>1, <2>2 DEF Recorded
    <2>. DEFINE more == landed \cup {tx.run}
    <2>4. more \in SUBSET (1..runs) /\ tx.run \notin landed
      BY <1>2, <1>5
    <2>5. Cardinality(more) = Cardinality(landed) + 1
      BY <1>6, <2>4, FS_AddElement
    <2>6. repaid'[q] <= Cardinality(more) * Total(q)'
      <3>1. tx.amount <= Total(q) /\ tx.amount \in Nat
        BY <1>2 DEF Recorded
      <3>2. \A a, t \in Nat : (a + 1) * t = a * t + t /\ a * t \in Nat
        OBVIOUS
      <3>3. /\ (Cardinality(landed) + 1) * Total(q) = Cardinality(landed) * Total(q) + Total(q)
            /\ Cardinality(landed) * Total(q) \in Nat
        BY <1>1, <1>6, <3>2
      <3>4. repaid[q] + tx.amount <= Cardinality(landed) * Total(q) + Total(q)
        BY <1>1, <1>4, <1>5, <3>1, <3>3
      <3>. HIDE DEF more
      <3>. QED
        BY <2>1, <2>2, <2>5, <3>3, <3>4
    <2>7. \A other \in Deposits(q)' : other.run \notin more
      BY <1>5, <2>1 DEF OneDeposit
    <2>8. ToCome(q)' => runs' \notin more
      BY <1>5, <2>2 DEF OneDeposit
    <2>. HIDE DEF more
    <2>. QED
      BY <2>2, <2>3, <2>4, <2>6, <2>7, <2>8 DEF Repaid
  <1>11. CASE Elsewhere(q)
    <2>1. /\ Deposits(q)' \subseteq Deposits(q) /\ runs' = runs
          /\ repaid'[q] = repaid[q]
          /\ ToCome(q)' => ToCome(q)
          /\ Underway' /\ q \in DOMAIN fetched' =>
                Underway /\ q \in DOMAIN fetched /\ fetched'[q] = fetched[q]
      BY <1>11 DEF Elsewhere
    <2>2. Recorded(q)'
      <3>1. \A tx \in Deposits(q)' : tx.amount <= Total(q)'
        BY <1>1, <1>2, <2>1 DEF Recorded
      <3>2. Underway' /\ q \in DOMAIN fetched' => fetched'[q] <= Total(q)'
        BY <1>1, <1>3, <2>1 DEF Recorded
      <3>. QED
        BY <3>1, <3>2 DEF Recorded
    <2>3. repaid'[q] <= Cardinality(landed) * Total(q)'
      BY <1>7, <2>1
    <2>4. \A tx \in Deposits(q)' : tx.run \notin landed
      BY <1>5, <2>1
    <2>5. ToCome(q)' => runs' \notin landed
      BY <1>5, <2>1
    <2>6. landed \in SUBSET (1..runs')
      BY <2>1
    <2>. QED
      BY <2>2, <2>3, <2>4, <2>5, <2>6 DEF Repaid
  <1>. QED
    BY <1>8, <1>9, <1>10, <1>11, DepositSteps

\* Before the first run nothing is repaid, and after it each exit keeps its
\* account of what was.
LEMMA RepayInvStep ==
    ASSUME TypeOK, ProgressOK, OthersOK, StepInv, ReachInv, RepayInv,
           [EmergencyNext]_all_vars
    PROVE  RepayInv'
  <1>1. \A q \in Pairs : OneDeposit(q)'
    BY OneDepositStep DEF RepayInv
  <1>2. runs \in Nat /\ runs' \in Nat
    BY OthersStep, EmergencyAssumption DEF OthersOK
  <1>3. CASE runs > 0
    <2>1. runs' > 0
      BY <1>3, OpenedLateGrows
    <2>2. ASSUME NEW q \in Pairs \ opened_late', IsOpen(q)'
          PROVE  Recorded(q)' /\ Repaid(q)'
      <3>1. IsOpen(q) /\ q \in Pairs \ opened_late
        BY <1>3, <2>2, TotalGrows
      <3>2. OneDeposit(q) /\ Recorded(q) /\ Repaid(q)
        BY <3>1 DEF RepayInv
      <3>. QED
        BY <1>3, <2>2, <3>2, RepaidStep
    <2>. QED
      BY <1>1, <1>2, <2>1, <2>2 DEF RepayInv
  <1>4. CASE runs = 0
    <2>1. /\ sent = {} /\ ~Underway /\ \A q \in Pairs : repaid[q] = 0
          /\ \A q \in Pairs : Deposits(q) = {} /\ ~ToCome(q)
      BY <1>4 DEF RepayInv, Deposits, ToCome
    <2>2. \A q \in Pairs : Starting(q) \/ Elsewhere(q)
      BY <2>1, DepositSteps DEF Submitting, Landing
    <2>3. \A q \in Pairs : Deposits(q)' = {} /\ repaid'[q] = 0
      BY <2>1, <2>2 DEF Starting, Elsewhere
    <2>4. ASSUME NEW q \in Pairs \ opened_late', IsOpen(q)'
          PROVE  Recorded(q)' /\ Repaid(q)'
      <3>1. Total(q)' \in Nat
        <4>1. EmergencyTypeOK
          BY TypeParts
        <4>2. exits' \in [Pairs -> DlmmExit \cup {NoExit}]
          BY <4>1, StepsRefine, NextType DEF TypeOK
        <4>. QED
          BY <2>4, <4>2 DEF Total, IsOpen, DlmmExit
      <3>2. Recorded(q)'
        <4>1. CASE Starting(q)
          <5>1. /\ Total(q)' = Total(q)
                /\ Underway' /\ q \in DOMAIN fetched' => fetched'[q] = Total(q)
            BY <4>1 DEF Starting, Total
          <5>. QED
            BY <2>3, <3>1, <5>1 DEF Recorded
        <4>2. CASE Elsewhere(q)
          BY <2>1, <2>3, <4>2 DEF Elsewhere, Recorded
        <4>. QED
          BY <2>2, <4>1, <4>2
      <3>3. Cardinality({}) = 0 /\ 0 * Total(q)' = 0
        BY <3>1, FS_EmptySet
      <3>4. repaid'[q] <= Cardinality({}) * Total(q)'
        BY <2>3, <3>3
      <3>. QED
        BY <2>3, <3>2, <3>4 DEF Repaid
    <2>5. runs' = 0 => sent' = {} /\ ~Underway'
      BY <1>2, ReachInvStep DEF ReachInv, Underway
    <2>. QED
      BY <1>1, <2>3, <2>4, <2>5 DEF RepayInv
  <1>. QED
    BY <1>2, <1>3, <1>4
----------------------------------------------------------------------------
(* Theorems. *)

\* The inductive invariant.
IInv == TypeOK /\ ProgressOK /\ OthersOK /\ StepInv /\ ReachInv /\ RepayInv

\* The invariant holds before the first run ...
LEMMA InitIInv == EmergencyInit => IInv
  <1>. SUFFICES ASSUME EmergencyInit PROVE IInv
    OBVIOUS
  <1>1. TypeOK
    BY InitType DEF EmergencyInit
  <1>2. ReachInv
    BY DEF EmergencyInit, ReachInv, HaltReachesFetched
  <1>3. RepayInv
    <2>1. /\ runs = 0 /\ sent = {} /\ ~Underway /\ opened_late = {}
          /\ \A q \in Pairs : repaid[q] = 0 /\ ~IsOpen(q)
      BY DEF EmergencyInit, Init, Underway, IsOpen
    <2>2. \A q \in Pairs : OneDeposit(q)
      BY <2>1 DEF OneDeposit, Deposits, ToCome
    <2>. QED
      BY <2>1, <2>2 DEF RepayInv
  <1>. QED
    BY <1>1, <1>2, <1>3, InitParts DEF IInv

\* ... is kept by every step ...
LEMMA NextIInv == IInv /\ [EmergencyNext]_all_vars => IInv' /\ [Next]_vars
  <1>. SUFFICES ASSUME IInv, [EmergencyNext]_all_vars
                PROVE  IInv' /\ [Next]_vars
    OBVIOUS
  <1>1. [Next]_vars
    BY StepsRefine, TypeParts DEF IInv
  <1>2. TypeOK'
    BY <1>1, NextType DEF IInv
  <1>. QED
    BY <1>1, <1>2, ProgressStep, OthersStep, ReachInvStep, RepayInvStep DEF IInv

\* ... and so holds for ever.
LEMMA Inductive == EmergencySpec => []IInv
  BY InitIInv, NextIInv, PTL DEF EmergencySpec

\* Whatever the command does, in whatever order its transactions land, the
\* exit accounts keep the rules of DlmmExits, and with them all its theorems.
THEOREM CommandKeepsRules == EmergencySpec => Spec
  <1>1. EmergencyInit => Init
    BY DEF EmergencyInit
  <1>. QED
    BY <1>1, Inductive, NextIInv, PTL DEF EmergencySpec, Spec

\* Even so, an exit that ended never becomes active but by being opened again.
THEOREM EndsAreFinalBesideCommand == EmergencySpec => EndedExitsAreFinal
  BY CommandKeepsRules, EndsAreFinal, PTL

\* The command's state and its transactions always have their types.
THEOREM EmergencyTypes == EmergencySpec => []EmergencyTypeOK
  <1>1. IInv => EmergencyTypeOK
    BY TypeParts DEF IInv
  <1>. QED
    BY <1>1, Inductive, PTL

\* terminateSingleExit tries all six steps of every exit that was fetched,
\* for any number of exits and any choice of the steps that fail.
THEOREM FailuresIsolated == EmergencySpec => []FailuresAreIsolated
  <1>1. IInv => FailuresAreIsolated
    <2>. SUFFICES ASSUME IInv, pc = "ended", NEW pair \in DOMAIN fetched
                  PROVE  results[pair].steps = 6
      BY StepsAreSix DEF FailuresAreIsolated
    <2>1. todo = {} /\ current # pair
      BY DEF IInv, StepInv, ProgressOK
    <2>. QED
      BY <2>1 DEF IInv, StepInv
  <1>. QED
    BY <1>1, Inductive, PTL

\* After the command's halt no exit is active but those opened since its
\* fetch, however many runs were begun, died, or left transactions behind.
THEOREM HaltReaches == EmergencySpec => []HaltReachesFetched
  <1>1. IInv => HaltReachesFetched
    BY DEF IInv, ReachInv
  <1>. QED
    BY <1>1, Inductive, PTL

\* depositRewards repeats what the exit's account records, at most once for
\* each run of the command, for any number of exits and of runs, whichever
\* transactions land, late or never.
THEOREM RepaysAtMost == EmergencySpec => []RepaysRecordedAtMost
  <1>1. IInv => RepaysRecordedAtMost
    <2>. SUFFICES ASSUME IInv, NEW q \in Pairs \ opened_late, IsOpen(q)
                  PROVE  repaid[q] <= runs * Total(q)
      BY DEF RepaysRecordedAtMost, Total
    <2>1. PICK landed \in SUBSET (1..runs) :
             repaid[q] <= Cardinality(landed) * Total(q)
      BY DEF IInv, RepayInv, Repaid
    <2>2. /\ runs \in Nat /\ Total(q) \in Nat /\ repaid[q] \in Nat
      BY OpenAccount, EmergencyAssumption DEF IInv, OthersOK, Total, DlmmExit
    <2>3. Cardinality(landed) \in Nat /\ Cardinality(landed) <= runs
      <3>1. IsFiniteSet(1..runs) /\ Cardinality(1..runs) = runs
        <4>1. 1 \in Int /\ runs \in Int
          BY <2>2
        <4>2. /\ IsFiniteSet(1..runs)
              /\ Cardinality(1..runs) = IF 1 > runs THEN 0 ELSE runs - 1 + 1
          BY <4>1, FS_Interval, Zenon
        <4>. QED
          BY <2>2, <4>2
      <3>2. IsFiniteSet(landed) /\ Cardinality(landed) <= Cardinality(1..runs)
        BY <3>1, FS_Subset
      <3>. QED
        BY <3>1, <3>2, FS_CardinalityType
    <2>4. Cardinality(landed) * Total(q) <= runs * Total(q)
      <3>1. Total(q) * Cardinality(landed) <= Total(q) * runs
        BY <2>2, <2>3, TimesMonotone
      <3>2. \A a, b \in Nat : a * b = b * a
        OBVIOUS
      <3>. QED
        BY <2>2, <2>3, <3>1, <3>2
    <2>5. Cardinality(landed) * Total(q) \in Nat /\ runs * Total(q) \in Nat
      BY <2>2, <2>3, TimesNat
    <2>. QED
      BY <2>1, <2>2, <2>4, <2>5
  <1>. QED
    BY <1>1, Inductive, PTL
=============================================================================
