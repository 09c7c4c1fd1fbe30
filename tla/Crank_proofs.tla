---------------------------- MODULE Crank_proofs ----------------------------
(***************************************************************************)
(* Proofs about Crank, for any number of exits, positions, bundles under   *)
(* way and restarts: what the bundles of an exit do together or not at     *)
(* all, and what a shutdown stops.                                         *)
(***************************************************************************)
EXTENDS Crank, Arith, SequenceTheorems

\* What the accounts hold, and the transactions that bear on one exit.
ExitType ==
    [status : {Active, Completed, Terminated}, total_sol_claimed : Nat,
     last_claimed_amount : Nat]

BookType == [claimed : Nat, deposited : Nat]

ChainType ==
    [exits : [Exits -> ExitType], fees : [Positions -> Nat],
     open : SUBSET Positions, books : [Exits -> BookType]]

TransactionsOf(e) ==
    [op : {"claim", "close"}, on : PositionsOf(e), amount : {0}]
        \cup [op : {"deposit", "record", "complete"}, on : {e}, amount : Nat]

\* The two kinds of bundles that the crank submits for an exit.
Claims(unit, e) ==
    LET n == Len(unit)
    IN  /\ n >= 2
        /\ unit[n] = RecordTx(e, unit[n].amount)
        /\ unit[n - 1] = DepositTx(e, unit[n].amount)
        /\ \A i \in 1..(n - 2) : \E p \in PositionsOf(e) : unit[i] = ClaimTx(p)

Closes(unit, e) ==
    LET n == Len(unit)
    IN  /\ n >= 1 /\ unit[n] = CompleteTx(e)
        /\ \A i \in 1..(n - 1) : \E p \in PositionsOf(e) : unit[i] = CloseTx(p)

\* The positions that its first n transactions close.
ClosedBy(unit, n) == {unit[i].on : i \in {j \in 1..n : unit[j].op = "close"}}
ClosedIn(unit) == ClosedBy(unit, Len(unit))

\* All that is under way for an exit: whole bundles, or what they were torn
\* into; only the last transaction of each changes the exit account.
UnitOf(unit, e) ==
    /\ unit \in Seq(TransactionsOf(e))
    /\ \A i \in 1..(Len(unit) - 1) : unit[i].op \notin {"record", "complete"}
    /\ \/ e \in torn
       \/ Claims(unit, e)
       \/ /\ Closes(unit, e)
          /\ e \in skipped \/ OpenOf(e) \subseteq ClosedIn(unit)

UnitsInv == \A unit \in BagToSet(in_flight) : \E e \in Exits : UnitOf(unit, e)

\* A reading has all the positions of the exit under way that are open still.
SeenInv ==
    seen # NoReading =>
        /\ seen \in [positions : SUBSET PositionsOf(current), totalFeeY : Nat]
        /\ OpenOf(current) \subseteq seen.positions

\* The inductive invariant.
IInv ==
    /\ TypeOK /\ UnitsInv /\ SeenInv
    /\ RecordsMatchDeposits /\ NoExitLeftBehind /\ CompletedExitsAreClosed
----------------------------------------------------------------------------
(* Types. *)

\* Fees of some positions sum to a natural number.
LEMMA SumOverType ==
    ASSUME NEW f \in [Positions -> Nat], NEW S \in SUBSET Positions
    PROVE  SumOver(f, S) \in Nat
  <1>. DEFINE h == [p \in S |-> f[p]]
              Adding(g) == g = [s \in SUBSET S |->
                                  IF s = {} THEN 0
                                  ELSE f[CHOOSE x \in s : TRUE]
                                          + g[s \ {CHOOSE x \in s : TRUE}]]
              sum == CHOOSE g : Adding(g)
  <1>1. IsFiniteSet(S) /\ h \in [S -> Nat] /\ h \in [S -> Int]
    BY CrankAssumption, FS_Subset
  <1>2. SumOver(f, S) = sum[S]
    BY DEF SumOver, SumFunctionOnSet, FoldFunctionOnSet, MapThenFoldSet
  <1>3. \A g : Summing(h, S, g) <=> Adding(g)
    <2>1. \A s \in SUBSET S : s # {} =>
             f[CHOOSE x \in s : TRUE] = h[CHOOSE x \in s : TRUE]
      OBVIOUS
    <2>. HIDE DEF h
    <2>. QED
      BY <2>1 DEF Summing
  <1>. HIDE DEF h, Adding
  <1>4. Adding(sum)
    BY <1>1, <1>3, SummingExists
  <1>. HIDE DEF sum
  <1>5. Sums(h, S, sum)
    BY <1>1, <1>3, <1>4, SummingSums
  <1>6. SumFunction(h) = sum[S]
    BY <1>1, <1>5, SumOfPart
  <1>. QED
    BY <1>1, <1>2, <1>6, SumNat

\* What each kind of transaction says.
LEMMA Fields ==
    /\ \A p : /\ ClaimTx(p).op = "claim" /\ CloseTx(p).op = "close"
              /\ CloseTx(p).on = p /\ CompleteTx(p).op = "complete"
    /\ \A e, amount : /\ DepositTx(e, amount).op = "deposit"
                      /\ DepositTx(e, amount).amount = amount
                      /\ RecordTx(e, amount).op = "record"
                      /\ RecordTx(e, amount).amount = amount
  BY DEF ClaimTx, CloseTx, CompleteTx, DepositTx, RecordTx

\* What bears on one exit is a transaction.
LEMMA SomeTransactions ==
    ASSUME NEW e \in Exits
    PROVE  TransactionsOf(e) \subseteq Transactions
  BY DEF TransactionsOf, Transactions, PositionsOf

\* What a transaction for e writes.
Updated(exit, tx) ==
    IF tx.op = "record"
    THEN [exit EXCEPT !.total_sol_claimed = @ + tx.amount,
                      !.last_claimed_amount = tx.amount]
    ELSE [exit EXCEPT !.status = Completed]

\* ... and what it changes of the accounts.
Wrote(chain, tx, e, new) ==
    /\ new.exits = IF tx.op \in {"record", "complete"}
                   THEN [chain.exits EXCEPT ![e] = Updated(chain.exits[e], tx)]
                   ELSE chain.exits
    /\ new.open = IF tx.op = "close" THEN chain.open \ {tx.on} ELSE chain.open
    /\ \A f \in Exits :
          new.books[f].deposited =
             IF tx.op = "deposit" /\ f = e
             THEN chain.books[f].deposited + tx.amount
             ELSE chain.books[f].deposited

\* That is what Applied does.
LEMMA AppliedWrote ==
    ASSUME NEW e \in Exits, NEW chain \in ChainType, NEW tx \in TransactionsOf(e)
    PROVE  Wrote(chain, tx, e, Applied(chain, tx))
  <1>0. /\ chain.exits \in [Exits -> ExitType] /\ chain.fees \in [Positions -> Nat]
        /\ chain.open \subseteq Positions /\ chain.books \in [Exits -> BookType]
        /\ \A f \in Exits : chain.books[f] \in BookType
    BY DEF ChainType
  <1>1. CASE tx.op = "claim"
    <2>. DEFINE fee == [chain.fees EXCEPT ![tx.on] = 0]
                book == [chain.books[e] EXCEPT !.claimed = @ + chain.fees[tx.on]]
                all == [chain.books EXCEPT ![e] = book]
    <2>1. ExitOf[tx.on] = e
      BY <1>1 DEF TransactionsOf, PositionsOf
    <2>2. Applied(chain, tx) = [chain EXCEPT !.fees = fee, !.books = all]
      BY <1>1, <2>1 DEF Applied, ChainType
    <2>3. \A f \in Exits : all[f].deposited = chain.books[f].deposited
      BY <1>0 DEF BookType
    <2>. HIDE DEF fee, all
    <2>. QED
      BY <1>1, <2>2, <2>3 DEF Wrote, ChainType
  <1>2. CASE tx.op = "close"
    BY <1>0, <1>2 DEF Applied, Wrote, ChainType
  <1>3. CASE tx.op = "deposit"
    <2>. DEFINE book == [chain.books[e] EXCEPT !.deposited = @ + tx.amount]
                all == [chain.books EXCEPT ![e] = book]
    <2>1. tx.on = e
      BY <1>3 DEF TransactionsOf
    <2>2. Applied(chain, tx) = [chain EXCEPT !.books = all]
      BY <1>3, <2>1 DEF Applied, ChainType
    <2>3. \A f \in Exits :
             all[f].deposited = IF f = e THEN chain.books[f].deposited + tx.amount
                                ELSE chain.books[f].deposited
      BY <1>0 DEF BookType
    <2>. HIDE DEF all
    <2>. QED
      BY <1>3, <2>2, <2>3 DEF Wrote, ChainType
  <1>4. CASE tx.op \in {"record", "complete"}
    <2>. DEFINE all == [chain.exits EXCEPT ![e] = Updated(chain.exits[e], tx)]
    <2>1. tx.on = e
      BY <1>4 DEF TransactionsOf
    <2>2. Applied(chain, tx) = [chain EXCEPT !.exits = all]
      <3>1. CASE tx.op = "record"
        BY <1>0, <2>1, <3>1 DEF Applied, ChainType, Updated
      <3>2. CASE tx.op = "complete"
        BY <1>0, <2>1, <3>2 DEF Applied, ChainType, Updated
      <3>. QED
        BY <1>4, <3>1, <3>2
    <2>. HIDE DEF all
    <2>3. /\ Applied(chain, tx).exits = all
          /\ Applied(chain, tx).open = chain.open
          /\ Applied(chain, tx).books = chain.books
      BY <2>2 DEF ChainType
    <2>. QED
      BY <1>4, <2>3 DEF Wrote, all
  <1>. QED
    BY <1>1, <1>2, <1>3, <1>4 DEF TransactionsOf

\* The programs leave the accounts in their types.
LEMMA AppliedType ==
    ASSUME NEW chain \in ChainType, NEW tx \in Transactions
    PROVE  Applied(chain, tx) \in ChainType
  <1>0. /\ chain.exits \in [Exits -> ExitType] /\ chain.fees \in [Positions -> Nat]
        /\ chain.open \subseteq Positions /\ chain.books \in [Exits -> BookType]
    BY DEF ChainType
  <1>1. CASE tx.op = "claim"
    <2>. DEFINE e == ExitOf[tx.on]
                book == [chain.books[e] EXCEPT !.claimed = @ + chain.fees[tx.on]]
                fee == [chain.fees EXCEPT ![tx.on] = 0]
                all == [chain.books EXCEPT ![e] = book]
    <2>1. tx.on \in Positions /\ e \in Exits
      BY <1>1, CrankAssumption DEF Transactions
    <2>2. book \in BookType
      BY <1>0, <2>1 DEF BookType
    <2>3. fee \in [Positions -> Nat] /\ all \in [Exits -> BookType]
      <3>. HIDE DEF book
      <3>. QED
        BY <1>0, <2>2
    <2>4. Applied(chain, tx) = [chain EXCEPT !.fees = fee, !.books = all]
      BY <1>1 DEF Applied, ChainType
    <2>. HIDE DEF fee, all
    <2>. QED
      BY <2>3, <2>4 DEF ChainType
  <1>2. CASE tx.op = "close"
    BY <1>2 DEF Applied, ChainType
  <1>3. CASE tx.op = "deposit"
    <2>. DEFINE book == [chain.books[tx.on] EXCEPT !.deposited = @ + tx.amount]
                all == [chain.books EXCEPT ![tx.on] = book]
    <2>1. tx.on \in Exits /\ tx.amount \in Nat
      BY <1>3 DEF Transactions
    <2>2. book \in BookType
      BY <1>0, <2>1 DEF BookType
    <2>3. all \in [Exits -> BookType]
      <3>. HIDE DEF book
      <3>. QED
        BY <1>0, <2>2
    <2>4. Applied(chain, tx) = [chain EXCEPT !.books = all]
      BY <1>3 DEF Applied, ChainType
    <2>. HIDE DEF all
    <2>. QED
      BY <2>3, <2>4 DEF ChainType
  <1>4. CASE tx.op = "record"
    <2>. DEFINE exit == [chain.exits[tx.on] EXCEPT !.total_sol_claimed = @ + tx.amount,
                                                   !.last_claimed_amount = tx.amount]
                all == [chain.exits EXCEPT ![tx.on] = exit]
    <2>1. tx.on \in Exits /\ tx.amount \in Nat /\ chain.exits[tx.on] \in ExitType
      BY <1>0, <1>4 DEF Transactions
    <2>2. exit \in ExitType
      <3>1. ASSUME NEW old \in ExitType, NEW amount \in Nat
            PROVE  [old EXCEPT !.total_sol_claimed = @ + amount,
                               !.last_claimed_amount = amount] \in ExitType
        <4>1. old.total_sol_claimed + amount \in Nat
          BY DEF ExitType
        <4>. QED
          BY <4>1 DEF ExitType
      <3>. QED
        BY <2>1, <3>1
    <2>3. all \in [Exits -> ExitType]
      <3>. HIDE DEF exit
      <3>. QED
        BY <1>0, <2>2
    <2>4. Applied(chain, tx) = [chain EXCEPT !.exits = all]
      BY <1>0, <1>4, <2>1 DEF Applied, ChainType
    <2>. HIDE DEF all
    <2>. QED
      BY <2>3, <2>4 DEF ChainType
  <1>5. CASE tx.op = "complete"
    <2>. DEFINE exit == [chain.exits[tx.on] EXCEPT !.status = Completed]
                all == [chain.exits EXCEPT ![tx.on] = exit]
    <2>1. tx.on \in Exits /\ chain.exits[tx.on] \in ExitType
      BY <1>0, <1>5 DEF Transactions
    <2>2. exit \in ExitType
      BY <2>1 DEF ExitType
    <2>3. all \in [Exits -> ExitType]
      <3>. HIDE DEF exit
      <3>. QED
        BY <1>0, <2>2
    <2>4. Applied(chain, tx) = [chain EXCEPT !.exits = all]
      BY <1>5 DEF Applied, ChainType
    <2>. HIDE DEF all
    <2>. QED
      BY <2>3, <2>4 DEF ChainType
  <1>. QED
    BY <1>1, <1>2, <1>3, <1>4, <1>5 DEF Transactions
----------------------------------------------------------------------------
(* A unit that lands is a sequence of transactions accepted one after the  *)
(* other.                                                                  *)

\* A run that Executed folds over the transactions, its start and its step.
Runs == [ok : BOOLEAN, chain : ChainType]
Start == [ok |-> TRUE, chain |-> Chain]
RunStep(run, tx) ==
    IF run.ok /\ Accepts(run.chain, tx)
    THEN [run EXCEPT !.chain = Applied(run.chain, tx)]
    ELSE [run EXCEPT !.ok = FALSE]

\* The recursion that Executed unfolds to: g gives the run after the
\* transactions of a set, in ascending order.
Running(unit, g) ==
    g = [s \in SUBSET DOMAIN unit |->
           IF s = {} THEN Start
           ELSE RunStep(g[s \ {Max(s)}], unit[Max(s)])]

\* Its result is what Executed gives.
LEMMA ExecutedUnfolds ==
    ASSUME NEW unit
    PROVE  Executed(unit) = (CHOOSE g : Running(unit, g))[DOMAIN unit]
  BY DEF Executed, FoldLeft, MapThenFoldSet, Running, RunStep, Start

\* A run keeps its type.
LEMMA RunStepType ==
    ASSUME NEW run \in Runs, NEW tx \in Transactions
    PROVE  RunStep(run, tx) \in Runs
  <1>1. Applied(run.chain, tx) \in ChainType
    BY AppliedType DEF Runs
  <1>. QED
    BY <1>1 DEF RunStep, Runs

\* The accounts from one transaction to the next.
Trace(unit, chains) ==
    /\ chains \in [0..Len(unit) -> ChainType]
    /\ chains[0] = Chain
    /\ \A n \in 1..Len(unit) : /\ Accepts(chains[n - 1], unit[n])
                               /\ chains[n] = Applied(chains[n - 1], unit[n])

\* A unit that runs through leaves a trace.
LEMMA TraceExists ==
    ASSUME TypeOK, NEW unit \in Seq(Transactions), Executed(unit).ok
    PROVE  \E chains : Trace(unit, chains) /\ Executed(unit).chain = chains[Len(unit)]
  <1>. DEFINE L == Len(unit)
              S == 1..L
              pick == [s \in SUBSET S |-> Max(s)]
              step == [p \in S \X Runs |-> RunStep(p[2], unit[p[1]])]
  <1>1. DOMAIN unit = S /\ IsFiniteSet(S) /\ L \in Nat
        /\ \A i \in S : unit[i] \in Transactions
    BY FS_Interval
  <1>2. \A s \in SUBSET S : s # {} => Max(s) \in s /\ \A y \in s : Max(s) >= y
    <2>1. SUFFICES ASSUME NEW s \in SUBSET S, s # {}
                   PROVE  Max(s) \in s /\ \A y \in s : Max(s) >= y
      OBVIOUS
    <2>2. s \in SUBSET (0..L)
      OBVIOUS
    <2>3. \E x \in s : \A y \in s : x >= y
      BY <1>1, <2>1, <2>2, LargestExists
    <2>. QED
      BY <2>3 DEF Max
  <1>3. /\ \A s \in SUBSET S : pick[s] = Max(s)
        /\ \A x \in S, v \in Runs : /\ step[<<x, v>>] = RunStep(v, unit[x])
                                    /\ step[<<x, v>>] \in Runs
    BY <1>1, RunStepType
  <1>4. Start \in Runs
    BY DEF Start, Runs, Chain, ChainType, TypeOK, ExitType, BookType
  <1>. HIDE DEF pick, step, L
  <1>5. Foldable(S, pick, Runs, Start, step)
    BY <1>1, <1>2, <1>3, <1>4 DEF Foldable
  <1>6. PICK f : Folds(S, pick, Runs, Start, step, f)
    BY <1>5, FoldExists
  <1>7. Running(unit, f)
    <2>0. /\ f \in [SUBSET S -> Runs] /\ f[{}] = Start
          /\ \A s \in SUBSET S : s # {} => f[s] = step[<<pick[s], f[s \ {pick[s]}]>>]
      BY <1>6 DEF Folds
    <2>1. ASSUME NEW s \in SUBSET S, s # {}
          PROVE  f[s] = RunStep(f[s \ {Max(s)}], unit[Max(s)])
      <3>1. Max(s) \in S /\ f[s \ {Max(s)}] \in Runs
        BY <1>2, <2>0, <2>1
      <3>. QED
        BY <1>3, <2>0, <2>1, <3>1
    <2>. HIDE DEF S
    <2>. QED
      BY <1>1, <2>0, <2>1 DEF Running
  <1>. DEFINE g == CHOOSE h : Running(unit, h)
  <1>8. Running(unit, g) /\ Executed(unit) = g[S]
    BY <1>1, <1>7, ExecutedUnfolds
  <1>. HIDE DEF g
  <1>9. /\ g[{}] = Start
        /\ \A s \in SUBSET S : s # {} => g[s] = RunStep(g[s \ {Max(s)}], unit[Max(s)])
    <2>. HIDE DEF S
    <2>. QED
      BY <1>1, <1>8 DEF Running
  <1>. DEFINE runs == [n \in 0..L |-> g[1..n]]
  <1>10. /\ runs[0] = Start /\ Executed(unit) = runs[L]
         /\ \A n \in 1..L : runs[n] = RunStep(runs[n - 1], unit[n])
    <2>1. 1..0 = {} /\ 0 \in 0..L /\ L \in 0..L
      BY <1>1
    <2>2. ASSUME NEW n \in 1..L
          PROVE  g[1..n] = RunStep(g[1..(n - 1)], unit[n])
      <3>. DEFINE s == 1..n
      <3>1. s \in SUBSET S /\ s # {} /\ n \in s /\ n \in Nat
        <4>1. n \in Nat /\ n >= 1 /\ n <= L
          BY <1>1
        <4>2. n \in s /\ \A x \in s : x \in S
          BY <1>1, <4>1
        <4>. QED
          BY <4>1, <4>2
      <3>2. Max(s) = n
        <4>1. Max(s) \in s /\ \A y \in s : Max(s) >= y
          BY <1>2, <3>1
        <4>. QED
          BY <3>1, <4>1
      <3>3. s \ {n} = 1..(n - 1)
        BY <3>1
      <3>. QED
        BY <1>9, <3>1, <3>2, <3>3
    <2>3. \A n \in 1..L : n \in 0..L /\ n - 1 \in 0..L
      BY <1>1
    <2>. QED
      BY <1>8, <1>9, <2>1, <2>2, <2>3
  <1>. HIDE DEF runs
  <1>11. \A n \in 0..L : runs[n] \in Runs
    <2>. DEFINE N == {n \in Nat : n <= L => runs[n] \in Runs}
    <2>1. 0 \in N
      BY <1>4, <1>10
    <2>2. ASSUME NEW n \in N
          PROVE  n + 1 \in N
      <3>1. SUFFICES ASSUME n + 1 <= L PROVE runs[n + 1] \in Runs
        OBVIOUS
      <3>2. n + 1 \in 1..L /\ (n + 1) - 1 = n /\ runs[n] \in Runs
        BY <1>1, <3>1
      <3>3. runs[n + 1] = RunStep(runs[n], unit[n + 1])
        BY <1>10, <3>2
      <3>. QED
        BY <1>1, <3>2, <3>3, RunStepType
    <2>3. N = Nat
      <3>. HIDE DEF N
      <3>1. N \in SUBSET Nat
        BY DEF N
      <3>. QED
        BY <2>1, <2>2, <3>1, NumberInduction
    <2>. QED
      BY <1>1, <2>3
  <1>12. \A n \in 0..L : runs[n].ok
    <2>. DEFINE N == {n \in Nat : n <= L => runs[L - n].ok}
    <2>1. 0 \in N
      BY <1>1, <1>10
    <2>2. ASSUME NEW n \in N
          PROVE  n + 1 \in N
      <3>1. SUFFICES ASSUME n + 1 <= L PROVE runs[L - (n + 1)].ok
        OBVIOUS
      <3>. DEFINE i == L - n
      <3>2. i \in 1..L /\ i - 1 \in 0..L /\ L - (n + 1) = i - 1 /\ runs[i].ok
        BY <1>1, <3>1
      <3>3. runs[i] = RunStep(runs[i - 1], unit[i]) /\ runs[i - 1] \in Runs
        BY <1>10, <1>11, <3>2
      <3>. HIDE DEF i
      <3>. QED
        BY <3>2, <3>3 DEF RunStep, Runs
    <2>3. N = Nat
      <3>. HIDE DEF N
      <3>1. N \in SUBSET Nat
        BY DEF N
      <3>. QED
        BY <2>1, <2>2, <3>1, NumberInduction
    <2>4. \A n \in 0..L : L - n \in Nat /\ L - n <= L /\ L - (L - n) = n
      BY <1>1
    <2>. QED
      BY <2>3, <2>4
  <1>. DEFINE chains == [n \in 0..L |-> runs[n].chain]
  <1>13. chains \in [0..L -> ChainType] /\ chains[0] = Chain
    BY <1>1, <1>10, <1>11 DEF Runs, Start
  <1>14. ASSUME NEW n \in 1..L
         PROVE  /\ Accepts(chains[n - 1], unit[n])
                /\ chains[n] = Applied(chains[n - 1], unit[n])
    <2>1. n \in 0..L /\ n - 1 \in 0..L
      BY <1>1
    <2>2. /\ runs[n] = RunStep(runs[n - 1], unit[n]) /\ runs[n - 1] \in Runs
          /\ runs[n].ok
      BY <1>10, <1>11, <1>12, <2>1
    <2>3. Accepts(runs[n - 1].chain, unit[n])
      BY <2>2 DEF RunStep, Runs
    <2>4. runs[n].chain = Applied(runs[n - 1].chain, unit[n])
      BY <2>2, <2>3 DEF RunStep, Runs
    <2>. QED
      BY <2>1, <2>3, <2>4
  <1>15. Executed(unit).chain = chains[L]
    BY <1>1, <1>10
  <1>. HIDE DEF chains
  <1>. QED
    BY <1>13, <1>14, <1>15 DEF Trace, L
----------------------------------------------------------------------------
(* What landing does, of a unit whose last transaction alone may change    *)
(* the exit account.                                                       *)

\* After the first n transactions.
Sofar(unit, e, chains, n) ==
    /\ n < Len(unit) => chains[n].exits = exits
    /\ chains[n].open = open \ ClosedBy(unit, n)
    /\ \A f \in Exits :
          f # e \/ (\A i \in 1..n : unit[i].op # "deposit") =>
             chains[n].books[f].deposited = books[f].deposited

\* Each transaction adds its own effect.
LEMMA SofarStep ==
    ASSUME NEW e \in Exits, NEW unit, UnitOf(unit, e), NEW chains, Trace(unit, chains),
           NEW n \in Nat, n + 1 <= Len(unit), Sofar(unit, e, chains, n)
    PROVE  Sofar(unit, e, chains, n + 1)
  <1>. DEFINE i == n + 1
              tx == unit[i]
  <1>1. /\ unit \in Seq(TransactionsOf(e)) /\ Len(unit) \in Nat
        /\ i \in 1..Len(unit) /\ i \in Nat /\ i - 1 = n /\ n \in 0..Len(unit)
    BY DEF UnitOf
  <1>2. /\ chains[n] \in ChainType /\ tx \in TransactionsOf(e)
        /\ chains[i] = Applied(chains[n], tx)
    BY <1>1 DEF Trace
  <1>3. Wrote(chains[n], tx, e, chains[i])
    BY <1>2, AppliedWrote
  <1>. HIDE DEF tx
  <1>4. i < Len(unit) => chains[i].exits = exits
    <2>1. SUFFICES ASSUME i < Len(unit) PROVE chains[i].exits = exits
      OBVIOUS
    <2>2. tx.op \notin {"record", "complete"} /\ n < Len(unit)
      BY <1>1, <2>1 DEF UnitOf, tx
    <2>. QED
      BY <1>3, <2>2 DEF Wrote, Sofar
  <1>5. chains[i].open = open \ ClosedBy(unit, i)
    <2>1. ClosedBy(unit, i) = ClosedBy(unit, n) \cup (IF tx.op = "close" THEN {tx.on} ELSE {})
      <3>1. 1..i = (1..n) \cup {i}
        BY <1>1
      <3>. HIDE DEF i
      <3>. QED
        BY <3>1 DEF ClosedBy, tx
    <2>. QED
      BY <1>3, <2>1 DEF Wrote, Sofar
  <1>6. ASSUME NEW f \in Exits, f # e \/ (\A j \in 1..i : unit[j].op # "deposit")
        PROVE  chains[i].books[f].deposited = books[f].deposited
    <2>1. f # e \/ (\A j \in 1..n : unit[j].op # "deposit")
      BY <1>1, <1>6
    <2>2. f # e \/ tx.op # "deposit"
      BY <1>1, <1>6 DEF tx
    <2>. QED
      BY <1>3, <2>1, <2>2 DEF Wrote, Sofar
  <1>. QED
    BY <1>4, <1>5, <1>6 DEF Sofar

\* So they add up along the unit.
LEMMA SofarAll ==
    ASSUME NEW e \in Exits, NEW unit, UnitOf(unit, e), NEW chains, Trace(unit, chains),
           TypeOK
    PROVE  \A n \in 0..Len(unit) : Sofar(unit, e, chains, n)
  <1>. DEFINE N == {n \in Nat : n <= Len(unit) => Sofar(unit, e, chains, n)}
  <1>0. Len(unit) \in Nat
    BY DEF UnitOf
  <1>1. 0 \in N
    <2>1. chains[0] = Chain /\ 1..0 = {}
      BY DEF Trace
    <2>2. Sofar(unit, e, chains, 0)
      BY <2>1 DEF Sofar, Chain, ClosedBy
    <2>. QED
      BY <2>2
  <1>2. ASSUME NEW n \in N
        PROVE  n + 1 \in N
    <2>1. SUFFICES ASSUME n + 1 <= Len(unit) PROVE Sofar(unit, e, chains, n + 1)
      OBVIOUS
    <2>2. n <= Len(unit)
      BY <1>0, <2>1
    <2>. QED
      BY <2>1, <2>2, SofarStep
  <1>3. N = Nat
    <2>. HIDE DEF N
    <2>1. N \in SUBSET Nat
      BY DEF N
    <2>. QED
      BY <1>1, <1>2, <2>1, NumberInduction
  <1>. QED
    BY <1>0, <1>3

\* What its landing leaves: a bundle of claims deposits and records the same
\* amount, a bundle of closes completes the exit; part of one does not touch
\* the others' accounts either.
Settled(unit, e) == exits' = [exits EXCEPT ![e] = Updated(exits[e], unit[Len(unit)])]

Landed(unit, e) ==
    LET last == unit[Len(unit)]
    IN  /\ open' = open \ ClosedIn(unit) /\ ClosedIn(unit) \subseteq PositionsOf(e)
        /\ \A f \in Exits \ {e} : books'[f].deposited = books[f].deposited
        /\ \/ exits' = exits
           \/ /\ Settled(unit, e)
              /\ exits[e].status = Active
              /\ last.op \in {"record", "complete"}
              /\ last.op = "record" => last.amount \in Nat \ {0}
        /\ Claims(unit, e) =>
              /\ Settled(unit, e) /\ exits[e].status = Active /\ open' = open
              /\ last.amount \in Nat \ {0}
              /\ books'[e].deposited = books[e].deposited + last.amount
        /\ Closes(unit, e) =>
              /\ Settled(unit, e) /\ exits[e].status = Active
              /\ books'[e].deposited = books[e].deposited

\* Every landing leaves that.
LEMMA LandStep ==
    ASSUME TypeOK, NEW e \in Exits, NEW unit, UnitOf(unit, e), Land(unit)
    PROVE  Landed(unit, e)
  <1>. DEFINE L == Len(unit)
              last == unit[L]
  <1>1. /\ unit \in Seq(TransactionsOf(e)) /\ unit \in Seq(Transactions) /\ L \in Nat
        /\ \A i \in 1..L : unit[i] \in TransactionsOf(e)
    <2>1. unit \in Seq(TransactionsOf(e))
      BY DEF UnitOf
    <2>. QED
      BY <2>1, SomeTransactions, SeqMonotonic
  <1>2. PICK chains : Trace(unit, chains) /\ Executed(unit).chain = chains[L]
    BY <1>1, TraceExists DEF Land
  <1>3. /\ exits' = chains[L].exits /\ open' = chains[L].open /\ books' = chains[L].books
    BY <1>2 DEF Land
  <1>4. \A n \in 0..L : Sofar(unit, e, chains, n)
    BY <1>2, SofarAll
  <1>5. \A n \in 1..L : /\ Accepts(chains[n - 1], unit[n])
                        /\ Wrote(chains[n - 1], unit[n], e, chains[n])
    <2>1. SUFFICES ASSUME NEW n \in 1..L
                   PROVE  /\ Accepts(chains[n - 1], unit[n])
                          /\ Wrote(chains[n - 1], unit[n], e, chains[n])
      OBVIOUS
    <2>2. n - 1 \in 0..L
      BY <1>1
    <2>3. chains[n - 1] \in ChainType /\ chains[n] = Applied(chains[n - 1], unit[n])
          /\ Accepts(chains[n - 1], unit[n])
      BY <1>2, <2>2 DEF Trace
    <2>. QED
      BY <1>1, <2>3, AppliedWrote
  <1>6. open' = open \ ClosedIn(unit) /\ ClosedIn(unit) \subseteq PositionsOf(e)
    <2>1. open' = open \ ClosedIn(unit)
      BY <1>1, <1>3, <1>4 DEF Sofar, ClosedIn
    <2>2. ClosedIn(unit) \subseteq PositionsOf(e)
      BY <1>1 DEF ClosedIn, ClosedBy, TransactionsOf
    <2>. QED
      BY <2>1, <2>2
  <1>7. \A f \in Exits \ {e} : books'[f].deposited = books[f].deposited
    BY <1>1, <1>3, <1>4 DEF Sofar
  <1>8. CASE L = 0
    <2>1. exits' = exits
      BY <1>2, <1>3, <1>8 DEF Trace, Chain
    <2>2. ~Claims(unit, e) /\ ~Closes(unit, e)
      BY <1>8 DEF Claims, Closes
    <2>. QED
      BY <1>6, <1>7, <2>1, <2>2 DEF Landed
  <1>9. CASE L > 0
    <2>1. L \in 1..L /\ L - 1 \in 0..L /\ L - 1 < L
      BY <1>1, <1>9
    <2>2. /\ chains[L - 1].exits = exits /\ Accepts(chains[L - 1], last)
          /\ Wrote(chains[L - 1], last, e, chains[L]) /\ last \in TransactionsOf(e)
      BY <1>1, <1>4, <1>5, <2>1 DEF Sofar
    <2>. HIDE DEF last, L
    <2>3. \/ exits' = exits /\ last.op \notin {"record", "complete"}
          \/ /\ Settled(unit, e) /\ exits[e].status = Active
             /\ last.op \in {"record", "complete"}
             /\ last.op = "record" => last.amount \in Nat \ {0}
      <3>1. CASE last.op \in {"record", "complete"}
        <4>1. last.on = e /\ last.amount \in Nat
          BY <2>2, <3>1 DEF TransactionsOf
        <4>2. exits[e].status = Active /\ (last.op = "record" => last.amount > 0)
          BY <2>2, <3>1, <4>1 DEF Accepts
        <4>3. Settled(unit, e)
          BY <1>3, <2>2, <3>1 DEF Wrote, Settled, last, L
        <4>. QED
          BY <3>1, <4>1, <4>2, <4>3
      <3>2. CASE last.op \notin {"record", "complete"}
        BY <1>3, <2>2, <3>2 DEF Wrote
      <3>. QED
        BY <3>1, <3>2
    <2>4. ASSUME Claims(unit, e)
          PROVE  /\ Settled(unit, e) /\ exits[e].status = Active /\ open' = open
                 /\ last.amount \in Nat \ {0}
                 /\ books'[e].deposited = books[e].deposited + last.amount
      <3>1. /\ L >= 2 /\ last = RecordTx(e, last.amount)
            /\ unit[L - 1] = DepositTx(e, last.amount)
            /\ \A i \in 1..(L - 2) : \E p \in PositionsOf(e) : unit[i] = ClaimTx(p)
        BY <2>4 DEF Claims, last, L
      <3>2. last.op = "record"
        BY <3>1, Fields
      <3>3. L - 2 \in 0..L /\ L - 1 \in 1..L /\ (L - 1) - 1 = L - 2
        BY <1>1, <3>1 DEF L
      <3>4. chains[L - 2].books[e].deposited = books[e].deposited
        <4>1. \A i \in 1..(L - 2) : unit[i].op # "deposit"
          BY <3>1, Fields
        <4>. QED
          BY <1>4, <3>3, <4>1 DEF Sofar
      <3>5. chains[L - 1].books[e].deposited = books[e].deposited + last.amount
        <4>1. Wrote(chains[L - 2], unit[L - 1], e, chains[L - 1])
          BY <1>5, <3>3
        <4>2. unit[L - 1].op = "deposit" /\ unit[L - 1].amount = last.amount
          BY <3>1, Fields
        <4>. QED
          BY <3>4, <4>1, <4>2 DEF Wrote
      <3>6. books'[e].deposited = books[e].deposited + last.amount
        BY <1>3, <2>2, <3>2, <3>5 DEF Wrote
      <3>7. ClosedIn(unit) = {}
        <4>1. \A i \in 1..L : i \in 1..(L - 2) \/ i = L - 1 \/ i = L
          BY <1>1, <3>1 DEF L
        <4>2. \A i \in 1..L : unit[i].op # "close"
          BY <3>1, <3>2, <4>1, Fields DEF last
        <4>. QED
          BY <4>2 DEF ClosedIn, ClosedBy, L
      <3>. QED
        BY <1>6, <2>3, <3>2, <3>6, <3>7
    <2>5. ASSUME Closes(unit, e)
          PROVE  /\ Settled(unit, e) /\ exits[e].status = Active
                 /\ books'[e].deposited = books[e].deposited
      <3>1. /\ last = CompleteTx(e)
            /\ \A i \in 1..(L - 1) : \E p \in PositionsOf(e) : unit[i] = CloseTx(p)
        BY <2>5 DEF Closes, last, L
      <3>2. last.op = "complete" /\ \A i \in 1..(L - 1) : unit[i].op # "deposit"
        BY <3>1, Fields
      <3>3. \A i \in 1..L : unit[i].op # "deposit"
        BY <1>1, <3>2 DEF last, L
      <3>4. books'[e].deposited = books[e].deposited
        BY <1>3, <1>4, <2>1, <3>3 DEF Sofar
      <3>. QED
        BY <2>3, <3>2, <3>4
    <2>. QED
      BY <1>6, <1>7, <2>3, <2>4, <2>5 DEF Landed, last, L
  <1>. QED
    BY <1>1, <1>8, <1>9
----------------------------------------------------------------------------
(* What is submitted.                                                      *)

\* A set is made a sequence of all its elements.
LEMMA SequenceOfSet ==
    ASSUME NEW S, IsFiniteSet(S)
    PROVE  /\ SetToSeq(S) \in Seq(S)
           /\ \A x \in S : \E i \in 1..Len(SetToSeq(S)) : SetToSeq(S)[i] = x
  <1>. DEFINE n == Cardinality(S)
              s == SetToSeq(S)
  <1>1. n \in Nat /\ ExistsBijection(1..n, S)
    BY FS_CardinalityType
  <1>2. \E f \in [1..n -> S] : IsInjective(f)
    BY <1>1 DEF ExistsBijection, Bijection, Injection
  <1>3. s \in [1..n -> S] /\ IsInjective(s)
    BY <1>2 DEF SetToSeq
  <1>4. IsFiniteSet(1..n) /\ Cardinality(1..n) = n
    BY <1>1, FS_Interval
  <1>. HIDE DEF n, s
  <1>5. s \in Injection(1..n, S)
    BY <1>3 DEF Injection
  <1>6. s \in Surjection(1..n, S)
    BY <1>4, <1>5, FS_Injection DEF n
  <1>7. s \in Seq(S) /\ Len(s) = n
    BY <1>1, <1>3
  <1>. QED
    BY <1>6, <1>7 DEF Surjection, s

\* What the crank submits for e: only its last transaction changes the account.
WholeOf(txs, e) ==
    /\ txs \in Seq(TransactionsOf(e)) /\ Len(txs) > 0
    /\ \A i \in 1..(Len(txs) - 1) : txs[i].op \notin {"record", "complete"}

\* A claim of built positions is a bundle of claims ...
LEMMA ClaimsAreWhole ==
    ASSUME NEW e \in Exits, NEW built \in SUBSET PositionsOf(e), NEW amount \in Nat
    PROVE  LET txs == SetToSeq({ClaimTx(p) : p \in built}) \o Bookings(e, amount)
           IN  WholeOf(txs, e) /\ Claims(txs, e)
  <1>. DEFINE S == {ClaimTx(p) : p \in built}
              s == SetToSeq(S)
              b == Bookings(e, amount)
              txs == s \o b
              T == TransactionsOf(e)
  <1>1. IsFiniteSet(S)
    <2>. DEFINE f == [p \in built |-> ClaimTx(p)]
    <2>1. IsFiniteSet(built)
      BY CrankAssumption, FS_Subset DEF PositionsOf
    <2>2. f \in Surjection(built, S)
      BY DEF Surjection
    <2>. HIDE DEF f
    <2>. QED
      BY <2>1, <2>2, FS_Surjection
  <1>2. S \subseteq T /\ \A tx \in S : \E p \in PositionsOf(e) : tx = ClaimTx(p)
    BY DEF ClaimTx, TransactionsOf
  <1>3. s \in Seq(S) /\ s \in Seq(T)
    <2>1. s \in Seq(S)
      BY <1>1, SequenceOfSet
    <2>. QED
      BY <1>2, <2>1, SeqMonotonic
  <1>4. /\ b \in Seq(T) /\ Len(b) = 2 /\ b[1] = DepositTx(e, amount)
        /\ b[2] = RecordTx(e, amount)
    BY DEF Bookings, DepositTx, RecordTx, TransactionsOf
  <1>. HIDE DEF S, s, b, T
  <1>5. /\ txs \in Seq(T) /\ Len(txs) = Len(s) + 2 /\ Len(s) \in Nat
        /\ \A i \in 1..(Len(s) + 2) :
              txs[i] = IF i <= Len(s) THEN s[i] ELSE b[i - Len(s)]
    <2>1. Len(s) \in Nat
      BY <1>3
    <2>2. /\ s \o b \in Seq(T) /\ Len(s \o b) = Len(s) + Len(b)
          /\ \A i \in 1..(Len(s) + Len(b)) :
                (s \o b)[i] = IF i <= Len(s) THEN s[i] ELSE b[i - Len(s)]
      <3>1. b \in Seq(T)
        BY <1>4
      <3>. QED
        BY <1>3, <3>1, ConcatProperties, Zenon
    <2>. QED
      BY <1>4, <2>1, <2>2
  <1>. HIDE DEF txs
  <1>6. /\ txs[Len(s) + 1] = DepositTx(e, amount)
        /\ txs[Len(s) + 2] = RecordTx(e, amount)
    BY <1>4, <1>5
  <1>7. \A i \in 1..Len(s) : \E p \in PositionsOf(e) : txs[i] = ClaimTx(p)
    BY <1>2, <1>3, <1>5
  <1>8. Claims(txs, e)
    BY <1>5, <1>6, <1>7, Fields DEF Claims
  <1>9. \A i \in 1..(Len(txs) - 1) : txs[i].op \notin {"record", "complete"}
    <2>1. \A i \in 1..(Len(txs) - 1) : i \in 1..Len(s) \/ i = Len(s) + 1
      BY <1>5
    <2>. QED
      BY <1>6, <1>7, <2>1, Fields
  <1>. QED
    BY <1>5, <1>8, <1>9 DEF WholeOf, txs, s, S, b, T

\* ... and a closing one of closes, which closes all that was built.
LEMMA ClosesAreWhole ==
    ASSUME NEW e \in Exits, NEW built \in SUBSET PositionsOf(e)
    PROVE  LET txs == Closings(e, built)
           IN  WholeOf(txs, e) /\ Closes(txs, e) /\ built \subseteq ClosedIn(txs)
  <1>. DEFINE S == {CloseTx(p) : p \in built}
              s == SetToSeq(S)
              last == CompleteTx(e)
              txs == Append(s, last)
              T == TransactionsOf(e)
  <1>1. IsFiniteSet(S)
    <2>. DEFINE f == [p \in built |-> CloseTx(p)]
    <2>1. IsFiniteSet(built)
      BY CrankAssumption, FS_Subset DEF PositionsOf
    <2>2. f \in Surjection(built, S)
      BY DEF Surjection
    <2>. HIDE DEF f
    <2>. QED
      BY <2>1, <2>2, FS_Surjection
  <1>2. /\ S \subseteq T /\ \A tx \in S : \E p \in PositionsOf(e) : tx = CloseTx(p)
        /\ last \in T
    BY DEF CloseTx, CompleteTx, TransactionsOf
  <1>3. s \in Seq(S) /\ s \in Seq(T) /\ \A x \in S : \E i \in 1..Len(s) : s[i] = x
    <2>1. s \in Seq(S) /\ \A x \in S : \E i \in 1..Len(s) : s[i] = x
      BY <1>1, SequenceOfSet
    <2>. QED
      BY <1>2, <2>1, SeqMonotonic
  <1>4. \A p \in built : CloseTx(p) \in S
    OBVIOUS
  <1>. HIDE DEF S, s, last, T
  <1>5. /\ txs \in Seq(T) /\ Len(txs) = Len(s) + 1 /\ Len(s) \in Nat
        /\ \A i \in 1..Len(s) : txs[i] = s[i]
        /\ txs[Len(s) + 1] = last
    BY <1>2, <1>3, AppendProperties
  <1>6. txs = Closings(e, built)
    BY DEF Closings, s, S, last
  <1>. HIDE DEF txs
  <1>7. \A i \in 1..Len(s) : \E p \in PositionsOf(e) : txs[i] = CloseTx(p)
    BY <1>2, <1>3, <1>5
  <1>8. Closes(txs, e)
    BY <1>5, <1>7 DEF Closes, last
  <1>9. \A i \in 1..(Len(txs) - 1) : txs[i].op \notin {"record", "complete"}
    BY <1>5, <1>7, Fields
  <1>10. ASSUME NEW p \in built
         PROVE  p \in ClosedIn(txs)
    <2>1. PICK i \in 1..Len(s) : txs[i] = CloseTx(p)
      BY <1>3, <1>4, <1>5
    <2>2. i \in 1..Len(txs) /\ txs[i].op = "close" /\ txs[i].on = p
      BY <1>5, <2>1, Fields
    <2>. QED
      BY <2>2 DEF ClosedIn, ClosedBy
  <1>. QED
    BY <1>5, <1>6, <1>8, <1>9, <1>10 DEF WholeOf, T

\* A chunk of such a sequence, or one of its transactions, is a part of it; if
\* it is one chunk, there is no other.
LEMMA ChunksAreParts ==
    ASSUME NEW e \in Exits, NEW txs, WholeOf(txs, e), NEW chunk \in Chunks(txs)
    PROVE  /\ chunk \in Seq(TransactionsOf(e))
           /\ \A i \in 1..(Len(chunk) - 1) : chunk[i].op \notin {"record", "complete"}
           /\ chunk = txs => Chunks(txs) = {txs}
  <1>. DEFINE M == MAX_OPS_PER_BUNDLE
              n == Len(txs)
              last(i) == Min({i + M - 1, n})
              T == TransactionsOf(e)
  <1>1. /\ M \in Nat \ {0} /\ n \in Nat \ {0} /\ DOMAIN txs = 1..n /\ txs \in Seq(T)
        /\ \A i \in 1..n : txs[i] \in T
    BY CrankAssumption DEF WholeOf
  <1>2. \A i \in 1..n : /\ last(i) \in Nat /\ last(i) <= n /\ last(i) <= i + M - 1
                        /\ last(i) \in {i + M - 1, n} /\ i <= last(i)
    <2>1. SUFFICES ASSUME NEW i \in 1..n
                   PROVE  last(i) \in {i + M - 1, n} /\ \A x \in {i + M - 1, n} : last(i) <= x
      BY <1>1
    <2>2. i + M - 1 \in Nat
      BY <1>1
    <2>. DEFINE B == {i + M - 1, n}
    <2>3. \E x \in B : \A y \in B : x <= y
      BY <1>1, <2>2
    <2>. HIDE DEF B
    <2>4. Min(B) \in B /\ \A y \in B : Min(B) <= y
      BY <2>3 DEF Min
    <2>. QED
      BY <2>4 DEF B
  <1>. HIDE DEF last
  <1>3. \A c : c \in Chunks(txs) <=>
                  \E i \in 1..n : (i - 1) % M = 0 /\ c = SubSeq(txs, i, last(i))
    BY <1>1 DEF Chunks, last
  <1>4. PICK i \in 1..n : (i - 1) % M = 0 /\ chunk = SubSeq(txs, i, last(i))
    BY <1>3
  <1>5. /\ chunk \in Seq(T) /\ Len(chunk) = last(i) - i + 1
        /\ \A k \in 1..(last(i) - i + 1) : chunk[k] = txs[i + k - 1]
    <2>1. i \in Int /\ last(i) \in Int /\ i <= last(i)
      BY <1>2
    <2>2. \A k \in i..last(i) : txs[k] \in T
      BY <1>1, <1>2
    <2>. HIDE DEF T
    <2>. QED
      BY <1>4, <2>1, <2>2, SubSeqProperties
  <1>6. ASSUME NEW k \in 1..(Len(chunk) - 1)
        PROVE  chunk[k].op \notin {"record", "complete"}
    <2>1. /\ chunk[k] = txs[i + k - 1] /\ i + k - 1 \in 1..(n - 1)
      BY <1>1, <1>2, <1>5
    <2>. QED
      BY <2>1 DEF WholeOf
  <1>7. ASSUME chunk = txs
        PROVE  Chunks(txs) = {txs}
    <2>1. i = 1 /\ last(i) = n /\ n <= M
      <3>1. last(i) - i + 1 = n
        BY <1>5, <1>7
      <3>2. i \in Nat /\ i >= 1 /\ last(i) \in Nat /\ last(i) <= n /\ last(i) <= i + M - 1
        BY <1>2
      <3>. QED
        BY <1>1, <3>1, <3>2
    <2>2. \A j \in 1..n : (j - 1) % M = 0 => j = 1
      <3>1. SUFFICES ASSUME NEW j \in 1..n, (j - 1) % M = 0 PROVE j = 1
        OBVIOUS
      <3>2. j - 1 \in Nat /\ j - 1 < M
        BY <1>1, <2>1
      <3>. QED
        BY <1>1, <3>1, <3>2
    <2>3. \A c \in Chunks(txs) : c = txs
      BY <1>3, <1>4, <1>7, <2>1, <2>2
    <2>. QED
      BY <1>7, <2>3
  <1>. QED
    BY <1>5, <1>6, <1>7

\* In flight after it is what was, and the sequence whole or parts of it.
Part(unit, e) ==
    /\ unit \in Seq(TransactionsOf(e))
    /\ \A i \in 1..(Len(unit) - 1) : unit[i].op \notin {"record", "complete"}

\* Jito's answer decides only how the sequence travels.
LEMMA SubmissionStep ==
    ASSUME NEW e \in Exits, NEW txs, WholeOf(txs, e), submitWithJitoFallback(e, txs)
    PROVE  /\ torn' = torn \/ torn' = torn \cup {e}
           /\ \A unit \in BagToSet(in_flight') :
                 \/ unit \in BagToSet(in_flight)
                 \/ Part(unit, e) /\ (unit = txs \/ e \in torn')
  <1>. DEFINE singles(bundles) ==
                 {<<tx>> : tx \in UNION {Range(chunk) : chunk \in Chunks(txs) \ bundles}}
  <1>0. PICK bundles \in SUBSET Chunks(txs) :
           \E taken \in SUBSET singles(bundles) :
              /\ in_flight' = in_flight (+) SetToBag(bundles \cup taken)
              /\ torn' = IF bundles = {txs} THEN torn ELSE torn \cup {e}
    BY DEF submitWithJitoFallback
  <1>1. PICK taken \in SUBSET singles(bundles) :
           /\ in_flight' = in_flight (+) SetToBag(bundles \cup taken)
           /\ torn' = IF bundles = {txs} THEN torn ELSE torn \cup {e}
    BY <1>0
  <1>2. \A unit \in BagToSet(in_flight') :
           unit \in BagToSet(in_flight) \/ unit \in bundles \/ unit \in taken
    BY <1>1 DEF BagToSet, SetToBag, (+)
  <1>3. \A unit \in bundles : Part(unit, e)
    BY ChunksAreParts DEF Part
  <1>4. ASSUME NEW unit \in taken
        PROVE  Part(unit, e)
    <2>1. PICK chunk \in Chunks(txs) : \E x \in Range(chunk) : unit = <<x>>
      BY <1>1
    <2>2. PICK tx \in Range(chunk) : unit = <<tx>>
      BY <2>1
    <2>3. tx \in TransactionsOf(e)
      <3>1. chunk \in Seq(TransactionsOf(e))
        BY ChunksAreParts
      <3>. QED
        BY <3>1, RangeOfSeq
    <2>. DEFINE T == TransactionsOf(e)
    <2>4. unit \in Seq(T) /\ Len(unit) = 1
      <3>. HIDE DEF T
      <3>1. tx \in T
        BY <2>3 DEF T
      <3>. QED
        BY <2>2, <3>1
    <2>. QED
      BY <2>4 DEF Part
  <1>5. CASE bundles = {txs}
    <2>1. Chunks(txs) = {txs}
      BY <1>5, ChunksAreParts
    <2>2. taken = {}
      BY <1>1, <1>5, <2>1
    <2>. QED
      BY <1>1, <1>2, <1>3, <1>5, <2>2
  <1>6. CASE bundles # {txs}
    BY <1>1, <1>2, <1>3, <1>4, <1>6
  <1>. QED
    BY <1>5, <1>6
----------------------------------------------------------------------------
(* The steps, by what they do to the accounts and to what is under way.    *)

\* What the service submits for e.
Submits(e) ==
    /\ current = e /\ e \in Exits
    /\ UNCHANGED <<exits, open, books>>
    /\ torn' = torn \/ torn' = torn \cup {e}
    /\ skipped \subseteq skipped' \cup torn' /\ skipped' \subseteq skipped \cup {e}
    /\ \A unit \in BagToSet(in_flight') :
          unit \in BagToSet(in_flight) \/ UnitOf(unit, e)'

\* What neither submits nor changes more than fees.
Quiet ==
    /\ UNCHANGED <<exits, open, torn, skipped>>
    /\ \A e \in Exits : books'[e].deposited = books[e].deposited
    /\ BagToSet(in_flight') \subseteq BagToSet(in_flight)

\* A bundle of claims or closes is what is submitted for an exit.
LEMMA ClaimSubmits ==
    ASSUME TypeOK, SeenInv, pc = "claim", NEW built \in SUBSET seen.positions,
           SubmitClaim(built), NEW e \in Exits, current = e
    PROVE  Submits(e)
  <1>. DEFINE txs == SetToSeq({ClaimTx(p) : p \in built})
                        \o Bookings(e, seen.totalFeeY)
  <1>1. seen # NoReading
    BY DEF TypeOK
  <1>2. built \in SUBSET PositionsOf(e) /\ seen.totalFeeY \in Nat
    BY <1>1 DEF SeenInv
  <1>3. WholeOf(txs, e) /\ Claims(txs, e)
    BY <1>1, <1>2, ClaimsAreWhole
  <1>4. submitWithJitoFallback(e, txs)
    BY DEF SubmitClaim
  <1>. HIDE DEF txs
  <1>5. /\ torn' = torn \/ torn' = torn \cup {e}
        /\ \A unit \in BagToSet(in_flight') :
              \/ unit \in BagToSet(in_flight)
              \/ Part(unit, e) /\ (unit = txs \/ e \in torn')
    BY <1>1, <1>3, <1>4, SubmissionStep
  <1>6. ASSUME NEW unit, Part(unit, e), unit = txs \/ e \in torn'
        PROVE  UnitOf(unit, e)'
    BY <1>3, <1>6 DEF UnitOf, Part, SubmitClaim
  <1>. QED
    BY <1>1, <1>5, <1>6 DEF Submits, SubmitClaim, chain_vars, account_vars

\* So it is for the positions built of an exit to be completed: the closes that
\* are left out are remembered, unless the bundle closes all that is open.
LEMMA CloseSubmits ==
    ASSUME TypeOK, SeenInv, pc = "close", NEW built \in SUBSET seen.positions,
           CloseAndComplete(built), NEW e \in Exits, current = e
    PROVE  Submits(e)
  <1>. DEFINE txs == Closings(e, built)
  <1>1. seen # NoReading
    BY DEF TypeOK
  <1>2. built \in SUBSET PositionsOf(e) /\ OpenOf(e) \subseteq seen.positions
    BY <1>1 DEF SeenInv
  <1>3. WholeOf(txs, e) /\ Closes(txs, e) /\ built \subseteq ClosedIn(txs)
    BY <1>1, <1>2, ClosesAreWhole
  <1>4. submitWithJitoFallback(e, txs)
    BY DEF CloseAndComplete
  <1>5. skipped' = (IF built = seen.positions THEN skipped
                    ELSE skipped \cup {e}) \ torn'
    BY DEF CloseAndComplete
  <1>6. UNCHANGED <<exits, open, books>>
    BY DEF CloseAndComplete, chain_vars, account_vars
  <1>. HIDE DEF txs
  <1>7. /\ torn' = torn \/ torn' = torn \cup {e}
        /\ \A unit \in BagToSet(in_flight') :
              \/ unit \in BagToSet(in_flight)
              \/ Part(unit, e) /\ (unit = txs \/ e \in torn')
    BY <1>1, <1>3, <1>4, SubmissionStep
  <1>8. \/ e \in torn' \/ e \in skipped'
        \/ OpenOf(e) \subseteq ClosedIn(txs)
    BY <1>2, <1>3, <1>5
  <1>9. ASSUME NEW unit, Part(unit, e), unit = txs \/ e \in torn'
        PROVE  UnitOf(unit, e)'
    BY <1>3, <1>6, <1>8, <1>9 DEF UnitOf, Part, OpenOf
  <1>. QED
    BY <1>1, <1>5, <1>6, <1>7, <1>9 DEF Submits

\* What is taken out of a bag was in it.
LEMMA TakenOut ==
    ASSUME NEW bag, NEW other
    PROVE  BagToSet(bag (-) other) \subseteq BagToSet(bag)
  BY DEF BagToSet, (-)

\* Every step is a landing, a submission, an owner's termination, or quiet.
LEMMA Steps ==
    ASSUME TypeOK, SeenInv, [Next]_vars
    PROVE  \/ \E unit \in BagToSet(in_flight) : Land(unit)
           \/ \E e \in Exits : Submits(e)
           \/ \E e \in Exits : OwnerTerminates(e)
           \/ Quiet
  <1>1. CASE \E unit \in BagToSet(in_flight) : Land(unit)
    BY <1>1
  <1>2. ASSUME NEW unit \in BagToSet(in_flight), Drop(unit)
        PROVE  Quiet
    <2>1. BagToSet(in_flight') \subseteq BagToSet(in_flight)
      BY <1>2, TakenOut DEF Drop
    <2>. QED
      BY <1>2, <2>1 DEF Drop, Quiet, chain_vars, account_vars, history_vars
  <1>3. CASE \E e \in Exits : OwnerTerminates(e)
    BY <1>3
  <1>4. ASSUME NEW p \in Positions, Accrue(p) \/ Fill(p)
        PROVE  Quiet
    BY <1>4 DEF Accrue, Fill, Quiet, account_vars, history_vars
  <1>5. CASE PoolChanges
    BY <1>5 DEF PoolChanges, Quiet, account_vars, history_vars
  <1>6. CASE RequestShutdown \/ Crash
    BY <1>6 DEF RequestShutdown, Crash, Quiet, chain_vars, account_vars, history_vars
  <1>7. CASE FetchActiveExits \/ FetchFails \/ EndCycle \/ Sleep
    BY <1>7 DEF FetchActiveExits, FetchFails, EndCycle, Sleep, Quiet, chain_vars,
                account_vars, history_vars
  <1>8. CASE monitorPosition \/ NoPositions \/ Throw
    BY <1>8 DEF monitorPosition, NoPositions, Throw, Quiet, chain_vars,
                account_vars, history_vars
  <1>9. ASSUME NEW e \in Exits, NextExit(e)
        PROVE  Quiet
    BY <1>9 DEF NextExit, Quiet, chain_vars, account_vars, history_vars
  <1>10. ASSUME NEW price, CheckDust(price)
         PROVE  Quiet
    BY <1>10 DEF CheckDust, Quiet, chain_vars, account_vars, history_vars
  <1>11. ASSUME pc = "claim", NEW built \in SUBSET seen.positions, SubmitClaim(built)
         PROVE  \E e \in Exits : Submits(e)
    <2>1. PICK e \in Exits : current = e
      BY <1>11 DEF TypeOK
    <2>. QED
      BY <1>11, <2>1, ClaimSubmits
  <1>12. ASSUME pc = "close", NEW built \in SUBSET seen.positions, CloseAndComplete(built)
         PROVE  \E e \in Exits : Submits(e)
    <2>1. PICK e \in Exits : current = e
      BY <1>12 DEF TypeOK
    <2>. QED
      BY <1>12, <2>1, CloseSubmits
  <1>13. CASE UNCHANGED vars
    BY <1>13 DEF vars, Quiet, chain_vars, account_vars, history_vars
  <1>14. CASE LoopStep
    BY <1>7, <1>8, <1>9, <1>10, <1>11, <1>12, <1>14 DEF LoopStep
  <1>15. CASE Deliver
    BY <1>1, <1>2, <1>15 DEF Deliver
  <1>16. CASE Environment
    BY <1>3, <1>4, <1>5, <1>16 DEF Environment
  <1>. QED
    BY <1>6, <1>13, <1>14, <1>15, <1>16 DEF Next

\* What is under way for an exit stays so while positions only close and the
\* exit is only torn or skipped more.
LEMMA UnitStays ==
    ASSUME NEW e \in Exits, NEW unit, UnitOf(unit, e), torn \subseteq torn',
           skipped \subseteq skipped' \cup torn', open' \subseteq open
    PROVE  UnitOf(unit, e)'
  BY DEF UnitOf, OpenOf

\* No step puts anything else under way.
LEMMA UnitsStep ==
    ASSUME TypeOK, UnitsInv, SeenInv, [Next]_vars
    PROVE  UnitsInv'
  <1>1. ASSUME torn \subseteq torn', skipped \subseteq skipped' \cup torn',
               open' \subseteq open,
               \A unit \in BagToSet(in_flight') :
                  \/ unit \in BagToSet(in_flight)
                  \/ \E e \in Exits : UnitOf(unit, e)'
        PROVE  UnitsInv'
    <2>1. ASSUME NEW unit \in BagToSet(in_flight')
          PROVE  \E e \in Exits : UnitOf(unit, e)'
      <3>1. CASE unit \in BagToSet(in_flight)
        <4>1. PICK e \in Exits : UnitOf(unit, e)
          BY <3>1 DEF UnitsInv
        <4>. QED
          BY <1>1, <4>1, UnitStays
      <3>. QED
        BY <1>1, <2>1, <3>1
    <2>. QED
      BY <2>1 DEF UnitsInv
  <1>2. ASSUME NEW unit \in BagToSet(in_flight), Land(unit)
        PROVE  UnitsInv'
    <2>1. PICK e \in Exits : UnitOf(unit, e)
      BY DEF UnitsInv
    <2>2. open' \subseteq open
      BY <1>2, <2>1, LandStep DEF Landed
    <2>3. UNCHANGED <<torn, skipped>>
      BY <1>2 DEF Land, history_vars
    <2>4. BagToSet(in_flight') \subseteq BagToSet(in_flight)
      BY <1>2, TakenOut DEF Land
    <2>. QED
      BY <1>1, <2>2, <2>3, <2>4
  <1>3. ASSUME NEW e \in Exits, Submits(e)
        PROVE  UnitsInv'
    BY <1>1, <1>3 DEF Submits
  <1>4. ASSUME NEW e \in Exits, OwnerTerminates(e)
        PROVE  UnitsInv'
    BY <1>1, <1>4 DEF OwnerTerminates, history_vars
  <1>5. CASE Quiet
    BY <1>1, <1>5 DEF Quiet
  <1>. QED
    BY <1>2, <1>3, <1>4, <1>5, Steps

----------------------------------------------------------------------------
(* What the steps do to each exit.                                         *)

\* Nothing of an exit moves.
Untouched(e) ==
    /\ exits'[e] = exits[e] /\ OpenOf(e)' = OpenOf(e)
    /\ books'[e].deposited = books[e].deposited

\* A bundle of claims landed: what it deposits it records.
Booked(e) ==
    /\ exits[e].status = Active /\ exits'[e].status = Active
    /\ OpenOf(e)' = OpenOf(e)
    /\ \E amount \in Nat \ {0} :
          /\ exits'[e].total_sol_claimed = exits[e].total_sol_claimed + amount
          /\ books'[e].deposited = books[e].deposited + amount

\* A bundle of closes landed: it completes the exit, and closes all of its
\* positions unless some were left out.
Finished(e) ==
    /\ exits[e].status = Active /\ exits'[e].status = Completed
    /\ e \in skipped \/ OpenOf(e)' = {}
    /\ exits'[e].total_sol_claimed = exits[e].total_sol_claimed
    /\ books'[e].deposited = books[e].deposited

\* The owner ended it.
Ended(e) ==
    /\ exits[e].status = Active /\ exits'[e].status = Terminated
    /\ OpenOf(e)' = OpenOf(e)
    /\ exits'[e].total_sol_claimed = exits[e].total_sol_claimed
    /\ books'[e].deposited = books[e].deposited

\* Of what was never torn, a landing leaves one of these.
LEMMA LandEffect ==
    ASSUME TypeOK, UnitsInv, NEW unit \in BagToSet(in_flight), Land(unit),
           NEW f \in Exits, f \notin torn
    PROVE  Untouched(f) \/ Booked(f) \/ Finished(f)
  <1>1. PICK e \in Exits : UnitOf(unit, e)
    BY DEF UnitsInv
  <1>2. Landed(unit, e)
    BY <1>1, LandStep
  <1>3. exits \in [Exits -> ExitType]
    BY DEF TypeOK, ExitType
  <1>. DEFINE last == unit[Len(unit)]
  <1>4. CASE f # e
    <2>1. exits'[f] = exits[f] /\ books'[f].deposited = books[f].deposited
      BY <1>2, <1>3, <1>4 DEF Landed, Settled
    <2>2. OpenOf(f)' = OpenOf(f)
      <3>1. PositionsOf(f) \cap PositionsOf(e) = {}
        BY <1>4 DEF PositionsOf
      <3>. QED
        BY <1>2, <3>1 DEF Landed, OpenOf
    <2>. QED
      BY <2>1, <2>2 DEF Untouched
  <1>5. CASE f = e /\ Claims(unit, e)
    <2>1. last = RecordTx(e, last.amount)
      BY <1>5 DEF Claims
    <2>2. last.op = "record"
      BY <2>1, Fields
    <2>. HIDE DEF last
    <2>3. /\ exits' = [exits EXCEPT ![e] = Updated(exits[e], last)]
          /\ exits[e].status = Active /\ open' = open
          /\ books'[e].deposited = books[e].deposited + last.amount
      BY <1>2, <1>5 DEF Landed, Settled, last
    <2>4. exits[e] \in ExitType /\ exits'[e] = Updated(exits[e], last)
      BY <1>3, <2>3
    <2>5. last.amount \in Nat \ {0}
      BY <1>2, <1>5 DEF Landed, last
    <2>6. /\ exits'[e].status = exits[e].status
          /\ exits'[e].total_sol_claimed = exits[e].total_sol_claimed + last.amount
      BY <2>2, <2>4 DEF Updated, ExitType
    <2>. QED
      BY <1>5, <2>3, <2>5, <2>6 DEF Booked, OpenOf
  <1>6. CASE f = e /\ Closes(unit, e) /\ (e \in skipped \/ OpenOf(e) \subseteq ClosedIn(unit))
    <2>1. last = CompleteTx(e)
      BY <1>6 DEF Closes
    <2>2. last.op = "complete"
      BY <2>1, Fields
    <2>. HIDE DEF last
    <2>3. /\ exits' = [exits EXCEPT ![e] = Updated(exits[e], last)]
          /\ exits[e].status = Active /\ open' = open \ ClosedIn(unit)
          /\ books'[e].deposited = books[e].deposited
      BY <1>2, <1>6 DEF Landed, Settled, last
    <2>4. exits[e] \in ExitType /\ exits'[e] = Updated(exits[e], last)
      BY <1>3, <2>3
    <2>5. /\ exits'[e].status = Completed
          /\ exits'[e].total_sol_claimed = exits[e].total_sol_claimed
      BY <2>2, <2>4 DEF Updated, ExitType
    <2>. QED
      BY <1>6, <2>3, <2>5 DEF Finished, OpenOf
  <1>. QED
    BY <1>1, <1>4, <1>5, <1>6 DEF UnitOf

\* Every step leaves one of them of an exit that stays untorn.
LEMMA Effects ==
    ASSUME TypeOK, UnitsInv, SeenInv, [Next]_vars, NEW f \in Exits, f \notin torn'
    PROVE  /\ f \notin torn
           /\ Untouched(f) \/ Booked(f) \/ Finished(f) \/ Ended(f)
  <1>1. ASSUME NEW unit \in BagToSet(in_flight), Land(unit)
        PROVE  f \notin torn /\ (Untouched(f) \/ Booked(f) \/ Finished(f))
    <2>1. torn' = torn
      BY <1>1 DEF Land, history_vars
    <2>. QED
      BY <1>1, <2>1, LandEffect
  <1>2. ASSUME NEW e \in Exits, Submits(e)
        PROVE  f \notin torn /\ Untouched(f)
    BY <1>2 DEF Submits, Untouched, OpenOf
  <1>3. ASSUME NEW e \in Exits, OwnerTerminates(e)
        PROVE  f \notin torn /\ (Untouched(f) \/ Ended(f))
    <2>1. exits \in [Exits -> ExitType]
      BY DEF TypeOK, ExitType
    <2>. DEFINE ended == [exits[e] EXCEPT !.status = Terminated]
    <2>2. /\ exits' = [exits EXCEPT ![e] = ended] /\ exits[e].status = Active
          /\ UNCHANGED <<open, books, torn>>
      BY <1>3 DEF OwnerTerminates, history_vars
    <2>3. ended.status = Terminated
          /\ ended.total_sol_claimed = exits[e].total_sol_claimed
      BY <2>1 DEF ExitType
    <2>. HIDE DEF ended
    <2>. QED
      BY <2>1, <2>2, <2>3 DEF Untouched, Ended, OpenOf
  <1>4. CASE Quiet
    BY <1>4 DEF Quiet, Untouched, OpenOf
  <1>. QED
    BY <1>1, <1>2, <1>3, <1>4, Steps

\* No exit is forgotten to have been torn or left with a position.
LEMMA Remembered ==
    ASSUME TypeOK, SeenInv, [Next]_vars
    PROVE  torn \subseteq torn' /\ skipped \subseteq skipped' \cup torn'
  <1>1. ASSUME NEW unit \in BagToSet(in_flight), Land(unit)
        PROVE  UNCHANGED <<torn, skipped>>
    BY <1>1 DEF Land, history_vars
  <1>2. ASSUME NEW e \in Exits, OwnerTerminates(e)
        PROVE  UNCHANGED <<torn, skipped>>
    BY <1>2 DEF OwnerTerminates, history_vars
  <1>. QED
    BY <1>1, <1>2, Steps DEF Submits, Quiet

\* The three invariants from them.
LEMMA ExitsStep ==
    ASSUME TypeOK, UnitsInv, SeenInv, RecordsMatchDeposits, NoExitLeftBehind,
           CompletedExitsAreClosed, [Next]_vars
    PROVE  RecordsMatchDeposits' /\ NoExitLeftBehind' /\ CompletedExitsAreClosed'
  <1>1. ASSUME NEW e \in Exits \ torn'
        PROVE  exits'[e].total_sol_claimed = books'[e].deposited
    <2>1. e \notin torn /\ exits[e].total_sol_claimed = books[e].deposited
      BY Effects DEF RecordsMatchDeposits
    <2>. QED
      BY <2>1, Effects DEF Untouched, Booked, Finished, Ended
  <1>2. ASSUME NEW e \in Exits \ torn', exits'[e].status = Active, PositionsOf(e) # {}
        PROVE  OpenOf(e)' # {}
    <2>1. e \notin torn /\ (exits[e].status = Active => OpenOf(e) # {})
      BY <1>2, Effects DEF NoExitLeftBehind
    <2>2. Untouched(e) \/ Booked(e)
      BY <1>2, Effects DEF Finished, Ended, Active, Completed, Terminated
    <2>. QED
      BY <1>2, <2>1, <2>2 DEF Untouched, Booked
  <1>3. ASSUME NEW e \in Exits \ (torn' \cup skipped'), exits'[e].status = Completed
        PROVE  OpenOf(e)' = {}
    <2>1. e \notin torn /\ e \notin skipped
      BY Remembered
    <2>2. exits[e].status = Completed => OpenOf(e) = {}
      BY <2>1 DEF CompletedExitsAreClosed
    <2>3. Untouched(e) \/ Finished(e)
      BY <1>3, Effects DEF Booked, Ended, Active, Completed, Terminated
    <2>. QED
      BY <1>3, <2>1, <2>2, <2>3 DEF Untouched, Finished
  <1>4. RecordsMatchDeposits'
    BY <1>1 DEF RecordsMatchDeposits
  <1>5. NoExitLeftBehind'
    BY <1>2 DEF NoExitLeftBehind
  <1>6. CompletedExitsAreClosed'
    BY <1>3 DEF CompletedExitsAreClosed
  <1>. QED
    BY <1>4, <1>5, <1>6

----------------------------------------------------------------------------
(* Types, step by step.                                                    *)

\* The parts of TypeOK: the accounts, what the loop holds, and the rest.
AccountsTyped ==
    /\ exits \in [Exits -> ExitType] /\ fees \in [Positions -> Nat]
    /\ open \subseteq Positions /\ books \in [Exits -> BookType]

LoopTyped ==
    /\ pc \in {"fetch", "next", "monitor", "claim", "dust", "close", "sleep", "done"}
    /\ todo \subseteq Exits
    /\ pc \in {"monitor", "claim", "dust", "close"} <=> current \in Exits
    /\ current \in Exits \cup {NoExit}
    /\ pc \in {"claim", "dust", "close"} <=> seen # NoReading
    /\ seen # NoReading => seen.positions # {} /\ seen.totalFeeY \in Nat

RestTyped ==
    /\ sold \subseteq Positions /\ torn \subseteq Exits /\ skipped \subseteq Exits
    /\ shutdown \in BOOLEAN /\ pool_open \in BOOLEAN /\ crashes \in 0..MaxCrashes

UnitsTyped == \A unit \in BagToSet(in_flight) : Range(unit) \subseteq Transactions

\* They are all of it.
LEMMA TypeParts ==
    TypeOK <=> AccountsTyped /\ LoopTyped /\ RestTyped /\ UnitsTyped
  BY DEF TypeOK, AccountsTyped, LoopTyped, RestTyped, UnitsTyped, ExitType, BookType

\* Only landings, fees earned and owners move the accounts; no position opens.
LEMMA AccountsStep ==
    ASSUME TypeOK, UnitsInv, [Next]_vars
    PROVE  AccountsTyped' /\ open' \subseteq open
  <1>0. AccountsTyped
    BY TypeParts
  <1>1. CASE UNCHANGED account_vars
    BY <1>0, <1>1 DEF account_vars, AccountsTyped
  <1>2. ASSUME NEW unit \in BagToSet(in_flight), Land(unit)
        PROVE  AccountsTyped' /\ open' \subseteq open
    <2>1. PICK e \in Exits : UnitOf(unit, e)
      BY DEF UnitsInv
    <2>2. open' \subseteq open
      BY <1>2, <2>1, LandStep DEF Landed
    <2>3. unit \in Seq(Transactions)
      <3>1. unit \in Seq(TransactionsOf(e))
        BY <2>1 DEF UnitOf
      <3>. QED
        BY <3>1, SomeTransactions, SeqMonotonic
    <2>4. PICK chains : Trace(unit, chains) /\ Executed(unit).chain = chains[Len(unit)]
      BY <1>2, <2>3, TraceExists DEF Land
    <2>5. Executed(unit).chain \in ChainType
      <3>1. Len(unit) \in 0..Len(unit)
        BY <2>3
      <3>. QED
        BY <2>4, <3>1 DEF Trace
    <2>. QED
      BY <1>2, <2>2, <2>5 DEF Land, ChainType, AccountsTyped
  <1>3. ASSUME NEW p \in Positions, Accrue(p)
        PROVE  AccountsTyped' /\ open' \subseteq open
    BY <1>0, <1>3 DEF Accrue, AccountsTyped
  <1>4. ASSUME NEW e \in Exits, OwnerTerminates(e)
        PROVE  AccountsTyped' /\ open' \subseteq open
    <2>. DEFINE ended == [exits[e] EXCEPT !.status = Terminated]
    <2>1. exits' = [exits EXCEPT ![e] = ended] /\ UNCHANGED <<fees, open, books>>
      BY <1>4 DEF OwnerTerminates
    <2>2. ended \in ExitType
      BY <1>0 DEF AccountsTyped, ExitType
    <2>. HIDE DEF ended
    <2>. QED
      BY <1>0, <2>1, <2>2 DEF AccountsTyped
  <1>5. CASE LoopStep
    BY <1>1, <1>5 DEF LoopStep, FetchActiveExits, FetchFails, EndCycle, Sleep, NextExit,
          monitorPosition, NoPositions, Throw, SubmitClaim, CheckDust, CloseAndComplete,
          chain_vars
  <1>6. CASE Deliver
    BY <1>1, <1>2, <1>6 DEF Deliver, Drop, chain_vars
  <1>7. CASE Environment
    BY <1>1, <1>3, <1>4, <1>7 DEF Environment, Fill, PoolChanges
  <1>8. CASE RequestShutdown \/ Crash \/ UNCHANGED vars
    BY <1>1, <1>8 DEF RequestShutdown, Crash, chain_vars, vars
  <1>. QED
    BY <1>5, <1>6, <1>7, <1>8 DEF Next

\* What the loop holds agrees with where it is, and a reading stays complete.
LEMMA LoopTypedStep ==
    ASSUME TypeOK, UnitsInv, SeenInv, [Next]_vars
    PROVE  LoopTyped' /\ SeenInv'
  <1>0. LoopTyped /\ AccountsTyped /\ NoExit \notin Exits
    BY TypeParts, CrankAssumption
  <1>1. CASE UNCHANGED loop_vars
    <2>1. open' \subseteq open
      BY AccountsStep
    <2>. QED
      BY <1>0, <1>1, <2>1 DEF loop_vars, LoopTyped, SeenInv, OpenOf
  <1>2. CASE Released = NoReading /\ \E next \in {"next", "sleep"} : Leave(next)
             /\ UNCHANGED todo
    BY <1>0, <1>2 DEF Leave, LoopTyped, SeenInv
  <1>3. CASE FetchActiveExits
    BY <1>0, <1>3 DEF FetchActiveExits, LoopTyped, SeenInv
  <1>4. CASE FetchFails \/ EndCycle
    BY <1>0, <1>4 DEF FetchFails, EndCycle, LoopTyped, SeenInv
  <1>5. CASE Sleep
    BY <1>0, <1>5 DEF Sleep, AfterSleep, LoopTyped, SeenInv
  <1>6. ASSUME NEW e \in Exits, NextExit(e)
        PROVE  LoopTyped' /\ SeenInv'
    BY <1>0, <1>6 DEF NextExit, LoopTyped, SeenInv
  <1>7. CASE monitorPosition
    <2>. DEFINE total == SumOver(fees, OpenOf(current))
                read == [positions |-> OpenOf(current), totalFeeY |-> total]
    <2>1. /\ pc = "monitor" /\ OpenOf(current) # {} /\ seen' = read
          /\ pc' \in {"claim", "dust"} /\ UNCHANGED <<open, todo, current>>
      BY <1>7 DEF monitorPosition, chain_vars, account_vars
    <2>2. total \in Nat
      BY <1>0, SumOverType DEF AccountsTyped, OpenOf
    <2>3. OpenOf(current) \subseteq PositionsOf(current)
          /\ PositionsOf(current) \subseteq Positions
      BY DEF OpenOf, PositionsOf
    <2>. HIDE DEF total
    <2>4. read # NoReading
      BY <2>2, <2>3, CrankAssumption
    <2>5. OpenOf(current)' = OpenOf(current)
      BY <2>1 DEF OpenOf
    <2>. QED
      BY <1>0, <2>1, <2>2, <2>3, <2>4, <2>5 DEF LoopTyped, SeenInv
  <1>8. CASE NoPositions
    BY <1>2, <1>8 DEF NoPositions, Released
  <1>9. CASE Throw
    BY <1>2, <1>9 DEF Throw, AfterError, Released
  <1>10. ASSUME NEW built, SubmitClaim(built)
         PROVE  LoopTyped' /\ SeenInv'
    BY <1>0, <1>10 DEF SubmitClaim, chain_vars, account_vars, LoopTyped, SeenInv, OpenOf
  <1>11. ASSUME NEW price, CheckDust(price)
         PROVE  LoopTyped' /\ SeenInv'
    <2>1. CASE IsDust(price, 0)
      BY <1>0, <1>11, <2>1 DEF CheckDust, chain_vars, account_vars, LoopTyped, SeenInv, OpenOf
    <2>2. CASE ~IsDust(price, 0)
      BY <1>2, <1>11, <2>2 DEF CheckDust, Released
    <2>. QED
      BY <2>1, <2>2
  <1>12. ASSUME NEW built, CloseAndComplete(built)
         PROVE  LoopTyped' /\ SeenInv'
    BY <1>2, <1>12 DEF CloseAndComplete, Released
  <1>13. CASE LoopStep
    BY <1>3, <1>4, <1>5, <1>6, <1>7, <1>8, <1>9, <1>10, <1>11, <1>12, <1>13 DEF LoopStep
  <1>14. CASE Deliver
    BY <1>1, <1>14 DEF Deliver, Land, Drop
  <1>15. CASE Environment
    BY <1>1, <1>15 DEF Environment, Accrue, Fill, OwnerTerminates, PoolChanges
  <1>16. CASE RequestShutdown \/ UNCHANGED vars
    BY <1>1, <1>16 DEF RequestShutdown, vars
  <1>17. CASE Crash
    BY <1>0, <1>17 DEF Crash, LoopTyped, SeenInv
  <1>. QED
    BY <1>13, <1>14, <1>15, <1>16, <1>17 DEF Next

\* The rest.
LEMMA RestStep ==
    ASSUME TypeOK, UnitsInv, SeenInv, [Next]_vars
    PROVE  RestTyped' /\ UnitsTyped'
  <1>1. UnitsTyped'
    <2>1. UnitsInv'
      BY UnitsStep
    <2>2. ASSUME NEW unit \in BagToSet(in_flight')
          PROVE  Range(unit) \subseteq Transactions
      <3>1. PICK e \in Exits : UnitOf(unit, e)'
        BY <2>1, <2>2 DEF UnitsInv
      <3>2. unit \in Seq(TransactionsOf(e))
        BY <3>1 DEF UnitOf
      <3>3. unit \in Seq(Transactions)
        BY <3>2, SomeTransactions, SeqMonotonic
      <3>. QED
        BY <3>3, RangeOfSeq
    <2>. QED
      BY <2>2 DEF UnitsTyped
  <1>2. torn' \subseteq Exits /\ skipped' \subseteq Exits
    <2>1. torn \subseteq Exits /\ skipped \subseteq Exits
      BY DEF TypeOK
    <2>2. ASSUME NEW unit \in BagToSet(in_flight), Land(unit)
          PROVE  UNCHANGED <<torn, skipped>>
      BY <2>2 DEF Land, history_vars
    <2>3. ASSUME NEW e \in Exits, OwnerTerminates(e)
          PROVE  UNCHANGED <<torn, skipped>>
      BY <2>3 DEF OwnerTerminates, history_vars
    <2>. QED
      BY <2>1, <2>2, <2>3, Steps DEF Submits, Quiet
  <1>3. /\ sold' \subseteq Positions /\ shutdown' \in BOOLEAN
        /\ pool_open' \in BOOLEAN /\ crashes' \in 0..MaxCrashes
    <2>0. /\ sold \subseteq Positions /\ shutdown \in BOOLEAN
          /\ pool_open \in BOOLEAN /\ crashes \in 0..MaxCrashes /\ MaxCrashes \in Nat
      BY CrankAssumption DEF TypeOK
    <2>1. CASE UNCHANGED <<sold, pool_open, shutdown, crashes>>
      BY <2>0, <2>1
    <2>2. CASE LoopStep \/ Deliver \/ UNCHANGED vars
      BY <2>1, <2>2 DEF LoopStep, Deliver, Land, Drop, FetchActiveExits, FetchFails,
            EndCycle, Sleep, NextExit, monitorPosition, NoPositions, Throw, SubmitClaim,
            CheckDust, CloseAndComplete, chain_vars, market_vars, vars
    <2>3. CASE Environment
      BY <2>0, <2>3 DEF Environment, Accrue, Fill, OwnerTerminates, PoolChanges, market_vars
    <2>4. CASE RequestShutdown
      BY <2>0, <2>4 DEF RequestShutdown, chain_vars, market_vars
    <2>5. CASE Crash
      <3>1. /\ UNCHANGED <<sold, pool_open>> /\ shutdown' = FALSE
            /\ crashes < MaxCrashes /\ crashes' = crashes + 1
        BY <2>5 DEF Crash, chain_vars, market_vars
      <3>2. crashes' \in 0..MaxCrashes
        BY <2>0, <3>1
      <3>. QED
        BY <2>0, <3>1, <3>2
    <2>. QED
      BY <2>2, <2>3, <2>4, <2>5 DEF Next
  <1>. QED
    BY <1>1, <1>2, <1>3 DEF RestTyped

----------------------------------------------------------------------------
(* The invariant, and what follows from it.                                *)

\* Nothing is under way before the first cycle.
LEMMA InitIInv == Init => IInv
  <1>. SUFFICES ASSUME Init PROVE IInv
    OBVIOUS
  <1>1. BagToSet(in_flight) = {}
    BY DEF Init, EmptyBag, SetToBag, BagToSet
  <1>2. TypeOK
    <2>1. AccountsTyped
      BY DEF Init, AccountsTyped, ExitType, BookType
    <2>2. LoopTyped
      BY CrankAssumption DEF Init, LoopTyped
    <2>3. RestTyped
      <3>1. 0 \in 0..MaxCrashes
        BY CrankAssumption
      <3>. QED
        BY <3>1 DEF Init, RestTyped
    <2>4. UnitsTyped
      BY <1>1 DEF UnitsTyped
    <2>. QED
      BY <2>1, <2>2, <2>3, <2>4, TypeParts
  <1>3. UnitsInv /\ SeenInv
    BY <1>1 DEF Init, UnitsInv, SeenInv
  <1>4. RecordsMatchDeposits
    BY DEF Init, RecordsMatchDeposits
  <1>5. NoExitLeftBehind
    BY DEF Init, NoExitLeftBehind, OpenOf, PositionsOf
  <1>6. CompletedExitsAreClosed
    BY DEF Init, CompletedExitsAreClosed, Active, Completed
  <1>. QED
    BY <1>2, <1>3, <1>4, <1>5, <1>6 DEF IInv

\* Every step keeps it: landings by the trace they leave, submissions by the
\* reading they are built from.
LEMMA NextIInv == IInv /\ [Next]_vars => IInv'
  <1>. SUFFICES ASSUME IInv, [Next]_vars PROVE IInv'
    OBVIOUS
  <1>1. /\ TypeOK /\ UnitsInv /\ SeenInv
        /\ RecordsMatchDeposits /\ NoExitLeftBehind /\ CompletedExitsAreClosed
    BY DEF IInv
  <1>2. AccountsTyped' /\ LoopTyped' /\ SeenInv' /\ RestTyped' /\ UnitsTyped'
    BY <1>1, AccountsStep, LoopTypedStep, RestStep
  <1>3. TypeOK'
    BY <1>2, TypeParts, PTL
  <1>4. UnitsInv'
    BY <1>1, UnitsStep
  <1>5. RecordsMatchDeposits' /\ NoExitLeftBehind' /\ CompletedExitsAreClosed'
    BY <1>1, ExitsStep
  <1>. QED
    BY <1>2, <1>3, <1>4, <1>5 DEF IInv

\* Of every exit, only whole bundles, or what a torn one left, is ever under
\* way, and with it hold the types and what landing does to records, deposits
\* and open positions.
THEOREM Inductive == Spec => []IInv
  BY InitIInv, NextIInv, PTL DEF Spec

\* The state of the accounts, of what is under way and of the loop is always
\* what the service and the programs can hold, and an exit and a reading are
\* held exactly inside processExit.
THEOREM Types == Spec => []TypeOK
  <1>1. IInv => TypeOK
    BY DEF IInv
  <1>. QED
    BY <1>1, Inductive, PTL

\* As long as an exit's bundles travel whole, its account records to the
\* lamport what was deposited for it, however many are lost, late or repeated.
THEOREM RecordsMatch == Spec => []RecordsMatchDeposits
  <1>1. IInv => RecordsMatchDeposits
    BY DEF IInv
  <1>. QED
    BY <1>1, Inductive, PTL

\* ... it is never left active with all its positions closed, and
THEOREM NoneLeftBehind == Spec => []NoExitLeftBehind
  <1>1. IInv => NoExitLeftBehind
    BY DEF IInv
  <1>. QED
    BY <1>1, Inductive, PTL

\* ... never completed with one open, unless a close could not be built.
THEOREM CompletedAreClosed == Spec => []CompletedExitsAreClosed
  <1>1. IInv => CompletedExitsAreClosed
    BY DEF IInv
  <1>. QED
    BY <1>1, Inductive, PTL

\* A bundle that arrives after its exit was completed or terminated deposits
\* nothing: the refused record undoes it.
THEOREM LateBundlesRefused == Spec => LateBundlesBookNothing
  <1>. DEFINE Refused == \A e \in Exits \ torn :
                            exits[e].status # Active =>
                               books'[e].deposited = books[e].deposited
  <1>1. ASSUME TypeOK, UnitsInv, SeenInv, [Next]_vars, NEW f \in Exits \ torn,
               exits[f].status # Active
        PROVE  books'[f].deposited = books[f].deposited
    <2>1. ASSUME NEW unit \in BagToSet(in_flight), Land(unit)
          PROVE  books'[f].deposited = books[f].deposited
      BY <1>1, <2>1, LandEffect DEF Untouched, Booked, Finished
    <2>2. ASSUME NEW e \in Exits, OwnerTerminates(e)
          PROVE  books'[f].deposited = books[f].deposited
      BY <2>2 DEF OwnerTerminates
    <2>. QED
      BY <1>1, <2>1, <2>2, Steps DEF Submits, Quiet
  <1>2. IInv /\ [Next]_vars => [Refused]_vars
    BY <1>1 DEF IInv
  <1>. HIDE DEF Refused
  <1>3. Spec => [][Refused]_vars
    BY <1>2, Inductive, PTL DEF Spec
  <1>. QED
    BY <1>3 DEF Refused, LateBundlesBookNothing

\* Once a shutdown is asked for, no exit is begun but the one under way.
THEOREM ShutdownHolds == Spec => ShutdownStartsNothing
  <1>1. ASSUME [Next]_vars, shutdown, shutdown'
        PROVE  current' \in {current, NoExit}
    <2>1. CASE LoopStep
      BY <1>1, <2>1 DEF LoopStep, MayStart, FetchActiveExits, FetchFails, EndCycle, Sleep,
            NextExit, monitorPosition, NoPositions, Throw, SubmitClaim, CheckDust,
            CloseAndComplete, Leave
    <2>2. CASE Deliver \/ Environment \/ RequestShutdown \/ UNCHANGED vars
      BY <2>2 DEF Deliver, Land, Drop, Environment, Accrue, Fill, OwnerTerminates,
            PoolChanges, RequestShutdown, loop_vars, vars
    <2>3. CASE Crash
      BY <2>3 DEF Crash
    <2>. QED
      BY <1>1, <2>1, <2>2, <2>3 DEF Next
  <1>2. [Next]_vars => [shutdown /\ shutdown' => current' \in {current, NoExit}]_vars
    BY <1>1
  <1>. QED
    BY <1>2, PTL DEF Spec, ShutdownStartsNothing
----------------------------------------------------------------------------
(* The cycle comes to its end.                                             *)

\* The steps of the loop, as the list of exits and the way through it see them.
Advance ==
    \/ pc = "fetch" /\ pc' = "next" /\ todo' \subseteq Exits
    \/ pc = "fetch" /\ pc' = "sleep" /\ todo' = todo
    \/ /\ pc = "next" /\ pc' = "monitor" /\ ~shutdown
       /\ \E e \in todo : todo' = todo \ {e} /\ current' = e
    \/ pc = "next" /\ pc' = "sleep" /\ todo' = {} /\ (todo = {} \/ shutdown)
    \/ pc = "monitor" /\ pc' \in {"claim", "dust", "next"} /\ todo' = todo
    \/ pc = "claim" /\ pc' \in {"dust", "next"} /\ todo' = todo
    \/ pc = "dust" /\ pc' \in {"close", "next"} /\ todo' = todo
    \/ pc = "close" /\ pc' = "next" /\ todo' = todo
    \/ pc = "sleep" /\ pc' = (IF shutdown THEN "done" ELSE "fetch") /\ todo' = todo

Restart == crashes' = crashes + 1 /\ pc' = "fetch" /\ todo' = {} /\ ~shutdown'

\* Whatever a step does, the loop advances, starts anew or stays where it is.
LEMMA LoopAdvances ==
    ASSUME [Next]_vars
    PROVE  Advance \/ Restart \/ UNCHANGED loop_vars
  <1>1. CASE FetchActiveExits \/ FetchFails
    BY <1>1 DEF FetchActiveExits, FetchFails, Advance
  <1>2. ASSUME NEW exit \in Exits, NextExit(exit) PROVE Advance
    BY <1>2 DEF NextExit, MayStart, Advance
  <1>3. CASE EndCycle
    BY <1>3 DEF EndCycle, MayStart, Advance
  <1>4. CASE monitorPosition \/ NoPositions
    BY <1>4 DEF monitorPosition, NoPositions, Leave, Advance
  <1>5. ASSUME NEW built, SubmitClaim(built) PROVE Advance
    BY <1>5 DEF SubmitClaim, Advance
  <1>6. ASSUME NEW price, CheckDust(price) PROVE Advance
    BY <1>6 DEF CheckDust, Leave, Advance
  <1>7. ASSUME NEW built, CloseAndComplete(built) PROVE Advance
    BY <1>7 DEF CloseAndComplete, Leave, Advance
  <1>8. CASE Throw
    BY <1>8 DEF Throw, AfterError, Leave, Advance
  <1>9. CASE Sleep
    BY <1>9 DEF Sleep, AfterSleep, Advance
  <1>10. CASE Deliver \/ Environment \/ RequestShutdown \/ UNCHANGED vars
    BY <1>10 DEF Deliver, Land, Drop, Environment, Accrue, Fill, OwnerTerminates,
          PoolChanges, RequestShutdown, vars
  <1>11. CASE Crash
    BY <1>11 DEF Crash, Restart
  <1>. QED
    BY <1>1, <1>2, <1>3, <1>4, <1>5, <1>6, <1>7, <1>8, <1>9, <1>10, <1>11
       DEF Next, LoopStep

\* After a signal the loop takes at most six more steps.
THEOREM ShutdownComes == Spec => ShutdownIsNear
  <1>. DEFINE Nearer == shutdown /\ shutdown' /\ loop_vars' # loop_vars
                           => StepsToEnd(pc') < StepsToEnd(pc)
  <1>1. ASSUME [Next]_vars PROVE Nearer
    <2>1. Advance /\ shutdown => StepsToEnd(pc') < StepsToEnd(pc)
      BY DEF Advance, StepsToEnd
    <2>2. Restart => ~shutdown'
      BY DEF Restart
    <2>. QED
      BY <1>1, <2>1, <2>2, LoopAdvances
  <1>2. [Next]_vars => [Nearer]_vars
    BY <1>1
  <1>. QED
    BY <1>2, PTL DEF Spec, ShutdownIsNear

\* What a cycle has before it gets less with every step of the loop: an exit
\* that is taken up costs five steps at most.
THEOREM EveryCycleEnds == Spec => CyclesAreFinite
  <1>. DEFINE Less == pc # "fetch" /\ pc' # "fetch" /\ loop_vars' # loop_vars
                         => CycleLeft' < CycleLeft
  <1>1. ASSUME TypeOK, TypeOK', [Next]_vars PROVE Less
    <2>. SUFFICES ASSUME pc # "fetch", pc' # "fetch", Advance
                  PROVE  CycleLeft' < CycleLeft
      BY <1>1, LoopAdvances DEF Restart
    <2>1. /\ IsFiniteSet(todo) /\ Cardinality(todo) \in Nat
          /\ IsFiniteSet(todo') /\ Cardinality(todo') \in Nat
      BY <1>1, CrankAssumption, FS_Subset, FS_CardinalityType DEF TypeOK
    <2>2. CASE \E e \in todo : todo' = todo \ {e}
      <3>1. PICK e \in todo : todo' = todo \ {e}
        BY <2>2
      <3>2. Cardinality(todo') = Cardinality(todo) - 1
        BY <2>1, <3>1, FS_RemoveElement
      <3>3. StepsToEnd(pc') <= StepsToEnd(pc) + 4
        BY <3>1 DEF Advance, StepsToEnd
      <3>4. StepsToEnd(pc) \in Int /\ StepsToEnd(pc') \in Int
        BY <1>1 DEF TypeOK, StepsToEnd
      <3>. QED
        BY <2>1, <3>2, <3>3, <3>4 DEF CycleLeft
    <2>3. CASE ~\E e \in todo : todo' = todo \ {e}
      <3>1. StepsToEnd(pc') < StepsToEnd(pc)
        BY <2>3 DEF Advance, StepsToEnd
      <3>2. todo' = todo \/ todo' = {}
        BY <2>3 DEF Advance
      <3>3. Cardinality(todo') <= Cardinality(todo)
        BY <2>1, <3>2, FS_EmptySet
      <3>4. StepsToEnd(pc) \in Int /\ StepsToEnd(pc') \in Int
        BY <1>1 DEF TypeOK, StepsToEnd
      <3>. QED
        BY <2>1, <3>1, <3>3, <3>4 DEF CycleLeft
    <2>. QED
      BY <2>2, <2>3
  <1>2. TypeOK /\ TypeOK' /\ [Next]_vars => [Less]_vars
    BY <1>1
  <1>. QED
    BY <1>2, Types, PTL DEF Spec, CyclesAreFinite

\* No error, and nothing the network or the chain does, takes an exit from the
\* list but its turn.
THEOREM CyclesServe == Spec => CyclesServeAll
  <1>. DEFINE Emptied == pc \in {"fetch", "sleep", "done"} => todo = {}
              Kept == \A e \in todo : e \in todo' \/ current' = e
                                      \/ shutdown \/ crashes' > crashes
  <1>1. Init => Emptied
    BY DEF Init
  <1>2. ASSUME Emptied, [Next]_vars PROVE Emptied'
    <2>1. Advance => Emptied'
      BY <1>2 DEF Advance
    <2>2. Restart => Emptied'
      BY DEF Restart
    <2>3. UNCHANGED loop_vars => Emptied'
      BY <1>2 DEF loop_vars
    <2>. QED
      BY <1>2, <2>1, <2>2, <2>3, LoopAdvances
  <1>3. ASSUME TypeOK, Emptied, [Next]_vars PROVE Kept
    <2>1. Advance => Kept
      BY <1>3 DEF Advance
    <2>2. Restart => Kept
      BY <1>3 DEF Restart, TypeOK
    <2>3. UNCHANGED loop_vars => Kept
      BY DEF loop_vars
    <2>. QED
      BY <1>3, <2>1, <2>2, <2>3, LoopAdvances
  <1>4. TypeOK /\ Emptied /\ [Next]_vars => [Kept]_vars
    BY <1>3
  <1>5. Spec => []Emptied
    BY <1>1, <1>2, PTL DEF Spec
  <1>6. Spec => [][Kept]_vars
    BY <1>4, <1>5, Types, PTL DEF Spec
  <1>. QED
    BY <1>5, <1>6, PTL DEF CyclesServeAll
----------------------------------------------------------------------------
(* The exit accounts through the crank's transactions keep ExitLifecycle.  *)

\* An account as ExitLifecycle sees it.
Seen(exit) == [status |-> exit.status, claimed |-> exit.total_sol_claimed]
SeenAll == [e \in Exits |-> Seen(exits[e])]

\* A landing books or ends at most one exit that was active.
LEMMA LandKeepsLifecycle ==
    ASSUME TypeOK, UnitsInv, NEW unit \in BagToSet(in_flight), Land(unit)
    PROVE  \/ UNCHANGED exits
           \/ \E e \in Exits : Lifecycle!Book(e) \/ Lifecycle!End(e, Completed)
  <1>. USE DEF Lifecycle!Active, Lifecycle!ActiveOnes, Active, Completed
  <1>0. exits \in [Exits -> ExitType]
    BY DEF TypeOK, ExitType
  <1>1. PICK e \in Exits : UnitOf(unit, e)
    BY DEF UnitsInv
  <1>2. Landed(unit, e)
    BY <1>1, LandStep
  <1>. DEFINE last == unit[Len(unit)]
  <1>3. SUFFICES ASSUME /\ exits' = [exits EXCEPT ![e] = Updated(exits[e], last)]
                        /\ exits[e].status = Active
                        /\ last.op \in {"record", "complete"}
                        /\ last.op = "record" => last.amount \in Nat \ {0}
                 PROVE  Lifecycle!Book(e) \/ Lifecycle!End(e, Completed)
    BY <1>2 DEF Landed, Settled
  <1>. HIDE DEF last
  <1>4. /\ exits[e] \in ExitType /\ exits'[e] = Updated(exits[e], last)
        /\ \A f \in Exits \ {e} : exits'[f] = exits[f]
    BY <1>0, <1>3
  <1>5. e \in Lifecycle!ActiveOnes
    BY <1>3
  <1>6. CASE last.op = "record"
    <2>1. /\ exits'[e].status = exits[e].status
          /\ exits'[e].total_sol_claimed = exits[e].total_sol_claimed + last.amount
      BY <1>4, <1>6 DEF Updated, ExitType
    <2>2. exits[e].total_sol_claimed \in Nat /\ last.amount \in Nat \ {0}
      BY <1>3, <1>4, <1>6 DEF ExitType
    <2>3. Seen(exits'[e]) = [Seen(exits[e]) EXCEPT !.claimed = exits'[e].total_sol_claimed]
      BY <2>1 DEF Seen
    <2>4. SeenAll' = [SeenAll EXCEPT ![e].claimed = SeenAll'[e].claimed]
      BY <1>4, <2>3 DEF SeenAll, Seen
    <2>5. SeenAll'[e].claimed > SeenAll[e].claimed
      BY <2>1, <2>2 DEF SeenAll, Seen
    <2>. QED
      BY <1>5, <2>4, <2>5 DEF SeenAll, Seen, Lifecycle!Book
  <1>7. CASE last.op = "complete"
    <2>1. /\ exits'[e].status = Completed
          /\ exits'[e].total_sol_claimed = exits[e].total_sol_claimed
      BY <1>4, <1>7 DEF Updated, ExitType
    <2>2. Seen(exits'[e]) = [Seen(exits[e]) EXCEPT !.status = Completed]
      BY <2>1 DEF Seen
    <2>3. SeenAll' = Lifecycle!Ended({e}, Completed)
      BY <1>4, <2>2 DEF SeenAll, Seen, Lifecycle!Ended
    <2>. QED
      BY <1>5, <2>3 DEF SeenAll, Seen, Lifecycle!End
  <1>. QED
    BY <1>3, <1>6, <1>7

\* So does every step.
LEMMA LifecycleStep ==
    ASSUME TypeOK, UnitsInv, SeenInv, [Next]_vars
    PROVE  [Lifecycle!Next]_(Lifecycle!lifecycle_vars)
  <1>. USE DEF Lifecycle!Active, Lifecycle!ActiveOnes, Lifecycle!Ends, Active, Completed,
               Terminated
  <1>0. exits \in [Exits -> ExitType]
    BY DEF TypeOK, ExitType
  <1>1. CASE UNCHANGED exits
    BY <1>1 DEF Lifecycle!lifecycle_vars
  <1>2. ASSUME NEW unit \in BagToSet(in_flight), Land(unit)
        PROVE  [Lifecycle!Next]_(Lifecycle!lifecycle_vars)
    BY <1>1, <1>2, LandKeepsLifecycle DEF Lifecycle!Next
  <1>3. ASSUME NEW e \in Exits, OwnerTerminates(e)
        PROVE  Lifecycle!End(e, Terminated)
    <2>. DEFINE ended == [exits[e] EXCEPT !.status = Terminated]
    <2>1. exits' = [exits EXCEPT ![e] = ended] /\ exits[e].status = Active
      BY <1>3 DEF OwnerTerminates
    <2>2. Seen(ended) = [Seen(exits[e]) EXCEPT !.status = Terminated]
      BY <1>0 DEF Seen, ExitType
    <2>. HIDE DEF ended
    <2>3. SeenAll' = Lifecycle!Ended({e}, Terminated)
      BY <1>0, <2>1, <2>2 DEF SeenAll, Seen, Lifecycle!Ended
    <2>. QED
      BY <2>1, <2>3 DEF SeenAll, Seen, Lifecycle!End
  <1>. QED
    BY <1>1, <1>2, <1>3, Steps DEF Submits, Quiet, Lifecycle!Next

\* However its transactions are bundled, torn, late or repeated, the crank
\* moves exit accounts only as their abstract lifecycle allows.
THEOREM CrankKeepsLifecycle == Spec => KeepsLifecycle
  <1>1. Init => Lifecycle!Init
    BY DEF Init, Lifecycle!Init, Lifecycle!Fresh, Lifecycle!Active, Active
  <1>2. IInv /\ [Next]_vars => [Lifecycle!Next]_(Lifecycle!lifecycle_vars)
    BY LifecycleStep DEF IInv
  <1>. QED
    BY <1>1, <1>2, Inductive, PTL DEF Spec, KeepsLifecycle, Lifecycle!Spec
=============================================================================
