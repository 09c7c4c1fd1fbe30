------------------------- MODULE Governance_proofs -------------------------
(***************************************************************************)
(* Proofs about Governance, for any number of voters, proposals, options   *)
(* and exits: what the tally loop finds, what the tallies add up to, and   *)
(* what an exit rests on.                                                  *)
(***************************************************************************)
EXTENDS Governance, Arith, SequenceTheorems
----------------------------------------------------------------------------
(* The tally loop. *)

\* The recursion that the loop over vote_counts unfolds to: g gives the loop's
\* locals after the options of a set, in ascending order.
Indices(counts) == [i \in DOMAIN counts |-> i]
Greatest(s) == CHOOSE x \in s : \A y \in s : x >= y
Scanning(counts, g) ==
    g = [s \in SUBSET DOMAIN Indices(counts) |->
           IF s = {} THEN T!LoopStart
           ELSE T!LoopBody(counts, g[s \ {Greatest(s)}], Indices(counts)[Greatest(s)])]

\* The loop's result is that recursion's after all options.
LEMMA ScanUnfolds ==
    ASSUME NEW counts
    PROVE  T!Scan(counts) = (CHOOSE g : Scanning(counts, g))[DOMAIN Indices(counts)]
  BY DEF T!Scan, T!FoldLeftDomain, T!FoldLeft, T!MapThenFoldSet, T!Max, Scanning,
         Indices, Greatest

\* The loop's locals.
Acc == [max_weight : Nat, max_index : Nat \ {0}, is_tie : BOOLEAN]

\* They keep their types.
LEMMA LoopType ==
    ASSUME NEW counts \in Seq(Nat), NEW acc \in Acc, NEW i \in DOMAIN counts
    PROVE  T!LoopBody(counts, acc, i) \in Acc
  <1>1. counts[i] \in Nat /\ i \in Nat \ {0}
    OBVIOUS
  <1>2. CASE counts[i] > acc.max_weight
    BY <1>1, <1>2 DEF T!LoopBody, Acc
  <1>3. CASE ~(counts[i] > acc.max_weight)
    BY <1>1, <1>3 DEF T!LoopBody, Acc
  <1> QED
    BY <1>2, <1>3

\* What the loop knows of the first n options.
Known(counts, n, acc) ==
    /\ acc \in Acc
    /\ \A j \in 1..n : counts[j] <= acc.max_weight
    /\ acc.max_weight = 0 => acc.max_index = 1
    /\ acc.max_weight > 0 => acc.max_index \in 1..n /\ counts[acc.max_index] = acc.max_weight
    /\ acc.is_tie <=> /\ acc.max_weight > 0
                      /\ \E j \in 1..n : j # acc.max_index /\ counts[j] = acc.max_weight

\* One turn of the loop adds one option to what it knows.
LEMMA LoopStep ==
    ASSUME NEW counts \in Seq(Nat), NEW n \in Nat, n + 1 \in DOMAIN counts, NEW acc,
           Known(counts, n, acc)
    PROVE  Known(counts, n + 1, T!LoopBody(counts, acc, n + 1))
  <1>. DEFINE i == n + 1
             new == T!LoopBody(counts, acc, i)
  <1>1. /\ acc \in Acc /\ new \in Acc
        /\ \A j \in 1..i : counts[j] \in Nat /\ (j \in 1..n \/ j = i)
        /\ 1..n \subseteq 1..i /\ i \in 1..i /\ i \in Nat /\ i \notin 1..n
    BY LoopType DEF Known
  <1>1a. acc.max_weight \in Nat /\ acc.max_index \in Nat \ {0} /\ acc.is_tie \in BOOLEAN
    BY <1>1 DEF Acc
  <1>2. CASE counts[i] > acc.max_weight
    <2>1. new.max_weight = counts[i] /\ new.max_index = i /\ new.is_tie = FALSE
      BY <1>2 DEF T!LoopBody
    <2>2. \A j \in 1..i : j # i => counts[j] < counts[i]
      BY <1>1, <1>1a, <1>2 DEF Known
    <2> HIDE DEF i, new
    <2>3. counts[i] > 0
      BY <1>1, <1>1a, <1>2
    <2>4. \A j \in 1..i : counts[j] <= counts[i]
      BY <1>1, <2>2
    <2>5. ~ \E j \in 1..i : j # i /\ counts[j] = counts[i]
      BY <1>1, <2>2
    <2> QED
      BY <1>1, <2>1, <2>3, <2>4, <2>5 DEF Known, i, new
  <1>3. CASE counts[i] = acc.max_weight /\ counts[i] > 0
    <2>1. /\ new.max_weight = acc.max_weight /\ new.max_index = acc.max_index
          /\ new.is_tie = TRUE
      BY <1>1, <1>1a, <1>3 DEF T!LoopBody, Acc
    <2> HIDE DEF i, new
    <2>2. acc.max_index \in 1..n /\ counts[acc.max_index] = acc.max_weight
      BY <1>3, <1>1a DEF Known
    <2>3. i # acc.max_index
      BY <1>1, <2>2
    <2> QED
      BY <1>1, <1>3, <2>1, <2>2, <2>3 DEF Known, i, new
  <1>4. CASE ~(counts[i] > acc.max_weight) /\ ~(counts[i] = acc.max_weight /\ counts[i] > 0)
    <2>1. new = acc
      BY <1>4 DEF T!LoopBody
    <2>2. counts[i] <= acc.max_weight /\ (acc.max_weight > 0 => counts[i] # acc.max_weight)
      BY <1>1, <1>1a, <1>4
    <2> HIDE DEF i, new
    <2> QED
      BY <1>1, <2>1, <2>2 DEF Known, i, new
  <1> QED
    BY <1>2, <1>3, <1>4

\* The loop's locals after all the options.
LEMMA ScanKnows ==
    ASSUME NEW counts \in Seq(Nat)
    PROVE  Known(counts, Len(counts), T!Scan(counts))
  <1>. DEFINE S == 1..Len(counts)
             pick == [s \in SUBSET S |-> Greatest(s)]
             step == [p \in S \X Acc |-> T!LoopBody(counts, p[2], p[1])]
  <1>1. DOMAIN counts = S /\ IsFiniteSet(S) /\ Len(counts) \in Nat
    BY FS_Interval
  <1>2. \A s \in SUBSET S : s # {} => /\ Greatest(s) \in s
                                      /\ \A y \in s : Greatest(s) >= y
    <2>1. SUFFICES ASSUME NEW s \in SUBSET S, s # {}
                   PROVE  Greatest(s) \in s /\ \A y \in s : Greatest(s) >= y
      OBVIOUS
    <2>2. s \in SUBSET (0..Len(counts))
      OBVIOUS
    <2>3. \E x \in s : \A y \in s : x >= y
      BY <1>1, <2>1, <2>2, LargestExists
    <2>. QED
      BY <2>3 DEF Greatest
  <1>3. /\ \A s \in SUBSET S : pick[s] = Greatest(s)
        /\ \A x \in S, v \in Acc : /\ step[<<x, v>>] = T!LoopBody(counts, v, x)
                                   /\ step[<<x, v>>] \in Acc
    BY <1>1, LoopType
  <1>. HIDE DEF pick, step
  <1>4. T!LoopStart \in Acc
    BY DEF T!LoopStart, Acc
  <1>5. Foldable(S, pick, Acc, T!LoopStart, step)
    BY <1>1, <1>2, <1>3, <1>4 DEF Foldable
  <1>6. PICK f : Folds(S, pick, Acc, T!LoopStart, step, f)
    BY <1>5, FoldExists
  <1>7. DOMAIN Indices(counts) = S /\ \A i \in S : Indices(counts)[i] = i
    BY <1>1 DEF Indices
  <1>8. Scanning(counts, f)
    <2>0. /\ f \in [SUBSET S -> Acc] /\ f[{}] = T!LoopStart
          /\ \A s \in SUBSET S : s # {} => f[s] = step[<<pick[s], f[s \ {pick[s]}]>>]
      BY <1>6 DEF Folds
    <2>1. ASSUME NEW s \in SUBSET S, s # {}
          PROVE  f[s] = T!LoopBody(counts, f[s \ {Greatest(s)}], Indices(counts)[Greatest(s)])
      <3>1. Greatest(s) \in S /\ f[s \ {Greatest(s)}] \in Acc
        BY <1>2, <2>0, <2>1
      <3>. QED
        <4>. DEFINE m == Greatest(s)
                    v == f[s \ {m}]
        <4>1. m \in S /\ v \in Acc /\ pick[s] = m /\ f[s] = step[<<m, v>>]
          BY <1>3, <2>0, <2>1, <3>1
        <4>. HIDE DEF m, v
        <4>2. f[s] = T!LoopBody(counts, v, Indices(counts)[m])
          BY <1>3, <1>7, <4>1
        <4>. QED
          BY <4>2 DEF m, v
    <2>. HIDE DEF S
    <2>. QED
      BY <1>7, <2>0, <2>1 DEF Scanning
  <1>. DEFINE g == CHOOSE h : Scanning(counts, h)
  <1>9. Scanning(counts, g) /\ T!Scan(counts) = g[S]
    BY <1>7, <1>8, ScanUnfolds
  <1>. HIDE DEF g
  <1>10. /\ g[{}] = T!LoopStart
         /\ \A s \in SUBSET S : s # {} =>
               g[s] = T!LoopBody(counts, g[s \ {Greatest(s)}], Greatest(s))
    <2>1. /\ g[{}] = T!LoopStart
          /\ \A s \in SUBSET S : s # {} =>
               g[s] = T!LoopBody(counts, g[s \ {Greatest(s)}], Indices(counts)[Greatest(s)])
      <3>. HIDE DEF S
      <3>. QED
        BY <1>7, <1>9 DEF Scanning
    <2>. QED
      BY <1>2, <1>7, <2>1
  <1>. DEFINE N == {n \in Nat : n <= Len(counts) => Known(counts, n, g[1..n])}
  <1>11. 0 \in N
    <2>1. 1..0 = {}
      OBVIOUS
    <2>2. Known(counts, 0, T!LoopStart)
      BY <1>4, <2>1 DEF Known, T!LoopStart
    <2>. QED
      BY <1>10, <2>1, <2>2
  <1>12. ASSUME NEW n \in N
         PROVE  n + 1 \in N
    <2>1. SUFFICES ASSUME n + 1 <= Len(counts)
                   PROVE  Known(counts, n + 1, g[1..(n + 1)])
      OBVIOUS
    <2>2. n \in Nat /\ Known(counts, n, g[1..n]) /\ n + 1 \in DOMAIN counts
      BY <1>1, <2>1
    <2>. DEFINE s == 1..(n + 1)
    <2>3. s \in SUBSET S /\ s # {}
      <3>1. n \in Nat /\ Len(counts) \in Nat /\ n + 1 <= Len(counts)
        BY <1>1, <2>1
      <3>2. \A x \in 1..(n + 1) : x \in 1..Len(counts)
        BY <3>1
      <3>3. 1 \in s
        BY <3>1
      <3>. QED
        BY <3>2, <3>3
    <2>4. Greatest(s) = n + 1
      <3>1. Greatest(s) \in s /\ \A y \in s : Greatest(s) >= y
        BY <1>2, <2>3
      <3>2. n + 1 \in s
        BY <2>2
      <3>. QED
        BY <2>2, <3>1, <3>2
    <2>5. s \ {n + 1} = 1..n
      BY <2>2
    <2>6. g[s] = T!LoopBody(counts, g[1..n], n + 1)
      BY <1>10, <2>3, <2>4, <2>5
    <2>. QED
      BY <2>2, <2>6, LoopStep
  <1>13. N = Nat
    <2>. HIDE DEF N
    <2>1. N \in SUBSET Nat
      BY DEF N
    <2>. QED
      BY <1>11, <1>12, <2>1, NumberInduction
  <1>. QED
    BY <1>1, <1>9, <1>13

\* close_proposal's loop finds the heaviest option, and tells a tie, for any
\* number of options and any weights.
THEOREM LoopFindsHeaviest == \A counts \in Seq(Nat) : T!ScanFindsHeaviest(counts)
  <1>. SUFFICES ASSUME NEW counts \in Seq(Nat), \E i \in DOMAIN counts : counts[i] > 0
                PROVE  LET scan == T!Scan(counts)
                       IN  /\ scan.is_tie <=> \E i, j \in T!Heaviest(counts) : i # j
                           /\ scan.max_index \in T!Heaviest(counts)
                           /\ scan.max_weight = counts[scan.max_index]
    BY DEF T!ScanFindsHeaviest
  <1>. DEFINE scan == T!Scan(counts)
             m == scan.max_index
             w == scan.max_weight
  <1>1. /\ Known(counts, Len(counts), scan)
        /\ DOMAIN counts = 1..Len(counts)
        /\ \A i \in DOMAIN counts : counts[i] \in Nat
    BY ScanKnows
  <1>. HIDE DEF scan
  <1>2. /\ w \in Nat /\ scan.is_tie \in BOOLEAN
        /\ \A j \in DOMAIN counts : counts[j] <= w
    BY <1>1 DEF Known, Acc
  <1>3. w > 0
    BY <1>1, <1>2
  <1>4. /\ m \in DOMAIN counts /\ counts[m] = w
        /\ scan.is_tie <=> \E j \in DOMAIN counts : j # m /\ counts[j] = w
    BY <1>1, <1>3 DEF Known
  <1>5. T!Heaviest(counts) = {i \in DOMAIN counts : counts[i] = w}
    BY <1>1, <1>2, <1>4 DEF T!Heaviest
  <1>. QED
    BY <1>4, <1>5 DEF scan
----------------------------------------------------------------------------
(* The inductive invariant, part by part. *)

\* A proposal's fields, with the numbers the program writes for its status.
Record ==
    [proposal_type : Nat, vote_counts : Seq(Nat), voting_starts : Nat,
     voting_ends : Nat, status : {0, 1, 2}, total_vote_weight : Nat,
     winning_option_index : Nat, executed : BOOLEAN, passed_at : Nat,
     quorum_snapshot : Nat]

\* The outcome is that of the votes.
Decided(proposal) ==
    LET winner == proposal.winning_option_index
        best   == T!Heaviest(proposal.vote_counts)
    IN  /\ proposal.status = 0 => winner = 255
        /\ proposal.status = 1 =>
              winner = 0 /\ best = {1} /\ proposal.total_vote_weight > 0
        /\ proposal.status = 2 =>
              winner = 255 \/ (winner > 0 /\ best = {winner + 1})

\* A proposal has options and a window of the minimum length, its total is the
\* sum of its tallies, it has passed only after its end, and is executed only
\* when it has passed and is to sell.
Sound(proposal) ==
    /\ Len(proposal.vote_counts) > 0
    /\ proposal.total_vote_weight = Sum(proposal.vote_counts)
    /\ Decided(proposal)
    /\ proposal.voting_ends - proposal.voting_starts >= MIN_VOTING_PERIOD
    /\ proposal.voting_ends > 0
    /\ proposal.status = 1 => proposal.passed_at >= proposal.voting_ends
    /\ proposal.executed => proposal.status = 1 /\ proposal.proposal_type = 1

\* An open exit rests on an executed proposal whose timelock was over.
Backed(pair) ==
    exits[pair] # NoExit =>
        LET p == exits[pair].proposal_id
        IN  /\ p \in Ids
            /\ Prop(p).executed
            /\ exits[pair].created_at >= Prop(p).voting_ends + MIN_EXECUTION_DELAY

\* No two open exits rest on the same proposal.
OneEach ==
    \A pair, other \in Pairs :
        /\ exits[pair] # NoExit /\ exits[other] # NoExit
        /\ exits[pair].proposal_id = exits[other].proposal_id
        => pair = other

\* The types of what the voters hold.
PoolInv ==
    /\ wallet \in [Voters -> Nat] /\ staked \in [Voters -> Nat]
    /\ multiplier \in [Voters -> 0..3] /\ now \in Nat

\* Every proposal is sound.
PropInv ==
    /\ proposals \in Seq(Record)
    /\ \A i \in DOMAIN proposals : Sound(proposals[i])

\* Every open exit is backed, by a proposal of its own.
ExitInv ==
    /\ exits \in [Pairs -> [proposal_id : Int, created_at : Int]]
    /\ \A pair \in Pairs : Backed(pair)
    /\ OneEach

\* The next proposal's id is the number of proposals.
ConfigInv ==
    /\ config \in [next_proposal_id : Nat, auto_execute : BOOLEAN,
                   min_quorum_bps : Nat]
    /\ config.next_proposal_id = Len(proposals)
    /\ is_paused \in BOOLEAN

\* Records are of votes on existing proposals, one per voter and proposal.
RecordInv ==
    /\ IsFiniteSet(vote_records)
    /\ \A r \in vote_records : r \in VoteRecord /\ r.proposal_id \in Ids
    /\ \A r, s \in vote_records :
          r.proposal_id = s.proposal_id /\ r.voter = s.voter => r = s

\* An active proposal's tally of an option is the weight of the records for
\* it; later, when records are closed, it is no less.
Tallied(p, option) ==
    IF Prop(p).status = 0
    THEN Prop(p).vote_counts[option] = Weights(RecordsFor(p, option))
    ELSE Prop(p).vote_counts[option] >= Weights(RecordsFor(p, option))

\* Every tally matches its records.
TallyInv ==
    \A p \in Ids : \A option \in DOMAIN Prop(p).vote_counts : Tallied(p, option)

\* The account of id p is the sequence's element p + 1.
LEMMA IdsIndex ==
    ASSUME proposals \in Seq(Record)
    PROVE  /\ \A p \in Ids : p \in Nat /\ p + 1 \in DOMAIN proposals /\ Prop(p) \in Record
           /\ \A i \in DOMAIN proposals : i - 1 \in Ids /\ Prop(i - 1) = proposals[i]
           /\ DOMAIN proposals = 1..Len(proposals) /\ Len(proposals) \in Nat
  BY DEF Ids, Prop

\* A tally is a natural number.
LEMMA TallyType ==
    ASSUME proposals \in Seq(Record), NEW p \in Ids,
           NEW option \in DOMAIN Prop(p).vote_counts
    PROVE  Prop(p).vote_counts[option] \in Nat
  <1>1. Prop(p) \in Record
    BY IdsIndex
  <1>2. Prop(p).vote_counts \in Seq(Nat)
    BY <1>1 DEF Record
  <1>. QED
    BY <1>2
----------------------------------------------------------------------------
(* The weights of the vote records. *)

\* The weight of a set of records is the sum of their weights.
LEMMA WeightsSum ==
    ASSUME NEW R, IsFiniteSet(R), \A r \in R : r.weight \in Nat
    PROVE  Weights(R) = SumFunction([r \in R |-> r.weight])
  <1>. DEFINE f == [r \in R |-> r.weight]
              Adding(g) == g = [s \in SUBSET R |->
                                  IF s = {} THEN 0
                                  ELSE (CHOOSE x \in s : TRUE).weight
                                          + g[s \ {CHOOSE x \in s : TRUE}]]
              g == CHOOSE h : Adding(h)
  <1>1. Weights(R) = g[R]
    BY DEF Weights, MapThenSumSet, MapThenFoldSet
  <1>2. f \in [R -> Int]
    OBVIOUS
  <1>3. \A h : Summing(f, R, h) <=> Adding(h)
    <2>1. \A s \in SUBSET R : s # {} =>
             f[CHOOSE x \in s : TRUE] = (CHOOSE x \in s : TRUE).weight
      OBVIOUS
    <2>. HIDE DEF f
    <2>. QED
      BY <2>1 DEF Summing
  <1>. HIDE DEF f, Adding
  <1>4. PICK h : Adding(h)
    BY <1>2, <1>3, SummingExists
  <1>5. Adding(g)
    BY <1>4
  <1>. HIDE DEF g
  <1>6. Sums(f, R, g)
    BY <1>2, <1>3, <1>5, SummingSums
  <1>7. SumFunction(f) = g[R]
    BY <1>2, <1>6, SumOfPart
  <1>. QED
    BY <1>1, <1>7 DEF f

\* No record weighs nothing, a new one adds its weight, and a part of the
\* records weighs no more than they all.
LEMMA WeightsEmpty == Weights({}) = 0
  <1>. DEFINE f == [r \in {} |-> r.weight]
  <1>1. Weights({}) = SumFunction(f)
    BY WeightsSum, FS_EmptySet
  <1>2. f \in [{} -> Int]
    OBVIOUS
  <1>. HIDE DEF f
  <1>. QED
    BY <1>1, <1>2, SumZero, FS_EmptySet

\* Another record adds its weight.
LEMMA WeightsAdd ==
    ASSUME NEW R, IsFiniteSet(R), \A r \in R : r.weight \in Nat,
           NEW n, n \notin R, n.weight \in Nat
    PROVE  Weights(R \cup {n}) = Weights(R) + n.weight
  <1>. DEFINE U == R \cup {n}
              f == [r \in R |-> r.weight]
              h == [r \in U |-> r.weight]
  <1>1. IsFiniteSet(U) /\ \A r \in U : r.weight \in Nat
    BY FS_AddElement
  <1>2. Weights(R) = SumFunction(f) /\ Weights(U) = SumFunction(h)
    <2>. HIDE DEF U
    <2>. QED
      BY <1>1, WeightsSum
  <1>3. /\ U \ {n} = R /\ n \in U
        /\ f \in [U \ {n} -> Int] /\ h \in [U -> Int] /\ h[n] = n.weight
        /\ \A r \in U \ {n} : h[r] = f[r]
    OBVIOUS
  <1>. HIDE DEF f, h, U
  <1>4. SumFunction(h) = SumFunction(f) + h[n]
    BY <1>1, <1>3, SumAdded
  <1>. QED
    BY <1>2, <1>3, <1>4 DEF U

\* A part of the records has no more weight than all of them.
LEMMA WeightsPart ==
    ASSUME NEW R, IsFiniteSet(R), \A r \in R : r.weight \in Nat,
           NEW Q \in SUBSET R
    PROVE  Weights(Q) <= Weights(R) /\ Weights(Q) \in Nat /\ Weights(R) \in Nat
  <1>. DEFINE f == [r \in R |-> r.weight]
              h == [r \in Q |-> r.weight]
  <1>1. IsFiniteSet(Q) /\ \A r \in Q : r.weight \in Nat
    BY FS_Subset
  <1>2. Weights(R) = SumFunction(f) /\ Weights(Q) = SumFunction(h)
    BY <1>1, WeightsSum
  <1>3. f \in [R -> Nat] /\ h \in [Q -> Nat] /\ \A r \in Q : h[r] = f[r]
    OBVIOUS
  <1>. HIDE DEF f, h
  <1>. QED
    BY <1>1, <1>2, <1>3, SumOverLess, SumNat
----------------------------------------------------------------------------
(* One proposal at a time. *)

\* Records stay records when a field changes.
LEMMA FieldChanges ==
    ASSUME NEW r \in Record
    PROVE  /\ \A s \in {0, 1, 2} : [r EXCEPT !.status = s] \in Record
           /\ \A n \in Nat : [r EXCEPT !.winning_option_index = n] \in Record
           /\ \A t \in Nat : [r EXCEPT !.passed_at = t] \in Record
           /\ [r EXCEPT !.executed = TRUE] \in Record
           /\ \A c \in Seq(Nat) : [r EXCEPT !.vote_counts = c] \in Record
           /\ \A w \in Nat : [r EXCEPT !.total_vote_weight = w] \in Record
  <1>1. \A s \in {0, 1, 2} : [r EXCEPT !.status = s] \in Record
    BY DEF Record
  <1>2. \A n \in Nat : [r EXCEPT !.winning_option_index = n] \in Record
    BY DEF Record
  <1>3. \A t \in Nat : [r EXCEPT !.passed_at = t] \in Record
    BY DEF Record
  <1>4. [r EXCEPT !.executed = TRUE] \in Record
    BY DEF Record
  <1>5. \A c \in Seq(Nat) : [r EXCEPT !.vote_counts = c] \in Record
    BY DEF Record
  <1>6. \A w \in Nat : [r EXCEPT !.total_vote_weight = w] \in Record
    BY DEF Record
  <1>. QED
    BY <1>1, <1>2, <1>3, <1>4, <1>5, <1>6

\* What a vote may change of a proposal, and what its closing may.
Voted(old, new) ==
    /\ old.status = 0 /\ new.status = 0
    /\ new.executed = old.executed
    /\ new.voting_ends = old.voting_ends /\ new.voting_starts = old.voting_starts

ClosedTo(old, new) ==
    /\ old.status = 0 /\ new.status \in {1, 2}
    /\ new.executed = old.executed
    /\ new.voting_ends = old.voting_ends /\ new.voting_starts = old.voting_starts
    /\ new.vote_counts = old.vote_counts

ExecutedTo(old, new) ==
    /\ old.status = 1 /\ ~old.executed
    /\ new = [old EXCEPT !.executed = TRUE]

\* A proposal without a winner is a record.
LEMMA UnnamedRecord ==
    ASSUME NEW r \in Record
    PROVE  [r EXCEPT !.winning_option_index = 255] \in Record
  <1>1. 255 \in Nat
    OBVIOUS
  <1>2. \A n \in Nat : [r EXCEPT !.winning_option_index = n] \in Record
    BY FieldChanges
  <1>. QED
    BY <1>1, <1>2

\* Tallies with a positive sum have a heaviest option, the only one if there
\* is no tie.
LEMMA ScanOfVotes ==
    ASSUME NEW counts \in Seq(Nat), Sum(counts) # 0
    PROVE  LET scan == T!Scan(counts)
           IN  /\ scan.max_index \in Nat /\ scan.max_index > 0
               /\ ~scan.is_tie => T!Heaviest(counts) = {scan.max_index}
  <1>. DEFINE scan == T!Scan(counts)
  <1>1. DOMAIN counts = 1..Len(counts) /\ IsFiniteSet(DOMAIN counts)
    BY FS_Interval
  <1>2. \E i \in DOMAIN counts : counts[i] > 0
    <2>1. SUFFICES ASSUME \A i \in DOMAIN counts : counts[i] = 0
                   PROVE  FALSE
      BY <1>1
    <2>2. counts \in [DOMAIN counts -> Int]
      OBVIOUS
    <2>3. SumFunction(counts) = 0
      BY <1>1, <2>1, <2>2, SumZero
    <2>. QED
      BY <2>3 DEF Sum
  <1>3. /\ scan.is_tie <=> \E i, j \in T!Heaviest(counts) : i # j
        /\ scan.max_index \in T!Heaviest(counts)
    BY <1>2, LoopFindsHeaviest DEF T!ScanFindsHeaviest
  <1>4. scan.max_index \in DOMAIN counts
    BY <1>3 DEF T!Heaviest
  <1>. HIDE DEF scan
  <1>5. ~scan.is_tie => T!Heaviest(counts) = {scan.max_index}
    BY <1>3
  <1>. QED
    BY <1>1, <1>4, <1>5 DEF scan

\* Closing a proposal settles it by its votes and leaves its terms.
LEMMA ResolvedProposal ==
    ASSUME NEW proposal \in Record, proposal.status = 0, Sound(proposal),
           now \in Nat, now >= proposal.voting_ends
    PROVE  /\ Resolved(proposal) \in Record
           /\ Sound(Resolved(proposal))
           /\ ClosedTo(proposal, Resolved(proposal))
  <1>. DEFINE scan == T!Scan(proposal.vote_counts)
              first == scan.max_index
              unresolved == \/ proposal.total_vote_weight = 0
                            \/ T!MissesQuorum(proposal.total_vote_weight,
                                  proposal.quorum_snapshot, config.min_quorum_bps)
                            \/ scan.is_tie
  <1>1. ~proposal.executed
    BY DEF Sound
  <1>2. CASE unresolved
    <2>. DEFINE r1 == [proposal EXCEPT !.status = 2]
                new == [r1 EXCEPT !.winning_option_index = 255]
    <2>1. Resolved(proposal) = new
      BY <1>2 DEF Resolved, RejectUnresolved, Rejected, Unresolved
    <2>2. r1 \in Record
      BY FieldChanges
    <2>3. new \in Record
      <3>. HIDE DEF r1
      <3>. QED
        BY <2>2, UnnamedRecord
    <2>4. /\ new.status = 2 /\ new.executed = proposal.executed
          /\ new.winning_option_index = 255
          /\ new.total_vote_weight = proposal.total_vote_weight
          /\ new.voting_ends = proposal.voting_ends
          /\ new.voting_starts = proposal.voting_starts
          /\ new.vote_counts = proposal.vote_counts
      BY DEF Record
    <2>. HIDE DEF new
    <2>. QED
      BY <1>1, <2>1, <2>3, <2>4 DEF Sound, Decided, ClosedTo
  <1>3. CASE ~unresolved
    <2>. DEFINE status == IF first = 1 THEN 1 ELSE 2
                passed_at == IF first = 1 THEN now ELSE 0
                r1 == [proposal EXCEPT !.winning_option_index = first - 1]
                r2 == [r1 EXCEPT !.status = status]
                new == [r2 EXCEPT !.passed_at = passed_at]
    <2>1. /\ first \in Nat /\ first > 0 /\ first - 1 \in Nat
          /\ T!Heaviest(proposal.vote_counts) = {first}
      BY <1>3, ScanOfVotes DEF Sound, Record
    <2>2. Resolved(proposal) = new
      BY <1>3 DEF Resolved, Passed, Rejected
    <2>3. proposal.total_vote_weight > 0
      BY <1>3 DEF Record
    <2>. HIDE DEF unresolved, scan, first
    <2>4. r1 \in Record
      BY <2>1, FieldChanges
    <2>5. r2 \in Record
      BY <2>4, FieldChanges
    <2>6. new \in Record
      BY <2>5, FieldChanges
    <2>7. /\ new.status = status /\ new.executed = proposal.executed
          /\ new.winning_option_index = first - 1
          /\ new.total_vote_weight = proposal.total_vote_weight
          /\ new.voting_ends = proposal.voting_ends
          /\ new.voting_starts = proposal.voting_starts
          /\ new.vote_counts = proposal.vote_counts
          /\ new.passed_at = passed_at
      BY DEF Record
    <2>. HIDE DEF new
    <2>8. Decided(new)
      BY <2>1, <2>3, <2>7 DEF Decided
    <2>. QED
      BY <1>1, <2>2, <2>6, <2>7, <2>8 DEF Sound, ClosedTo
  <1>. QED
    BY <1>2, <1>3
----------------------------------------------------------------------------
(* What a step does to the proposals. *)

\* A new proposal, sound and not executed, or one that changes.
Created == \E r \in Record : /\ Sound(r) /\ ~r.executed
                             /\ \A i \in DOMAIN r.vote_counts : r.vote_counts[i] = 0
                             /\ proposals' = Append(proposals, r)

Changed(i, r) ==
    /\ proposals' = [proposals EXCEPT ![i] = r]
    /\ Sound(r)
    /\ \/ Voted(proposals[i], r) /\ now >= proposals[i].voting_starts
                                 /\ now < proposals[i].voting_ends /\ ~is_paused
       \/ ClosedTo(proposals[i], r) /\ now >= proposals[i].voting_ends
       \/ ExecutedTo(proposals[i], r)

\* create_proposal appends a sound proposal without votes.
LEMMA CreateStep ==
    ASSUME PropInv, PoolInv, NEW type \in ProposalTypes, NEW options \in OptionCounts,
           NEW window \in Windows, CreateProposal(type, options, window[1], window[2])
    PROVE  Created
  <1>. DEFINE counts == [i \in 1..options |-> 0]
              base == [v \in Voters |-> staked[v] * multiplier[v]]
              r == [proposal_type |-> type, vote_counts |-> counts,
                    voting_starts |-> window[1], voting_ends |-> window[2],
                    status |-> 0, total_vote_weight |-> 0,
                    winning_option_index |-> 255, executed |-> FALSE,
                    passed_at |-> 0, quorum_snapshot |-> total_weighted_stake]
  <1>1. type \in Nat /\ options \in Nat /\ window[1] \in Nat /\ window[2] \in Nat
    BY GovernanceAssumption
  <1>2. counts \in Seq(Nat) /\ Len(counts) = options
        /\ DOMAIN counts = 1..options /\ \A i \in 1..options : counts[i] = 0
    BY <1>1
  <1>3. Sum(counts) = 0
    <2>1. IsFiniteSet(1..options) /\ counts \in [1..options -> Int]
      BY <1>1, FS_Interval
    <2>. HIDE DEF counts
    <2>. QED
      BY <1>2, <2>1, SumZero DEF Sum
  <1>4. total_weighted_stake \in Nat
    <2>1. \A v \in Voters : staked[v] \in Nat /\ multiplier[v] \in Nat
      BY DEF PoolInv
    <2>2. \A a, b \in Nat : a * b \in Nat
      OBVIOUS
    <2>3. base \in [Voters -> Nat]
      BY <2>1, <2>2
    <2>. HIDE DEF base
    <2>4. SumFunction(base) \in Nat
      BY <2>3, VotersAssumption, SumNat
    <2>. QED
      BY <2>4 DEF total_weighted_stake, Sum, base
  <1>5. r \in Record
    BY <1>1, <1>2, <1>4 DEF Record
  <1>6. options > 0
    BY <1>1, GovernanceAssumption DEF CreateProposal
  <1>7. Sound(r)
    <2>1. /\ r.vote_counts = counts /\ r.status = 0 /\ r.total_vote_weight = 0
          /\ r.winning_option_index = 255 /\ ~r.executed
          /\ r.voting_starts = window[1] /\ r.voting_ends = window[2]
      OBVIOUS
    <2>. HIDE DEF r, counts
    <2>. QED
      BY <1>1, <1>2, <1>3, <1>6, <2>1, GovernanceAssumption
      DEF Sound, Decided, CreateProposal
  <1>8. proposals' = Append(proposals, r)
    BY DEF CreateProposal, Active, Unresolved
  <1>9. ~r.executed /\ \A i \in DOMAIN r.vote_counts : r.vote_counts[i] = 0
    BY <1>2
  <1>. HIDE DEF r
  <1>. QED
    BY <1>5, <1>7, <1>8, <1>9 DEF Created

\* cast_vote changes one active proposal within its voting window.
LEMMA VoteStep ==
    ASSUME PropInv, PoolInv, NEW p, NEW voter \in Voters, NEW option,
           NEW with_staker, CastVote(p, voter, option, with_staker)
    PROVE  \E i \in DOMAIN proposals, r \in Record :
              Changed(i, r) /\ Voted(proposals[i], r)
  <1>. DEFINE old == proposals[p + 1]
              weight == VotingWeight(voter, with_staker)
              counts == [old.vote_counts EXCEPT ![option] = @ + weight]
              r1 == [old EXCEPT !.vote_counts = counts]
              new == [r1 EXCEPT !.total_vote_weight = old.total_vote_weight + weight]
  <1>1. /\ p + 1 \in DOMAIN proposals /\ old \in Record /\ Sound(old)
        /\ old.status = 0 /\ option \in DOMAIN old.vote_counts
        /\ now >= old.voting_starts /\ now < old.voting_ends /\ ~is_paused
    BY IdsIndex DEF CastVote, PropInv, Active, Prop
  <1>2. weight \in Nat
    BY DEF VotingWeight, PoolInv
  <1>3. counts \in Seq(Nat)
    <2>1. old.vote_counts \in Seq(Nat) /\ option \in 1..Len(old.vote_counts)
      BY <1>1 DEF Record
    <2>2. old.vote_counts[option] + weight \in Nat
      BY <1>2, <2>1
    <2>. QED
      BY <2>1, <2>2, ExceptSeq
  <1>4. r1 \in Record
    BY <1>1, <1>3, FieldChanges
  <1>5. new \in Record
    <2>1. old.total_vote_weight + weight \in Nat
      BY <1>1, <1>2 DEF Record
    <2>. QED
      BY <1>4, <2>1, FieldChanges
  <1>6. proposals' = [proposals EXCEPT ![p + 1] = new]
    <2>1. proposals' = [proposals EXCEPT ![p + 1].vote_counts[option] = @ + weight,
                                         ![p + 1].total_vote_weight = @ + weight]
      BY DEF CastVote
    <2>2. r1.total_vote_weight = old.total_vote_weight
      BY <1>1 DEF Record
    <2>. QED
      BY <1>1, <2>1, <2>2
  <1>7. Sound(new) /\ Voted(old, new)
    <2>1. /\ new.vote_counts = counts
          /\ new.total_vote_weight = old.total_vote_weight + weight
          /\ new.status = 0 /\ new.executed = old.executed
          /\ new.voting_ends = old.voting_ends /\ new.voting_starts = old.voting_starts
          /\ new.winning_option_index = old.winning_option_index
      BY <1>1 DEF Record
    <2>2. Len(counts) = Len(old.vote_counts)
      BY <1>1 DEF Record
    <2>3. Sum(counts) = Sum(old.vote_counts) + weight
      <3>. DEFINE D == DOMAIN old.vote_counts
      <3>1. old.vote_counts \in Seq(Nat) /\ D = 1..Len(old.vote_counts)
        BY <1>1 DEF Record
      <3>2. IsFiniteSet(D) /\ old.vote_counts \in [D -> Int]
        BY <3>1, FS_Interval
      <3>3. /\ counts \in [D -> Int] /\ option \in D
            /\ counts[option] = old.vote_counts[option] + weight
            /\ \A x \in D : x # option => counts[x] = old.vote_counts[x]
        BY <1>1, <1>2, <3>2
      <3>. HIDE DEF D, counts
      <3>4. SumFunction(counts) =
               SumFunction(old.vote_counts) - old.vote_counts[option] + counts[option]
        BY <3>2, <3>3, SumUpdate
      <3>5. SumFunction(old.vote_counts) \in Int /\ old.vote_counts[option] \in Int
        BY <3>2, <3>3, SumType
      <3>. QED
        BY <1>2, <3>3, <3>4, <3>5 DEF Sum
    <2>. HIDE DEF new, counts
    <2>4. Decided(new)
      BY <1>1, <2>1 DEF Sound, Decided
    <2>5. new.total_vote_weight = Sum(new.vote_counts)
      BY <1>1, <2>1, <2>3 DEF Sound
    <2>. QED
      BY <1>1, <2>1, <2>2, <2>4, <2>5 DEF Sound, Voted
  <1>. HIDE DEF new
  <1>8. Changed(p + 1, new)
    BY <1>1, <1>6, <1>7 DEF Changed
  <1>. QED
    BY <1>1, <1>5, <1>7, <1>8

\* close_proposal decides one proposal whose voting is over.
LEMMA CloseStep ==
    ASSUME PropInv, PoolInv, NEW p, CloseProposal(p)
    PROVE  \E i \in DOMAIN proposals, r \in Record :
              Changed(i, r) /\ ClosedTo(proposals[i], r)
  <1>. DEFINE old == proposals[p + 1]
  <1>1. /\ p + 1 \in DOMAIN proposals /\ old \in Record /\ Sound(old)
        /\ old.status = 0 /\ now >= old.voting_ends
    BY IdsIndex DEF CloseProposal, VotingOver, PropInv, Active, Prop
  <1>2. proposals' = [proposals EXCEPT ![p + 1] = Resolved(old)]
    BY DEF CloseProposal
  <1>3. Resolved(old) \in Record /\ Sound(Resolved(old)) /\ ClosedTo(old, Resolved(old))
    BY <1>1, ResolvedProposal DEF PoolInv
  <1>. QED
    BY <1>1, <1>2, <1>3 DEF Changed

\* governance_initiate_exit spends a passed proposal after its timelock, and
\* opens an exit on it.
LEMMA ExecuteStep ==
    ASSUME PropInv, PoolInv, NEW p, NEW pair \in Pairs, NEW by_owner,
           GovernanceInitiateExit(p, pair, by_owner)
    PROVE  /\ p \in Ids /\ p + 1 \in DOMAIN proposals
           /\ \E r \in Record : /\ ExecutedTo(proposals[p + 1], r)
                                /\ Changed(p + 1, r)
           /\ now >= proposals[p + 1].voting_ends + MIN_EXECUTION_DELAY
           /\ exits' = [exits EXCEPT ![pair] = [proposal_id |-> p, created_at |-> now]]
  <1>. DEFINE old == proposals[p + 1]
              new == [old EXCEPT !.executed = TRUE]
  <1>1. /\ p \in Ids /\ p + 1 \in DOMAIN proposals /\ old \in Record /\ Sound(old)
        /\ old.status = 1 /\ ~old.executed /\ old.proposal_type = 1
    BY IdsIndex DEF GovernanceInitiateExit, NotExecuted, PropInv, Passed, SELL, Prop
  <1>2. proposals' = [proposals EXCEPT ![p + 1] = new]
    BY <1>1 DEF GovernanceInitiateExit
  <1>3. new \in Record /\ Sound(new)
    <2>1. new \in Record
      BY <1>1, FieldChanges
    <2>2. /\ new.executed /\ new.status = old.status
          /\ new.proposal_type = old.proposal_type
          /\ new.total_vote_weight = old.total_vote_weight
          /\ new.winning_option_index = old.winning_option_index
          /\ new.voting_ends = old.voting_ends /\ new.passed_at = old.passed_at
          /\ new.voting_starts = old.voting_starts /\ new.vote_counts = old.vote_counts
      BY <1>1 DEF Record
    <2>. HIDE DEF new
    <2>. QED
      BY <1>1, <2>1, <2>2 DEF Sound, Decided
  <1>4. now >= old.voting_ends + MIN_EXECUTION_DELAY
    <2>1. /\ old.passed_at >= old.voting_ends /\ old.voting_ends > 0
          /\ old.passed_at \in Nat /\ old.voting_ends \in Nat
      BY <1>1 DEF Sound, Record
    <2>2. now - old.passed_at >= MIN_EXECUTION_DELAY
      BY <2>1 DEF GovernanceInitiateExit, TimelockOver, Prop
    <2>. QED
      BY <2>1, <2>2, GovernanceAssumption DEF PoolInv
  <1>5. exits' = [exits EXCEPT ![pair] = [proposal_id |-> p, created_at |-> now]]
    BY DEF GovernanceInitiateExit
  <1>6. ExecutedTo(old, new)
    BY <1>1 DEF ExecutedTo
  <1>. HIDE DEF new
  <1>. QED
    BY <1>1, <1>2, <1>3, <1>4, <1>5, <1>6 DEF Changed

\* The instructions that can touch proposals or exits.
LEMMA OtherSteps ==
    ASSUME [Next]_vars
    PROVE  \/ \E type \in ProposalTypes, options \in OptionCounts, window \in Windows :
                 CreateProposal(type, options, window[1], window[2])
           \/ \E p \in Nat, voter \in Voters, option \in Nat, with_staker \in BOOLEAN :
                 CastVote(p, voter, option, with_staker)
           \/ \E p \in Nat : CloseProposal(p)
           \/ \E p \in Nat, pair \in Pairs, by_owner \in BOOLEAN :
                 GovernanceInitiateExit(p, pair, by_owner)
           \/ /\ UNCHANGED proposals
              /\ UNCHANGED exits \/ \E pair \in Pairs : CloseDlmmExit(pair)
  <1>1. ASSUME \E enabled \in BOOLEAN : SetAutoExecute(enabled)
        PROVE  UNCHANGED <<proposals, exits>>
    BY <1>1 DEF SetAutoExecute
  <1>2. ASSUME \E bps \in QuorumChoices : SetQuorum(bps)
        PROVE  UNCHANGED <<proposals, exits>>
    BY <1>2 DEF SetQuorum
  <1>3. ASSUME NEW p, NEW voter, CloseVoteRecord(p, voter)
        PROVE  UNCHANGED <<proposals, exits>>
    BY <1>3 DEF CloseVoteRecord
  <1>4. ASSUME NEW v \in Voters, \/ \E to \in Voters : MoveBrain(v, to)
                                 \/ StakeBrain(v) \/ RaiseMultiplier(v)
                                 \/ UnstakeBrain(v)
        PROVE  UNCHANGED <<proposals, exits>>
    BY <1>4 DEF MoveBrain, StakeBrain, RaiseMultiplier, UnstakeBrain
  <1>5. ASSUME PauseOrResume \/ Tick \/ UNCHANGED vars
        PROVE  UNCHANGED <<proposals, exits>>
    BY <1>5 DEF PauseOrResume, Tick, vars
  <1>6. ASSUME NEW pair \in Pairs, CloseDlmmExit(pair)
        PROVE  UNCHANGED proposals
    BY <1>6 DEF CloseDlmmExit
  <1>7. 0..(MaxProposals - 1) \subseteq Nat /\ 1..MAX_PROPOSAL_OPTIONS \subseteq Nat
    OBVIOUS
  <1>. QED
    BY <1>1, <1>2, <1>3, <1>4, <1>5, <1>6, <1>7 DEF Next

\* No other step changes a proposal.
LEMMA ProposalSteps ==
    ASSUME PropInv, PoolInv, [Next]_vars
    PROVE  \/ UNCHANGED proposals
           \/ Created
           \/ \E i \in DOMAIN proposals, r \in Record : Changed(i, r)
  BY OtherSteps, CreateStep, VoteStep, CloseStep, ExecuteStep

\* Every step keeps the proposals sound.
LEMMA PropInvStep ==
    ASSUME PropInv, PoolInv, [Next]_vars
    PROVE  PropInv'
  <1>1. CASE UNCHANGED proposals
    BY <1>1 DEF PropInv, Sound, Decided
  <1>2. CASE Created
    <2>1. PICK r \in Record : Sound(r) /\ proposals' = Append(proposals, r)
      BY <1>2 DEF Created
    <2>2. /\ proposals' \in Seq(Record)
          /\ DOMAIN proposals' = 1..(Len(proposals) + 1)
          /\ \A i \in 1..Len(proposals) : proposals'[i] = proposals[i]
          /\ proposals'[Len(proposals) + 1] = r
      BY <2>1, AppendProperties DEF PropInv
    <2>3. Len(proposals) \in Nat /\ DOMAIN proposals = 1..Len(proposals)
      BY DEF PropInv
    <2>4. \A i \in DOMAIN proposals' : i \in DOMAIN proposals \/ i = Len(proposals) + 1
      BY <2>2, <2>3
    <2>5. \A i \in DOMAIN proposals' : Sound(proposals'[i])
      BY <2>1, <2>2, <2>3, <2>4 DEF PropInv
    <2>. QED
      BY <2>2, <2>5 DEF PropInv, Sound, Decided
  <1>3. CASE \E i \in DOMAIN proposals, r \in Record : Changed(i, r)
    <2>1. PICK i \in DOMAIN proposals, r \in Record :
             Sound(r) /\ proposals' = [proposals EXCEPT ![i] = r]
      BY <1>3 DEF Changed
    <2>2. /\ proposals' \in Seq(Record) /\ DOMAIN proposals' = DOMAIN proposals
          /\ \A j \in DOMAIN proposals : proposals'[j] = IF j = i THEN r ELSE proposals[j]
      BY <2>1, ExceptSeq DEF PropInv
    <2>3. \A j \in DOMAIN proposals' : Sound(proposals'[j])
      BY <2>1, <2>2 DEF PropInv
    <2>. QED
      BY <2>2, <2>3 DEF PropInv, Sound, Decided
  <1>. QED
    BY <1>1, <1>2, <1>3, ProposalSteps

\* Every step keeps the voters' holdings in their types.
LEMMA PoolInvStep ==
    ASSUME PoolInv, [Next]_vars
    PROVE  PoolInv'
  <1>1. ASSUME NEW v \in Voters, NEW to \in Voters, MoveBrain(v, to)
        PROVE  PoolInv'
    BY <1>1 DEF MoveBrain, PoolInv
  <1>2. ASSUME NEW v \in Voters, StakeBrain(v)
        PROVE  PoolInv'
    BY <1>2 DEF StakeBrain, PoolInv
  <1>3. ASSUME NEW v \in Voters, RaiseMultiplier(v)
        PROVE  PoolInv'
    <2>1. multiplier[v] + 1 \in 0..3
      BY <1>3, GovernanceAssumption DEF RaiseMultiplier, PoolInv
    <2>. QED
      BY <1>3, <2>1 DEF RaiseMultiplier, PoolInv
  <1>4. ASSUME NEW v \in Voters, UnstakeBrain(v)
        PROVE  PoolInv'
    BY <1>4 DEF UnstakeBrain, PoolInv
  <1>5. CASE Tick
    BY <1>5 DEF Tick, PoolInv, pool_vars
  <1>6. ASSUME UNCHANGED <<wallet, staked, multiplier, now>>
        PROVE  PoolInv'
    BY <1>6 DEF PoolInv
  <1>7. ASSUME NEW pair \in Pairs, CloseDlmmExit(pair)
        PROVE  PoolInv'
    BY <1>6, <1>7 DEF CloseDlmmExit, pool_vars
  <1>8. ASSUME NEW p, \/ \E voter, option, with_staker :
                           \/ CastVote(p, voter, option, with_staker)
                           \/ CloseVoteRecord(p, voter)
                      \/ CloseProposal(p)
                      \/ \E pair, by_owner : GovernanceInitiateExit(p, pair, by_owner)
        PROVE  PoolInv'
    <2>1. ASSUME NEW voter, NEW option, NEW with_staker,
                 CastVote(p, voter, option, with_staker)
          PROVE  PoolInv'
      BY <1>6, <2>1 DEF CastVote, pool_vars
    <2>2. ASSUME NEW voter, CloseVoteRecord(p, voter)
          PROVE  PoolInv'
      BY <1>6, <2>2 DEF CloseVoteRecord, pool_vars
    <2>3. CASE CloseProposal(p)
      BY <1>6, <2>3 DEF CloseProposal, pool_vars
    <2>4. ASSUME NEW pair, NEW by_owner, GovernanceInitiateExit(p, pair, by_owner)
          PROVE  PoolInv'
      BY <1>6, <2>4 DEF GovernanceInitiateExit, pool_vars
    <2>. QED
      BY <1>8, <2>1, <2>2, <2>3, <2>4
  <1>9. ASSUME \/ \E enabled : SetAutoExecute(enabled)
               \/ \E bps : SetQuorum(bps)
               \/ \E type, options, starts, ends :
                     CreateProposal(type, options, starts, ends)
               \/ PauseOrResume
               \/ UNCHANGED vars
        PROVE  PoolInv'
    BY <1>6, <1>9 DEF SetAutoExecute, SetQuorum, CreateProposal, PauseOrResume,
                      pool_vars, vars
  <1>. QED
    BY <1>1, <1>2, <1>3, <1>4, <1>5, <1>7, <1>8, <1>9 DEF Next
----------------------------------------------------------------------------
(* Votes. *)

\* Tallies stay right when the records stay and no tally changes: a proposal
\* may be closed, and a new one has no votes.
LEMMA RecordsStay ==
    ASSUME PropInv, RecordInv, TallyInv, UNCHANGED vote_records,
           \A p \in Ids : p \in Ids',
           \A p \in Ids' :
              \/ /\ p \in Ids
                 /\ Prop(p)'.vote_counts = Prop(p).vote_counts
                 /\ Prop(p)'.status = Prop(p).status \/ Prop(p)'.status # 0
              \/ /\ p \notin Ids
                 /\ \A i \in DOMAIN Prop(p)'.vote_counts : Prop(p)'.vote_counts[i] = 0
    PROVE  RecordInv' /\ TallyInv'
  <1>1. RecordInv'
    BY DEF RecordInv
  <1>2. \A p, option : RecordsFor(p, option)' = RecordsFor(p, option)
    BY DEF RecordsFor
  <1>3. ASSUME NEW p \in Ids', NEW option \in DOMAIN Prop(p)'.vote_counts
        PROVE  Tallied(p, option)'
    <2>1. CASE p \notin Ids
      <3>1. RecordsFor(p, option) = {}
        BY <2>1 DEF RecordsFor, RecordInv
      <3>2. Weights(RecordsFor(p, option)') = 0
        BY <1>2, <3>1, WeightsEmpty
      <3>3. Prop(p)'.vote_counts[option] = 0
        BY <1>3, <2>1
      <3>. QED
        BY <3>2, <3>3 DEF Tallied
    <2>2. CASE p \in Ids
      <3>1. /\ Prop(p)'.vote_counts = Prop(p).vote_counts
            /\ Prop(p)'.status = Prop(p).status \/ Prop(p)'.status # 0
        BY <2>2
      <3>2. Tallied(p, option)
        BY <1>3, <2>2, <3>1 DEF TallyInv
      <3>3. Prop(p).vote_counts[option] \in Nat
        BY <1>3, <2>2, <3>1, TallyType DEF PropInv
      <3>4. Weights(RecordsFor(p, option)') = Weights(RecordsFor(p, option))
        BY <1>2
      <3>5. Prop(p).vote_counts[option] >= Weights(RecordsFor(p, option))
        BY <3>2, <3>3 DEF Tallied
      <3>. QED
        BY <3>1, <3>2, <3>4, <3>5 DEF Tallied
    <2>. QED
      BY <2>1, <2>2
  <1>. QED
    BY <1>1, <1>3 DEF TallyInv

\* A new proposal has no votes and no records.
LEMMA RecordsAtCreation ==
    ASSUME PropInv, RecordInv, TallyInv, UNCHANGED vote_records, Created
    PROVE  RecordInv' /\ TallyInv'
  <1>1. PICK r \in Record : /\ \A i \in DOMAIN r.vote_counts : r.vote_counts[i] = 0
                            /\ proposals' = Append(proposals, r)
    BY DEF Created
  <1>2. /\ Len(proposals) \in Nat
        /\ Len(proposals') = Len(proposals) + 1
        /\ \A i \in 1..Len(proposals) : proposals'[i] = proposals[i]
        /\ proposals'[Len(proposals) + 1] = r
    BY <1>1, AppendProperties DEF PropInv
  <1>3. \A p \in Ids : p \in Ids' /\ Prop(p)' = Prop(p)
    BY <1>2 DEF Ids, Prop
  <1>4. \A p \in Ids' : p \in Ids \/ (p \notin Ids /\ Prop(p)' = r)
    BY <1>2 DEF Ids, Prop
  <1>. QED
    BY <1>1, <1>3, <1>4, RecordsStay

\* Closing or executing a proposal leaves its tallies.
LEMMA RecordsAtOutcome ==
    ASSUME PropInv, RecordInv, TallyInv, UNCHANGED vote_records,
           NEW i \in DOMAIN proposals, NEW r \in Record, Changed(i, r),
           ClosedTo(proposals[i], r) \/ ExecutedTo(proposals[i], r)
    PROVE  RecordInv' /\ TallyInv'
  <1>1. /\ Len(proposals') = Len(proposals)
        /\ \A j \in DOMAIN proposals :
              proposals'[j] = IF j = i THEN r ELSE proposals[j]
    BY ExceptSeq DEF Changed, PropInv
  <1>2. proposals[i] \in Record
    BY DEF PropInv
  <1>3. r.vote_counts = proposals[i].vote_counts /\ r.status # 0
    <2>1. CASE ClosedTo(proposals[i], r)
      BY <2>1 DEF ClosedTo
    <2>2. CASE ExecutedTo(proposals[i], r)
      BY <1>2, <2>2 DEF ExecutedTo, Record
    <2>. QED
      BY <2>1, <2>2
  <1>4. Ids' = Ids
    BY <1>1 DEF Ids
  <1>5. \A p \in Ids : p + 1 \in DOMAIN proposals
    BY IdsIndex DEF PropInv
  <1>6. \A p \in Ids : /\ Prop(p)'.vote_counts = Prop(p).vote_counts
                       /\ Prop(p)'.status = Prop(p).status \/ Prop(p)'.status # 0
    BY <1>1, <1>3, <1>5 DEF Prop
  <1>. QED
    BY <1>4, <1>6, RecordsStay

\* A vote adds to one tally what its record says.
LEMMA RecordsAtVote ==
    ASSUME PropInv, PoolInv, RecordInv, TallyInv, NEW p, NEW voter \in Voters,
           NEW option, NEW with_staker, CastVote(p, voter, option, with_staker)
    PROVE  RecordInv' /\ TallyInv'
  <1>. DEFINE weight == VotingWeight(voter, with_staker)
              n == [proposal_id |-> p, voter |-> voter, option_index |-> option,
                    weight |-> weight]
              old == proposals[p + 1]
  <1>1. /\ p \in Ids /\ p \in Nat /\ p + 1 \in DOMAIN proposals /\ old \in Record
        /\ Prop(p) = old /\ old.status = 0
        /\ option \in DOMAIN old.vote_counts
    BY IdsIndex DEF CastVote, PropInv, Active, Prop
  <1>2. weight \in Nat /\ weight > 0
    BY DEF VotingWeight, PoolInv, CastVote
  <1>3. n \in VoteRecord /\ n.weight = weight /\ n.proposal_id = p
        /\ n.option_index = option /\ n.voter = voter
    <2>1. option \in Nat \ {0}
      BY <1>1 DEF Record
    <2>. QED
      BY <1>1, <1>2, <2>1 DEF VoteRecord
  <1>4. vote_records' = vote_records \cup {n}
    BY DEF CastVote, NewRecord
  <1>5. \A r \in vote_records : ~(r.proposal_id = p /\ r.voter = voter)
    BY DEF CastVote, RecordOf
  <1>. HIDE DEF n, weight
  <1>6. n \notin vote_records
    BY <1>3, <1>5
  <1>7. proposals' = [proposals EXCEPT ![p + 1].vote_counts[option] = @ + weight,
                                       ![p + 1].total_vote_weight = @ + weight]
    BY DEF CastVote, weight
  <1>8. /\ Len(proposals') = Len(proposals)
        /\ \A j \in DOMAIN proposals : j # p + 1 => proposals'[j] = proposals[j]
        /\ proposals'[p + 1].status = 0
        /\ proposals'[p + 1].vote_counts =
              [old.vote_counts EXCEPT ![option] = @ + weight]
    <2>1. PICK i \in DOMAIN proposals, r \in Record : Changed(i, r)
      BY VoteStep
    <2>2. Len(proposals') = Len(proposals)
      BY <2>1, ExceptSeq DEF Changed, PropInv
    <2>3. \A j \in DOMAIN proposals : j # p + 1 => proposals'[j] = proposals[j]
      BY <1>7
    <2>4. /\ proposals'[p + 1].status = old.status
          /\ proposals'[p + 1].vote_counts =
                [old.vote_counts EXCEPT ![option] = @ + weight]
      BY <1>1, <1>7 DEF Record
    <2>. QED
      BY <1>1, <2>2, <2>3, <2>4
  <1>9. Ids' = Ids
    BY <1>8 DEF Ids
  <1>10. RecordInv'
    <2>1. IsFiniteSet(vote_records')
      BY <1>4, FS_AddElement DEF RecordInv
    <2>2. \A r \in vote_records' : r \in VoteRecord /\ r.proposal_id \in Ids'
      BY <1>1, <1>3, <1>4, <1>9 DEF RecordInv
    <2>3. \A r, s \in vote_records' :
             r.proposal_id = s.proposal_id /\ r.voter = s.voter => r = s
      BY <1>3, <1>4, <1>5 DEF RecordInv
    <2>. QED
      BY <2>1, <2>2, <2>3 DEF RecordInv
  <1>11. \A q, o : RecordsFor(q, o)' =
            IF q = p /\ o = option THEN RecordsFor(q, o) \cup {n} ELSE RecordsFor(q, o)
    BY <1>3, <1>4 DEF RecordsFor
  <1>12. Weights(RecordsFor(p, option) \cup {n}) = Weights(RecordsFor(p, option)) + weight
    <2>. DEFINE R == RecordsFor(p, option)
    <2>1. R \subseteq vote_records
      BY DEF RecordsFor
    <2>2. IsFiniteSet(R) /\ n \notin R
      BY <1>6, <2>1, FS_Subset DEF RecordInv
    <2>3. \A r \in R : r.weight \in Nat
      BY <2>1 DEF RecordInv, VoteRecord
    <2>. HIDE DEF R
    <2>4. Weights(R \cup {n}) = Weights(R) + n.weight
      BY <1>2, <1>3, <2>2, <2>3, WeightsAdd
    <2>. QED
      BY <1>3, <2>4 DEF R
  <1>13. ASSUME NEW q \in Ids', NEW o \in DOMAIN Prop(q)'.vote_counts
         PROVE  Tallied(q, o)'
    <2>0. q \in Ids /\ q + 1 \in DOMAIN proposals /\ q \in Nat
      BY <1>9, IdsIndex DEF PropInv
    <2>1. CASE q # p
      <3>1. Prop(q)' = Prop(q)
        BY <1>1, <1>8, <2>0, <2>1 DEF Prop
      <3>2. Tallied(q, o)
        BY <1>13, <2>0, <3>1 DEF TallyInv
      <3>3. Weights(RecordsFor(q, o)') = Weights(RecordsFor(q, o))
        BY <1>11, <2>1
      <3>. QED
        BY <3>1, <3>2, <3>3 DEF Tallied
    <2>2. CASE q = p
      <3>0. Prop(q)' = proposals'[p + 1]
        BY <2>2 DEF Prop
      <3>1. /\ Prop(q)'.status = 0
            /\ Prop(q)'.vote_counts = [old.vote_counts EXCEPT ![option] = @ + weight]
        BY <1>8, <3>0
      <3>2. o \in DOMAIN old.vote_counts
        BY <1>13, <3>1
      <3>3. old.vote_counts[o] = Weights(RecordsFor(p, o))
        BY <1>1, <3>2 DEF TallyInv, Tallied
      <3>4. Prop(q)'.vote_counts[o] =
               IF o = option THEN old.vote_counts[o] + weight ELSE old.vote_counts[o]
        BY <3>1, <3>2
      <3>5. Weights(RecordsFor(q, o)') =
               IF o = option THEN Weights(RecordsFor(p, o)) + weight
               ELSE Weights(RecordsFor(p, o))
        BY <1>11, <1>12, <2>2
      <3>6. Prop(q)'.vote_counts[o] = Weights(RecordsFor(q, o)')
        BY <3>3, <3>4, <3>5
      <3>. QED
        BY <3>1, <3>6 DEF Tallied
    <2>. QED
      BY <2>1, <2>2
  <1>. QED
    BY <1>10, <1>13 DEF TallyInv

\* A record goes only after its proposal was closed.
LEMMA RecordsAtReturn ==
    ASSUME PropInv, RecordInv, TallyInv, NEW p, NEW voter, CloseVoteRecord(p, voter)
    PROVE  RecordInv' /\ TallyInv'
  <1>1. /\ vote_records' = vote_records \ RecordOf(p, voter)
        /\ UNCHANGED proposals /\ p \in Ids /\ Prop(p).status # 0
    BY DEF CloseVoteRecord, RecordClosable, Active
  <1>2. Ids' = Ids /\ \A q : Prop(q)' = Prop(q)
    BY <1>1 DEF Ids, Prop
  <1>3. RecordInv'
    <2>1. vote_records' \subseteq vote_records
      BY <1>1
    <2>2. IsFiniteSet(vote_records')
      BY <2>1, FS_Subset DEF RecordInv
    <2>. QED
      BY <1>2, <2>1, <2>2 DEF RecordInv
  <1>4. ASSUME NEW q \in Ids, NEW o \in DOMAIN Prop(q).vote_counts
        PROVE  Tallied(q, o)'
    <2>1. Tallied(q, o) /\ Prop(q).vote_counts[o] \in Nat
      BY <1>4, TallyType DEF TallyInv, PropInv
    <2>2. CASE q # p
      <3>1. RecordsFor(q, o)' = RecordsFor(q, o)
        BY <1>1, <2>2 DEF RecordsFor, RecordOf
      <3>2. Weights(RecordsFor(q, o)') = Weights(RecordsFor(q, o))
        BY <3>1
      <3>. QED
        BY <1>2, <2>1, <3>2 DEF Tallied
    <2>3. CASE q = p
      <3>1. RecordsFor(q, o)' \subseteq RecordsFor(q, o)
        BY <1>1 DEF RecordsFor
      <3>2. /\ IsFiniteSet(RecordsFor(q, o))
            /\ \A r \in RecordsFor(q, o) : r.weight \in Nat
        <4>1. RecordsFor(q, o) \subseteq vote_records
          BY DEF RecordsFor
        <4>. QED
          BY <4>1, FS_Subset DEF RecordInv, VoteRecord
      <3>3. /\ Weights(RecordsFor(q, o)') <= Weights(RecordsFor(q, o))
            /\ Weights(RecordsFor(q, o)') \in Nat /\ Weights(RecordsFor(q, o)) \in Nat
        BY <3>1, <3>2, WeightsPart
      <3>4. Prop(q).vote_counts[o] >= Weights(RecordsFor(q, o))
        BY <1>1, <2>1, <2>3 DEF Tallied
      <3>5. Prop(q).vote_counts[o] >= Weights(RecordsFor(q, o)')
        BY <2>1, <3>3, <3>4
      <3>. QED
        BY <1>1, <1>2, <2>3, <3>5 DEF Tallied
    <2>. QED
      BY <2>2, <2>3
  <1>. QED
    BY <1>2, <1>3, <1>4 DEF TallyInv

\* The other instructions touch neither records nor proposals.
LEMMA RecordsKept ==
    ASSUME RecordInv, TallyInv, UNCHANGED <<vote_records, proposals>>
    PROVE  RecordInv' /\ TallyInv'
  <1>1. Ids' = Ids /\ \A q : Prop(q)' = Prop(q)
    BY DEF Ids, Prop
  <1>2. \A q, o : RecordsFor(q, o)' = RecordsFor(q, o)
    BY DEF RecordsFor
  <1>3. \A q, o : Weights(RecordsFor(q, o)') = Weights(RecordsFor(q, o))
    BY <1>2
  <1>. QED
    BY <1>1, <1>3 DEF RecordInv, TallyInv, Tallied

\* Every step keeps records and tallies in agreement.
LEMMA RecordsStep ==
    ASSUME PropInv, PoolInv, RecordInv, TallyInv, [Next]_vars
    PROVE  RecordInv' /\ TallyInv'
  <1>1. ASSUME NEW type \in ProposalTypes, NEW options \in OptionCounts,
               NEW window \in Windows,
               CreateProposal(type, options, window[1], window[2])
        PROVE  RecordInv' /\ TallyInv'
    <2>1. UNCHANGED vote_records
      BY <1>1 DEF CreateProposal
    <2>. QED
      BY <1>1, <2>1, CreateStep, RecordsAtCreation
  <1>2. ASSUME NEW p \in 0..(MaxProposals - 1), CloseProposal(p)
        PROVE  RecordInv' /\ TallyInv'
    <2>1. UNCHANGED vote_records
      BY <1>2 DEF CloseProposal
    <2>. QED
      BY <1>2, <2>1, CloseStep, RecordsAtOutcome
  <1>3. ASSUME NEW p \in 0..(MaxProposals - 1), NEW pair \in Pairs,
               NEW by_owner \in BOOLEAN, GovernanceInitiateExit(p, pair, by_owner)
        PROVE  RecordInv' /\ TallyInv'
    <2>1. UNCHANGED vote_records
      BY <1>3 DEF GovernanceInitiateExit
    <2>2. /\ p + 1 \in DOMAIN proposals
          /\ \E r \in Record : ExecutedTo(proposals[p + 1], r) /\ Changed(p + 1, r)
      BY <1>3, ExecuteStep
    <2>. QED
      BY <2>1, <2>2, RecordsAtOutcome
  <1>4. ASSUME NEW p \in 0..(MaxProposals - 1), NEW voter \in Voters,
               \/ CloseVoteRecord(p, voter)
               \/ \E option \in 1..MAX_PROPOSAL_OPTIONS, with_staker \in BOOLEAN :
                     CastVote(p, voter, option, with_staker)
        PROVE  RecordInv' /\ TallyInv'
    BY <1>4, RecordsAtVote, RecordsAtReturn
  <1>5. ASSUME \/ \E enabled \in BOOLEAN : SetAutoExecute(enabled)
               \/ \E bps \in QuorumChoices : SetQuorum(bps)
               \/ \E pair \in Pairs : CloseDlmmExit(pair)
               \/ PauseOrResume \/ Tick \/ UNCHANGED vars
        PROVE  UNCHANGED <<vote_records, proposals>>
    BY <1>5 DEF SetAutoExecute, SetQuorum, CloseDlmmExit, PauseOrResume, Tick, vars
  <1>6. ASSUME NEW v \in Voters, \/ \E to \in Voters : MoveBrain(v, to)
                                 \/ StakeBrain(v) \/ RaiseMultiplier(v)
                                 \/ UnstakeBrain(v)
        PROVE  UNCHANGED <<vote_records, proposals>>
    BY <1>6 DEF MoveBrain, StakeBrain, RaiseMultiplier, UnstakeBrain
  <1>. QED
    BY <1>1, <1>2, <1>3, <1>4, <1>5, <1>6, RecordsKept DEF Next
----------------------------------------------------------------------------
(* The configuration. *)

\* Every proposal takes the next id, and nothing else does.
LEMMA ConfigInvStep ==
    ASSUME PropInv, PoolInv, ConfigInv, [Next]_vars
    PROVE  ConfigInv'
  <1>1. ASSUME NEW type \in ProposalTypes, NEW options \in OptionCounts,
               NEW window \in Windows,
               CreateProposal(type, options, window[1], window[2])
        PROVE  ConfigInv'
    <2>1. PICK r \in Record : proposals' = Append(proposals, r)
      BY <1>1, CreateStep DEF Created
    <2>2. Len(proposals') = Len(proposals) + 1
      BY <2>1, AppendProperties DEF PropInv
    <2>3. /\ config' = [config EXCEPT !.next_proposal_id = @ + 1]
          /\ is_paused' = is_paused
      BY <1>1 DEF CreateProposal, NextConfig, pool_vars
    <2>. QED
      BY <2>2, <2>3 DEF ConfigInv
  <1>2. ASSUME NEW enabled \in BOOLEAN, SetAutoExecute(enabled)
        PROVE  ConfigInv'
    BY <1>2 DEF SetAutoExecute, ConfigInv, pool_vars
  <1>3. ASSUME NEW bps \in QuorumChoices, SetQuorum(bps)
        PROVE  ConfigInv'
    <2>1. bps \in Nat
      BY GovernanceAssumption
    <2>. QED
      BY <1>3, <2>1 DEF SetQuorum, ConfigInv, pool_vars
  <1>4. ASSUME UNCHANGED <<config, is_paused>>, Len(proposals') = Len(proposals)
        PROVE  ConfigInv'
    BY <1>4 DEF ConfigInv
  <1>5. ASSUME NEW i \in DOMAIN proposals, NEW r \in Record, Changed(i, r)
        PROVE  Len(proposals') = Len(proposals)
    BY <1>5, ExceptSeq DEF Changed, PropInv
  <1>6. ASSUME NEW p \in 0..(MaxProposals - 1), NEW voter \in Voters,
               NEW option \in 1..MAX_PROPOSAL_OPTIONS, NEW with_staker \in BOOLEAN,
               CastVote(p, voter, option, with_staker)
        PROVE  ConfigInv'
    <2>1. UNCHANGED <<config, is_paused>>
      BY <1>6 DEF CastVote, pool_vars
    <2>. QED
      BY <1>4, <1>5, <1>6, <2>1, VoteStep
  <1>7. ASSUME NEW p \in 0..(MaxProposals - 1), CloseProposal(p)
        PROVE  ConfigInv'
    <2>1. UNCHANGED <<config, is_paused>>
      BY <1>7 DEF CloseProposal, pool_vars
    <2>. QED
      BY <1>4, <1>5, <1>7, <2>1, CloseStep
  <1>8. ASSUME NEW p \in 0..(MaxProposals - 1), NEW pair \in Pairs,
               NEW by_owner \in BOOLEAN, GovernanceInitiateExit(p, pair, by_owner)
        PROVE  ConfigInv'
    <2>1. UNCHANGED <<config, is_paused>>
      BY <1>8 DEF GovernanceInitiateExit, pool_vars
    <2>. QED
      BY <1>4, <1>5, <1>8, <2>1, ExecuteStep
  <1>9. ASSUME NEW p \in 0..(MaxProposals - 1), NEW voter \in Voters,
               CloseVoteRecord(p, voter)
        PROVE  ConfigInv'
    BY <1>4, <1>9 DEF CloseVoteRecord, pool_vars
  <1>10. ASSUME (\E pair \in Pairs : CloseDlmmExit(pair)) \/ Tick \/ UNCHANGED vars
         PROVE  ConfigInv'
    BY <1>4, <1>10 DEF CloseDlmmExit, Tick, pool_vars, vars
  <1>11. ASSUME NEW v \in Voters, \/ \E to \in Voters : MoveBrain(v, to)
                                  \/ StakeBrain(v) \/ RaiseMultiplier(v)
                                  \/ UnstakeBrain(v)
         PROVE  ConfigInv'
    BY <1>4, <1>11 DEF MoveBrain, StakeBrain, RaiseMultiplier, UnstakeBrain
  <1>12. CASE PauseOrResume
    BY <1>12 DEF PauseOrResume, ConfigInv
  <1>. QED
    BY <1>1, <1>2, <1>3, <1>6, <1>7, <1>8, <1>9, <1>10, <1>11, <1>12 DEF Next
----------------------------------------------------------------------------
(* Exits. *)

\* What an exit rests on stays.
LEMMA TermsKept ==
    ASSUME PropInv, PoolInv, [Next]_vars, NEW p \in Ids
    PROVE  /\ p \in Ids'
           /\ Prop(p).executed => Prop(p)'.executed
           /\ Prop(p)'.voting_ends = Prop(p).voting_ends
           /\ Prop(p)'.voting_starts = Prop(p).voting_starts
  <1>. DEFINE Goal == /\ p \in Ids'
                      /\ Prop(p).executed => Prop(p)'.executed
                      /\ Prop(p)'.voting_ends = Prop(p).voting_ends
                      /\ Prop(p)'.voting_starts = Prop(p).voting_starts
  <1>0. /\ p \in Nat /\ p + 1 \in DOMAIN proposals /\ Prop(p) \in Record
        /\ proposals \in Seq(Record)
    BY IdsIndex DEF PropInv
  <1>1. ASSUME UNCHANGED proposals
        PROVE  Goal
    BY <1>1 DEF Ids, Prop
  <1>2. ASSUME Created
        PROVE  Goal
    <2>1. PICK r \in Record : proposals' = Append(proposals, r)
      BY <1>2 DEF Created
    <2>2. /\ Len(proposals') = Len(proposals) + 1
          /\ proposals'[p + 1] = proposals[p + 1]
      BY <1>0, <2>1, AppendProperties
    <2>. QED
      BY <1>0, <2>2 DEF Ids, Prop
  <1>3. ASSUME NEW i \in DOMAIN proposals, NEW r \in Record, Changed(i, r)
        PROVE  Goal
    <2>1. /\ Len(proposals') = Len(proposals)
          /\ proposals'[p + 1] = IF p + 1 = i THEN r ELSE proposals[p + 1]
      BY <1>0, <1>3, ExceptSeq DEF Changed
    <2>2. proposals[i] \in Record
      BY DEF PropInv
    <2>3. /\ proposals[i].executed => r.executed
          /\ r.voting_ends = proposals[i].voting_ends
          /\ r.voting_starts = proposals[i].voting_starts
      BY <1>3, <2>2 DEF Changed, Voted, ClosedTo, ExecutedTo, Record
    <2>. QED
      BY <1>0, <2>1, <2>3 DEF Ids, Prop
  <1>. QED
    BY <1>1, <1>2, <1>3, ProposalSteps

\* Exits change by being opened on a proposal that this executes, or closed.
LEMMA ExitSteps ==
    ASSUME PropInv, PoolInv, ExitInv, [Next]_vars, NEW pair \in Pairs
    PROVE  \/ exits'[pair] = exits[pair]
           \/ exits'[pair] = NoExit
           \/ /\ \A other \in Pairs \ {pair} : exits'[other] = exits[other]
              /\ \E p \in Ids :
                    /\ exits'[pair] = [proposal_id |-> p, created_at |-> now]
                    /\ ~Prop(p).executed /\ Prop(p)'.executed
                    /\ now >= Prop(p).voting_ends + MIN_EXECUTION_DELAY
  <1>1. ASSUME UNCHANGED exits
        PROVE  exits'[pair] = exits[pair]
    BY <1>1
  <1>2. ASSUME NEW other \in Pairs, CloseDlmmExit(other)
        PROVE  exits'[pair] \in {exits[pair], NoExit}
    BY <1>2 DEF CloseDlmmExit, ExitInv
  <1>3. ASSUME NEW p, NEW voter, NEW option, NEW with_staker, NEW type, NEW options,
               NEW starts, NEW ends,
               \/ CreateProposal(type, options, starts, ends)
               \/ CastVote(p, voter, option, with_staker)
               \/ CloseProposal(p)
        PROVE  UNCHANGED exits
    BY <1>3 DEF CreateProposal, CastVote, CloseProposal
  <1>4. ASSUME NEW p \in Nat, NEW other \in Pairs, NEW by_owner \in BOOLEAN,
               GovernanceInitiateExit(p, other, by_owner)
        PROVE  \/ exits'[pair] = exits[pair]
               \/ /\ \A o \in Pairs \ {pair} : exits'[o] = exits[o]
                  /\ p \in Ids
                  /\ exits'[pair] = [proposal_id |-> p, created_at |-> now]
                  /\ ~Prop(p).executed /\ Prop(p)'.executed
                  /\ now >= Prop(p).voting_ends + MIN_EXECUTION_DELAY
    <2>1. /\ p \in Ids /\ p + 1 \in DOMAIN proposals
          /\ now >= Prop(p).voting_ends + MIN_EXECUTION_DELAY
          /\ exits' = [exits EXCEPT ![other] = [proposal_id |-> p, created_at |-> now]]
      BY <1>4, ExecuteStep DEF Prop
    <2>2. PICK r \in Record : ExecutedTo(proposals[p + 1], r) /\ Changed(p + 1, r)
      BY <1>4, ExecuteStep
    <2>3. proposals'[p + 1] = r
      BY <2>1, <2>2, ExceptSeq DEF Changed, PropInv
    <2>4. proposals[p + 1] \in Record
      BY <2>1 DEF PropInv
    <2>5. ~Prop(p).executed /\ Prop(p)'.executed
      BY <2>2, <2>3, <2>4 DEF ExecutedTo, Prop, Record
    <2>. QED
      BY <2>1, <2>5 DEF ExitInv
  <1>. QED
    BY <1>1, <1>2, <1>3, <1>4, OtherSteps

\* Every step leaves each open exit backed.
LEMMA BackedStep ==
    ASSUME PropInv, PoolInv, ExitInv, [Next]_vars, NEW pair \in Pairs
    PROVE  /\ exits'[pair] \in [proposal_id : Int, created_at : Int]
           /\ Backed(pair)'
  <1>0. proposals \in Seq(Record) /\ Backed(pair)
        /\ exits[pair] \in [proposal_id : Int, created_at : Int]
    BY DEF PropInv, ExitInv
  <1>1. CASE exits'[pair] = exits[pair]
    BY <1>0, <1>1, TermsKept DEF Backed
  <1>2. CASE exits'[pair] = NoExit
    BY <1>2 DEF Backed, NoExit
  <1>3. ASSUME NEW p \in Ids,
               exits'[pair] = [proposal_id |-> p, created_at |-> now],
               Prop(p)'.executed,
               now >= Prop(p).voting_ends + MIN_EXECUTION_DELAY
        PROVE  /\ exits'[pair] \in [proposal_id : Int, created_at : Int]
               /\ Backed(pair)'
    <2>1. p \in Nat
      BY <1>0, IdsIndex
    <2>2. /\ exits'[pair] \in [proposal_id : Int, created_at : Int]
          /\ exits'[pair].proposal_id = p /\ exits'[pair].created_at = now
      BY <1>3, <2>1 DEF PoolInv
    <2>. QED
      BY <1>3, <2>2, TermsKept DEF Backed
  <1>. QED
    BY <1>1, <1>2, <1>3, ExitSteps

\* Every step keeps the exits backed, each by a proposal of its own.
LEMMA ExitInvStep ==
    ASSUME PropInv, PoolInv, ExitInv, [Next]_vars
    PROVE  ExitInv'
  <1>1. ASSUME NEW pair \in Pairs, NEW other \in Pairs, pair # other,
               exits'[pair] # NoExit, exits'[other] # NoExit,
               exits'[pair].proposal_id = exits'[other].proposal_id
        PROVE  FALSE
    <2>1. ASSUME NEW a \in Pairs, NEW b \in Pairs, a # b,
                 exits'[a] = exits[a] \/ exits'[a] = NoExit,
                 exits'[b] = exits[b] \/ exits'[b] = NoExit,
                 exits'[a] # NoExit, exits'[b] # NoExit
          PROVE  exits'[a].proposal_id # exits'[b].proposal_id
      BY <2>1 DEF ExitInv, OneEach
    <2>2. ASSUME NEW a \in Pairs, NEW b \in Pairs \ {a}, NEW p \in Ids,
                 exits'[b] = exits[b], exits'[b] # NoExit, ~Prop(p).executed,
                 exits'[a] = [proposal_id |-> p, created_at |-> now]
          PROVE  exits'[a].proposal_id # exits'[b].proposal_id
      BY <2>2 DEF ExitInv, Backed
    <2>. QED
      BY <1>1, <2>1, <2>2, ExitSteps
  <1>2. OneEach'
    BY <1>1 DEF OneEach
  <1>3. \A pair \in Pairs : exits'[pair] \in [proposal_id : Int, created_at : Int]
    BY BackedStep
  <1>4. exits' = [pair \in Pairs |-> exits'[pair]]
    <2>1. ASSUME NEW p, NEW voter, NEW option, NEW with_staker, NEW type, NEW options,
                 NEW starts, NEW ends, NEW pair, NEW by_owner,
                 \/ CreateProposal(type, options, starts, ends)
                 \/ CastVote(p, voter, option, with_staker)
                 \/ CloseProposal(p)
                 \/ GovernanceInitiateExit(p, pair, by_owner)
                 \/ CloseDlmmExit(pair)
                 \/ UNCHANGED exits
          PROVE  exits' = [q \in Pairs |-> exits'[q]]
      BY <2>1 DEF CreateProposal, CastVote, CloseProposal, GovernanceInitiateExit,
                  CloseDlmmExit, ExitInv
    <2>. QED
      BY <2>1, OtherSteps
  <1>. QED
    BY <1>2, <1>3, <1>4, BackedStep DEF ExitInv
----------------------------------------------------------------------------
(* Theorems. *)

\* The inductive invariant.
IInv ==
    PropInv /\ PoolInv /\ ExitInv /\ ConfigInv /\ RecordInv /\ TallyInv

\* The invariant holds at the start ...
LEMMA InitIInv == Init => IInv
  <1>. SUFFICES ASSUME Init PROVE IInv
    OBVIOUS
  <1>1. PropInv
    BY DEF Init, PropInv
  <1>2. PoolInv
    BY GovernanceAssumption DEF Init, PoolInv
  <1>3. ExitInv
    BY DEF Init, ExitInv, Backed, OneEach, NoExit
  <1>4. ConfigInv
    BY DEF Init, ConfigInv
  <1>5. RecordInv
    BY FS_EmptySet DEF Init, RecordInv
  <1>6. TallyInv
    BY DEF Init, TallyInv, Ids
  <1>. QED
    BY <1>1, <1>2, <1>3, <1>4, <1>5, <1>6 DEF IInv

\* ... is kept by every step ...
LEMMA NextIInv == IInv /\ [Next]_vars => IInv'
  BY PropInvStep, PoolInvStep, ExitInvStep, ConfigInvStep, RecordsStep DEF IInv

\* ... and so holds for ever.
LEMMA Inductive == Spec => []IInv
  BY InitIInv, NextIInv, PTL DEF Spec

\* On the tallies the run tries, as on all others, the loop finds the heaviest
\* option.
THEOREM ScanCorrect == Spec => []ScanIsCorrect
  <1>1. ASSUME NEW counts \in Tallies(5, 3)
        PROVE  T!ScanFindsHeaviest(counts)
    <2>1. PICK n \in 2..5 : counts \in [1..n -> 0..3]
      BY <1>1 DEF Tallies
    <2>2. counts \in Seq(Nat)
      BY <2>1
    <2>. QED
      BY <2>2, LoopFindsHeaviest
  <1>2. ScanIsCorrect
    BY <1>1 DEF ScanIsCorrect
  <1>. QED
    BY <1>2, PTL

\* The accounts hold values of their types, and every proposal has taken the
\* next id, whatever the instructions and their order.
THEOREM TypeCorrect == Spec => []TypeOK
  <1>1. IInv => TypeOK
    <2>. SUFFICES ASSUME IInv PROVE TypeOK
      OBVIOUS
    <2>1. \A p \in Ids : Prop(p) \in Proposal
      BY IdsIndex DEF IInv, PropInv, Record, Proposal, Active, Passed, Rejected
    <2>. QED
      BY <2>1 DEF IInv, TypeOK, ConfigInv, RecordInv, ExitInv, PoolInv
  <1>. QED
    BY <1>1, Inductive, PTL

\* cast_vote counts a voter once, and the tallies of an open proposal are the
\* sums of the vote records; after close_proposal, close_vote_record only
\* takes records away, for any number of voters and options.
THEOREM TalliesMatch == Spec => []TallyMatchesRecords
  <1>1. IInv => TallyMatchesRecords
    <2>. SUFFICES ASSUME IInv, NEW p \in Ids
                  PROVE  LET counts == Prop(p).vote_counts
                         IN  /\ Prop(p).total_vote_weight = Sum(counts)
                             /\ \A option \in DOMAIN counts :
                                   IF Prop(p).status = Active
                                   THEN counts[option] = Weights(RecordsFor(p, option))
                                   ELSE counts[option] >= Weights(RecordsFor(p, option))
                             /\ \A voter \in Voters :
                                   Cardinality(RecordOf(p, voter)) <= 1
      BY DEF TallyMatchesRecords
    <2>1. Prop(p).total_vote_weight = Sum(Prop(p).vote_counts)
      BY IdsIndex DEF IInv, PropInv, Sound, Prop
    <2>2. \A option \in DOMAIN Prop(p).vote_counts : Tallied(p, option)
      BY DEF IInv, TallyInv
    <2>3. ASSUME NEW voter \in Voters
          PROVE  Cardinality(RecordOf(p, voter)) <= 1
      <3>1. \A r, s \in RecordOf(p, voter) : r = s
        BY DEF IInv, RecordInv, RecordOf
      <3>2. CASE RecordOf(p, voter) = {}
        BY <3>2, FS_EmptySet
      <3>3. ASSUME NEW r \in RecordOf(p, voter)
            PROVE  Cardinality(RecordOf(p, voter)) <= 1
        <4>1. RecordOf(p, voter) = {r}
          BY <3>1, <3>3
        <4>2. Cardinality({r}) = 1
          BY FS_Singleton
        <4>. QED
          BY <4>1, <4>2
      <3>. QED
        BY <3>2, <3>3
    <2>. QED
      BY <2>1, <2>2, <2>3 DEF Tallied, Active
  <1>. QED
    BY <1>1, Inductive, PTL

\* close_proposal passes a proposal only if its first option outweighs every
\* other, and names no winner that does not, for any number of options.
THEOREM PluralityDecides == Spec => []OutcomeIsStrictPlurality
  <1>1. IInv => OutcomeIsStrictPlurality
    <2>1. ASSUME IInv, NEW p \in Ids
          PROVE  /\ Prop(p).status \in {0, 1, 2} /\ Decided(Prop(p))
                 /\ Prop(p).executed => Prop(p).status = 1
      BY <2>1, IdsIndex DEF IInv, PropInv, Sound, Prop, Record
    <2>. QED
      BY <2>1 DEF OutcomeIsStrictPlurality, Decided, Active, Passed, Rejected, Unresolved
  <1>. QED
    BY <1>1, Inductive, PTL

\* governance_initiate_exit opens an exit only on a proposal to sell whose
\* first option outweighs every other.
THEOREM ExitsVotedFor == Spec => []ExitsFollowVotes
  <1>1. IInv => ExitsFollowVotes
    <2>1. ASSUME IInv, NEW pair \in Pairs, exits[pair] # NoExit
          PROVE  LET p == exits[pair].proposal_id
                 IN  p \in Ids /\ Prop(p).executed
      BY <2>1 DEF IInv, ExitInv, Backed
    <2>2. ASSUME IInv, NEW p \in Ids, Prop(p).executed
          PROVE  Prop(p).proposal_type = SELL /\ T!Heaviest(Prop(p).vote_counts) = {1}
      <3>1. Sound(Prop(p))
        BY <2>2, IdsIndex DEF IInv, PropInv, Prop
      <3>. QED
        BY <2>2, <3>1 DEF Sound, Decided, SELL
    <2>. QED
      BY <2>1, <2>2 DEF ExitsFollowVotes
  <1>. QED
    BY <1>1, Inductive, PTL

\* governance_initiate_exit opens an exit only after the vote's window, of at
\* least the minimum length, and the execution delay; and one proposal never
\* backs two exits, for any number of proposals and exits.
THEOREM TermsHold == Spec => []ExitsKeepTerms
  <1>1. IInv => ExitsKeepTerms
    <2>. SUFFICES ASSUME IInv, NEW pair \in Pairs, exits[pair] # NoExit
                  PROVE  LET p == exits[pair].proposal_id
                         IN  /\ p \in Ids
                             /\ exits[pair].created_at >=
                                   Prop(p).voting_ends + MIN_EXECUTION_DELAY
                             /\ exits[pair].created_at >=
                                   Prop(p).voting_starts + MIN_VOTING_PERIOD
                                      + MIN_EXECUTION_DELAY
                             /\ \A other \in Pairs \ {pair} :
                                   exits[other].proposal_id # p
      BY DEF ExitsKeepTerms
    <2>. DEFINE p == exits[pair].proposal_id
    <2>1. /\ p \in Ids
          /\ exits[pair].created_at >= Prop(p).voting_ends + MIN_EXECUTION_DELAY
      BY DEF IInv, ExitInv, Backed
    <2>2. p \in Nat /\ Prop(p) \in Record /\ Sound(Prop(p))
      BY <2>1, IdsIndex DEF IInv, PropInv, Prop
    <2>3. /\ Prop(p).voting_ends \in Nat /\ Prop(p).voting_starts \in Nat
          /\ Prop(p).voting_ends >= Prop(p).voting_starts + MIN_VOTING_PERIOD
      BY <2>2, GovernanceAssumption DEF Sound, Record
    <2>4. exits[pair].created_at \in Int
      BY DEF IInv, ExitInv
    <2>5. exits[pair].created_at >=
             Prop(p).voting_starts + MIN_VOTING_PERIOD + MIN_EXECUTION_DELAY
      BY <2>1, <2>3, <2>4, GovernanceAssumption
    <2>6. ASSUME NEW other \in Pairs \ {pair}
          PROVE  exits[other].proposal_id # p
      <3>1. CASE exits[other] = NoExit
        BY <2>2, <3>1 DEF NoExit
      <3>2. CASE exits[other] # NoExit
        BY <3>2 DEF IInv, ExitInv, OneEach
      <3>. QED
        BY <3>1, <3>2
    <2>. QED
      BY <2>1, <2>5, <2>6
  <1>. QED
    BY <1>1, Inductive, PTL

\* A proposal is spent by the exit it opens, also after that exit is closed and
\* its seeds are free again.
THEOREM VotesSpentOnce == Spec => ExecutedOnce
  <1>. DEFINE Spent(pair) ==
                 exits'[pair] # exits[pair] /\ exits'[pair] # NoExit =>
                    LET p == exits'[pair].proposal_id
                    IN  ~proposals[p + 1].executed /\ proposals'[p + 1].executed
  <1>1. ASSUME PropInv, PoolInv, ExitInv, [Next]_vars, NEW pair \in Pairs
        PROVE  Spent(pair)
    <2>. SUFFICES ASSUME NEW p \in Ids,
                         exits'[pair] = [proposal_id |-> p, created_at |-> now],
                         ~Prop(p).executed, Prop(p)'.executed
                  PROVE  Spent(pair)
      BY <1>1, ExitSteps
    <2>1. exits'[pair].proposal_id = p
      OBVIOUS
    <2>. QED
      BY <2>1 DEF Prop
  <1>2. IInv /\ [Next]_vars =>
           [\A pair \in Pairs :
              /\ exits'[pair] # exits[pair]
              /\ exits'[pair] # NoExit
              => LET p == exits'[pair].proposal_id
                 IN  ~proposals[p + 1].executed /\ proposals'[p + 1].executed]_vars
    BY <1>1 DEF IInv
  <1>. QED
    BY <1>2, Inductive, PTL DEF Spec, ExecutedOnce

\* close_proposal is final: only the execution of a passed proposal changes a
\* closed one, and votes count only inside their window, in an unpaused pool.
THEOREM ClosedStayClosed == Spec => ClosedProposalsAreFinal
  <1>. DEFINE Final(old, new) ==
                 /\ old.status # Active =>
                       new \in {old, [old EXCEPT !.executed = (old.status = Passed)]}
                 /\ new.vote_counts # old.vote_counts =>
                       /\ now >= old.voting_starts /\ now < old.voting_ends
                       /\ ~is_paused
                 /\ new.status # old.status => now >= old.voting_ends
  <1>1. ASSUME PropInv, PoolInv, [Next]_vars, NEW i \in DOMAIN proposals
        PROVE  Final(proposals[i], proposals'[i])
    <2>0. proposals \in Seq(Record) /\ proposals[i] \in Record
          /\ i \in 1..Len(proposals)
      BY <1>1 DEF PropInv
    <2>1. ASSUME Created
          PROVE  proposals'[i] = proposals[i]
      BY <2>0, <2>1, AppendProperties DEF Created
    <2>2. ASSUME NEW j \in DOMAIN proposals, NEW r \in Record, Changed(j, r)
          PROVE  Final(proposals[i], proposals'[i])
      <3>1. proposals'[i] = IF i = j THEN r ELSE proposals[i]
        BY <2>0, <2>2, ExceptSeq DEF Changed
      <3>2. CASE i # j
        BY <3>1, <3>2
      <3>3. CASE i = j
        <4>1. proposals'[i] = r
          BY <3>1, <3>3
        <4>2. CASE ExecutedTo(proposals[i], r)
          <5>1. r = [proposals[i] EXCEPT !.executed = (proposals[i].status = Passed)]
            BY <4>2 DEF ExecutedTo, Passed
          <5>2. r.vote_counts = proposals[i].vote_counts /\ r.status = proposals[i].status
            BY <2>0, <4>2 DEF ExecutedTo, Record
          <5>. QED
            BY <4>1, <5>1, <5>2
        <4>3. CASE Voted(proposals[i], r) \/ ClosedTo(proposals[i], r)
          BY <2>2, <3>3, <4>1, <4>3 DEF Changed, Voted, ClosedTo, ExecutedTo, Active
        <4>. QED
          BY <2>2, <3>3, <4>2, <4>3 DEF Changed
      <3>. QED
        BY <3>2, <3>3
    <2>3. ASSUME UNCHANGED proposals
          PROVE  proposals'[i] = proposals[i]
      BY <2>3
    <2>. QED
      BY <1>1, <2>1, <2>2, <2>3, ProposalSteps
  <1>2. IInv /\ [Next]_vars =>
           [\A i \in DOMAIN proposals : Final(proposals[i], proposals'[i])]_vars
    BY <1>1 DEF IInv
  <1>. QED
    BY <1>2, Inductive, PTL DEF Spec, ClosedProposalsAreFinal
----------------------------------------------------------------------------
(* Refinement. *)

RestsOn == [pair \in Pairs |-> exits[pair].proposal_id]

\* A change of one proposal, as its mandate sees it.
LEMMA MandateOfChange ==
    ASSUME PropInv, NEW i \in DOMAIN proposals, NEW r \in Record, Changed(i, r)
    PROVE  /\ Ids' = Ids
           /\ GrantedVotes \subseteq GrantedVotes'
           /\ ExecutedTo(proposals[i], r) =>
                 /\ i - 1 \in GrantedVotes \ SpentVotes
                 /\ GrantedVotes' = GrantedVotes
                 /\ SpentVotes' = SpentVotes \cup {i - 1}
           /\ ~ExecutedTo(proposals[i], r) => SpentVotes' = SpentVotes
  <1>1. /\ proposals \in Seq(Record) /\ proposals[i] \in Record /\ Sound(proposals[i])
        /\ i \in Nat /\ i - 1 \in Ids /\ Prop(i - 1) = proposals[i]
        /\ \A p \in Ids : p \in Nat /\ Prop(p) \in Record
    BY IdsIndex DEF PropInv
  <1>2. Ids' = Ids /\ \A p \in Ids : Prop(p)' = IF p = i - 1 THEN r ELSE Prop(p)
    <2>1. /\ Len(proposals') = Len(proposals)
          /\ \A j \in DOMAIN proposals : proposals'[j] = IF j = i THEN r ELSE proposals[j]
      BY <1>1, ExceptSeq DEF Changed
    <2>2. \A p \in Ids : p \in Nat /\ p + 1 \in DOMAIN proposals
      BY <1>1, IdsIndex
    <2>. QED
      BY <1>1, <2>1, <2>2 DEF Ids, Prop
  <1>3. CASE ExecutedTo(proposals[i], r)
    <2>1. /\ proposals[i].status = 1 /\ ~proposals[i].executed /\ r.executed
          /\ r.status = proposals[i].status
          /\ r.proposal_type = proposals[i].proposal_type
      BY <1>1, <1>3 DEF ExecutedTo, Record
    <2>2. r.proposal_type = 1
      BY <2>1 DEF Changed, Sound
    <2>3. i - 1 \in GrantedVotes \ SpentVotes
      BY <1>1, <2>1, <2>2 DEF GrantedVotes, SpentVotes, Passed, SELL
    <2>4. GrantedVotes' = GrantedVotes
      BY <1>1, <1>2, <2>1 DEF GrantedVotes
    <2>5. SpentVotes' = SpentVotes \cup {i - 1}
      BY <1>1, <1>2, <2>1 DEF SpentVotes
    <2>. QED
      BY <1>2, <1>3, <2>3, <2>4, <2>5
  <1>4. CASE ~ExecutedTo(proposals[i], r)
    <2>1. proposals[i].status = 0 /\ r.executed = proposals[i].executed
      BY <1>4 DEF Changed, Voted, ClosedTo
    <2>2. GrantedVotes \subseteq GrantedVotes'
      BY <1>1, <1>2, <2>1 DEF GrantedVotes, Passed
    <2>3. SpentVotes' = SpentVotes
      BY <1>1, <1>2, <2>1 DEF SpentVotes
    <2>. QED
      BY <1>2, <1>4, <2>2, <2>3
  <1>. QED
    BY <1>3, <1>4

\* A new proposal grants nothing yet.
LEMMA MandateOfCreation ==
    ASSUME PropInv, Created
    PROVE  GrantedVotes \subseteq GrantedVotes' /\ SpentVotes' = SpentVotes
  <1>1. PICK r \in Record : ~r.executed /\ proposals' = Append(proposals, r)
    BY DEF Created
  <1>2. PICK n \in Nat : n = Len(proposals)
    BY DEF PropInv
  <1>3. /\ Len(proposals') = n + 1
        /\ \A j \in 1..n : proposals'[j] = proposals[j]
        /\ proposals'[n + 1] = r
    BY <1>1, <1>2, AppendProperties DEF PropInv
  <1>4. Ids = 0..(n - 1) /\ Ids' = 0..n
    BY <1>2, <1>3 DEF Ids
  <1>5. \A p \in Ids : Prop(p)' = Prop(p)
    BY <1>3, <1>4 DEF Prop
  <1>6. Ids' = Ids \cup {n} /\ ~Prop(n)'.executed
    BY <1>1, <1>3, <1>4 DEF Prop
  <1>. QED
    BY <1>5, <1>6 DEF GrantedVotes, SpentVotes

\* Every instruction is a step of the mandates or leaves them alone.
LEMMA MandateStep ==
    ASSUME PropInv, PoolInv, ExitInv, [Next]_vars
    PROVE  [Mandates!Next]_(Mandates!mandate_vars)
  <1>0. /\ exits \in [Pairs -> [proposal_id : Int, created_at : Int]]
        /\ \A p \in Ids : p \in Nat
        /\ GrantedVotes' \subseteq Nat
    <2>1. proposals' \in Seq(Record)
      BY PropInvStep DEF PropInv
    <2>. QED
      BY <2>1, IdsIndex DEF ExitInv, PropInv, GrantedVotes, Ids
  <1>1. ASSUME UNCHANGED exits, GrantedVotes \subseteq GrantedVotes',
               SpentVotes' = SpentVotes
        PROVE  Mandates!Grant
    BY <1>0, <1>1 DEF Mandates!Grant
  <1>2. CASE \E type \in ProposalTypes, options \in OptionCounts, window \in Windows :
                CreateProposal(type, options, window[1], window[2])
    <2>1. Created /\ UNCHANGED exits
      BY <1>2, CreateStep DEF CreateProposal
    <2>. QED
      BY <1>1, <2>1, MandateOfCreation DEF Mandates!Next
  <1>3. ASSUME NEW i \in DOMAIN proposals, NEW r \in Record, Changed(i, r),
               UNCHANGED exits, Voted(proposals[i], r) \/ ClosedTo(proposals[i], r)
        PROVE  Mandates!Grant
    <2>1. ~ExecutedTo(proposals[i], r)
      BY <1>3 DEF Voted, ClosedTo, ExecutedTo
    <2>. QED
      BY <1>1, <1>3, <2>1, MandateOfChange
  <1>4. ASSUME NEW p \in Nat, NEW voter \in Voters, NEW option \in Nat,
               NEW with_staker \in BOOLEAN, CastVote(p, voter, option, with_staker)
        PROVE  Mandates!Grant
    <2>1. UNCHANGED exits
      BY <1>4 DEF CastVote
    <2>. QED
      BY <1>3, <1>4, <2>1, VoteStep
  <1>5. ASSUME NEW p \in Nat, CloseProposal(p)
        PROVE  Mandates!Grant
    <2>1. UNCHANGED exits
      BY <1>5 DEF CloseProposal
    <2>. QED
      BY <1>3, <1>5, <2>1, CloseStep
  <1>6. ASSUME NEW p \in Nat, NEW pair \in Pairs, NEW by_owner \in BOOLEAN,
               GovernanceInitiateExit(p, pair, by_owner)
        PROVE  Mandates!Spend(pair, p) /\ p \in GrantedVotes
    <2>1. /\ p + 1 \in DOMAIN proposals
          /\ exits' = [exits EXCEPT ![pair] = [proposal_id |-> p, created_at |-> now]]
      BY <1>6, ExecuteStep
    <2>2. PICK r \in Record : ExecutedTo(proposals[p + 1], r) /\ Changed(p + 1, r)
      BY <1>6, ExecuteStep
    <2>3. /\ p \in GrantedVotes \ SpentVotes
          /\ GrantedVotes' = GrantedVotes
          /\ SpentVotes' = SpentVotes \cup {p}
      <3>1. (p + 1) - 1 = p
        OBVIOUS
      <3>. QED
        BY <2>1, <2>2, <3>1, MandateOfChange
    <2>4. RestsOn' = [RestsOn EXCEPT ![pair] = p]
      BY <1>0, <2>1 DEF RestsOn
    <2>5. RestsOn[pair] = NoExit.proposal_id
      BY <1>6 DEF GovernanceInitiateExit, RestsOn
    <2>. QED
      BY <2>3, <2>4, <2>5 DEF RestsOn, Mandates!Spend
  <1>7. ASSUME NEW pair \in Pairs, CloseDlmmExit(pair)
        PROVE  Mandates!Release(pair)
    <2>1. RestsOn' = [RestsOn EXCEPT ![pair] = NoExit.proposal_id]
      BY <1>0, <1>7 DEF CloseDlmmExit, RestsOn
    <2>2. UNCHANGED <<GrantedVotes, SpentVotes>>
      BY <1>7 DEF CloseDlmmExit, GrantedVotes, SpentVotes, Ids, Prop
    <2>. QED
      BY <2>1, <2>2 DEF RestsOn, Mandates!Release
  <1>8. ASSUME UNCHANGED <<proposals, exits>>
        PROVE  UNCHANGED Mandates!mandate_vars
    BY <1>8 DEF GrantedVotes, SpentVotes, Ids, Prop, Mandates!mandate_vars
  <1>. QED
    BY <1>2, <1>4, <1>5, <1>6, <1>7, <1>8, OtherSteps DEF Mandates!Next

\* Votes are mandates: granted for good once passed, and good for one exit.
THEOREM GovernanceGrantsMandates == Spec => ImplementsMandates
  <1>1. Init => Mandates!Init
    BY DEF Init, Mandates!Init, GrantedVotes, SpentVotes, Ids, NoExit
  <1>2. IInv /\ [Next]_vars => [Mandates!Next]_(Mandates!mandate_vars)
    BY MandateStep DEF IInv
  <1>. QED
    BY <1>1, <1>2, Inductive, PTL DEF Spec, ImplementsMandates, Mandates!Spec
=============================================================================
