------------------------------- MODULE Tally -------------------------------
(***************************************************************************)
(* How close_proposal decides a vote: the quorum requirement, and the loop *)
(* over vote_counts that looks for the heaviest option and for ties.       *)
(***************************************************************************)
EXTENDS Integers, SequencesExt

CONSTANT BpsDenominator        \* 10_000 in the program

\* The loop's three locals after an element; a fault forgets that a new
\* maximum ends an earlier tie, or lets a later equal count win.
LoopStart == [max_weight |-> 0, max_index |-> 1, is_tie |-> FALSE]

LoopBody_KeepsTie(counts, acc, i) ==
    CASE counts[i] > acc.max_weight ->
            [acc EXCEPT !.max_weight = counts[i], !.max_index = i]
      [] counts[i] = acc.max_weight /\ counts[i] > 0 ->
            [acc EXCEPT !.is_tie = TRUE]
      [] OTHER -> acc

LoopBody(counts, acc, i) ==
    CASE counts[i] > acc.max_weight ->
            [max_weight |-> counts[i], max_index |-> i, is_tie |-> FALSE]
      [] counts[i] = acc.max_weight /\ counts[i] > 0 ->
            [acc EXCEPT !.is_tie = TRUE]
      [] OTHER -> acc

\* vote_counts scanned from the first option to the last; options are
\* numbered from 1 here, from 0 in the program.
Scan(counts) ==
    FoldLeftDomain(LAMBDA acc, i : LoopBody(counts, acc, i), LoopStart, counts)

\* total_vote_weight falls short of the quorum taken at creation.
MissesQuorum(total_vote_weight, quorum_snapshot, min_quorum_bps) ==
    /\ min_quorum_bps > 0
    /\ total_vote_weight <
          (quorum_snapshot * min_quorum_bps) \div BpsDenominator
----------------------------------------------------------------------------
(* What the loop is for. *)

Heaviest(counts) ==
    {i \in DOMAIN counts : \A j \in DOMAIN counts : counts[j] <= counts[i]}

\* With a vote cast, the loop reports a tie exactly when several options are
\* heaviest, and otherwise the heaviest option and its weight.
ScanFindsHeaviest(counts) ==
    LET scan == Scan(counts)
    IN  (\E i \in DOMAIN counts : counts[i] > 0) =>
            /\ scan.is_tie <=> \E i, j \in Heaviest(counts) : i # j
            /\ scan.max_index \in Heaviest(counts)
            /\ scan.max_weight = counts[scan.max_index]
=============================================================================
