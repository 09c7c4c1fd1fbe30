---------------------------- MODULE VoteMandates ----------------------------
(***************************************************************************)
(* What a vote to sell is worth, without ballots, dates and keys: a        *)
(* mandate is granted for good, and is good for one exit account, ever.    *)
(* Accounts may also be opened without a mandate, where someone has that   *)
(* power.  Governance hands mandates out and the exit accounts use them    *)
(* up; both are to keep this.                                              *)
(***************************************************************************)
EXTENDS Integers

CONSTANTS
    Accounts,
    Votes,
    NoVote,       \* what an account that is not there rests on
    Unvoted       \* what one opened without a mandate rests on; NoVote if
                  \* there is no such power

VARIABLES
    granted,      \* votes that allow an account to be opened
    spent,        \* those that have opened one
    rests_on      \* the vote that an account rests on

mandate_vars == <<granted, spent, rests_on>>

Init ==
    /\ granted \subseteq Votes
    /\ spent = {}
    /\ rests_on = [a \in Accounts |-> NoVote]

Grant ==
    /\ granted \subseteq granted' /\ granted' \subseteq Votes
    /\ UNCHANGED <<spent, rests_on>>

Spend(a, vote) ==
    /\ rests_on[a] = NoVote
    /\ vote \in granted \ spent
    /\ spent' = spent \cup {vote}
    /\ rests_on' = [rests_on EXCEPT ![a] = vote]
    /\ UNCHANGED granted

OpenUnvoted(a) ==
    /\ rests_on[a] = NoVote
    /\ rests_on' = [rests_on EXCEPT ![a] = Unvoted]
    /\ UNCHANGED <<granted, spent>>

\* The account goes; the vote stays spent.
Release(a) ==
    /\ rests_on' = [rests_on EXCEPT ![a] = NoVote]
    /\ UNCHANGED <<granted, spent>>

Next ==
    \/ Grant
    \/ \E a \in Accounts : \/ \E vote \in granted : Spend(a, vote)
                           \/ OpenUnvoted(a)
                           \/ Release(a)

Spec == Init /\ [][Next]_mandate_vars
=============================================================================
