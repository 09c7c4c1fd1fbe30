--------------------------- MODULE ExitLifecycle ---------------------------
(***************************************************************************)
(* What exit accounts promise, without keys, dates and votes: an account   *)
(* is opened while the pool takes new ones, books claims that only add up, *)
(* ends once, and is closed only after that; a halt stops openings and     *)
(* ends accounts at one stroke.  Both the program's instructions and the   *)
(* transactions of the crank are to keep it.                               *)
(***************************************************************************)
EXTENDS Integers

CONSTANT Accounts

VARIABLES
    account,      \* what is booked and how it ended; NoAccount if there is none
    opening       \* whether the pool takes new accounts

lifecycle_vars == <<account, opening>>

Active == 0
Ends == {1, 2}                          \* completed, terminated

NoAccount == [status |-> -1, claimed |-> 0]
Fresh == [status |-> Active, claimed |-> 0]

ActiveOnes == {a \in Accounts : account[a].status = Active}

Init == account \in [Accounts -> {NoAccount, Fresh}] /\ opening \in BOOLEAN

Open(a) ==
    /\ opening
    /\ account[a] = NoAccount
    /\ account' = [account EXCEPT ![a] = Fresh]
    /\ UNCHANGED opening

Book(a) ==
    /\ a \in ActiveOnes
    /\ account'[a].claimed > account[a].claimed
    /\ account' = [account EXCEPT ![a].claimed = account'[a].claimed]
    /\ UNCHANGED opening

Ended(ones, status) ==
    [a \in Accounts |-> IF a \in ones THEN [account[a] EXCEPT !.status = status]
                        ELSE account[a]]

End(a, status) ==
    /\ a \in ActiveOnes
    /\ account' = Ended({a}, status)
    /\ UNCHANGED opening

Close(a) ==
    /\ account[a].status \in Ends
    /\ account' = [account EXCEPT ![a] = NoAccount]
    /\ UNCHANGED opening

\* It need not end them all.
Halt ==
    /\ account' = Ended({a \in ActiveOnes : account'[a].status = 2}, 2)
    /\ opening' = FALSE

Switch ==
    /\ opening' \in BOOLEAN
    /\ UNCHANGED account

Next ==
    \/ \E a \in Accounts : \/ Open(a) \/ Book(a) \/ Close(a)
                           \/ \E status \in Ends : End(a, status)
    \/ Halt
    \/ Switch

Spec == Init /\ [][Next]_lifecycle_vars
=============================================================================
