-------------------------- MODULE DlmmExits_proofs --------------------------
(***************************************************************************)
(* Proofs about DlmmExits: types, the dating of ends, the halt, the        *)
(* finality of ends, the limits of the crank's key, and the refinement of  *)
(* ExitLifecycle, for all keys, pairs, votes and bounds.                   *)
(***************************************************************************)
EXTENDS DlmmExits, TLAPS

USE DEF Active, Completed, Terminated

\* Before the first instruction no exit exists and nobody is paused.
LEMMA InitType == Init => TypeOK
  <1>. SUFFICES ASSUME Init PROVE TypeOK
    OBVIOUS
  <1>1. exits \in [Pairs -> DlmmExit \cup {NoExit}]
    BY DEF Init
  <1>2. /\ owner \in Keys /\ crank \in Keys /\ pending_owner \in Keys \cup {NoKey}
        /\ treasury \in Treasuries /\ is_paused \in BOOLEAN /\ signer \in Keys
    BY KeysAssumption DEF Init, AdminInit
  <1>. QED
    BY <1>1, <1>2 DEF Init, TypeOK

\* An account that ends stays an account, with its books and its opening date.
LEMMA EndedAccount ==
    ASSUME NEW exit \in DlmmExit, NEW status \in {1, 2}, now \in Nat
    PROVE  /\ Ended(exit, status) \in DlmmExit
           /\ Ended(exit, status).status = status
           /\ Ended(exit, status).completed_at = now
           /\ Ended(exit, status).created_at = exit.created_at
           /\ Ended(exit, status).proposal_id = exit.proposal_id
           /\ Ended(exit, status).total_sol_claimed = exit.total_sol_claimed
           /\ Ended(exit, status) # NoExit
  <1>1. Ended(exit, status) = [exit EXCEPT !.status = status, !.completed_at = now]
    BY DEF Ended
  <1>2. Ended(exit, status).status = status
    BY <1>1 DEF DlmmExit
  <1>3. Ended(exit, status) # NoExit
    BY <1>2 DEF NoExit
  <1>. QED
    BY <1>1, <1>2, <1>3 DEF DlmmExit

\* The open accounts are the records of type DlmmExit.
LEMMA OpenAccount ==
    ASSUME TypeOK, NEW pair \in Pairs
    PROVE  IsOpen(pair) <=> exits[pair] \in DlmmExit
  BY DEF TypeOK, IsOpen, DlmmExit, NoExit

\* The instructions that touch keys and the pause flag only.
LEMMA AdministerType ==
    ASSUME TypeOK, NEW key \in Keys, Administer(key) \/ ResumePool(key)
    PROVE  TypeOK'
  <1>1. /\ owner' \in Keys /\ crank' \in Keys /\ pending_owner' \in Keys \cup {NoKey}
        /\ treasury' \in Treasuries /\ is_paused' \in BOOLEAN /\ signer' \in Keys
    BY DEF TypeOK, Administer, ResumePool, TransferOwnership, AcceptOwnership,
           UpdateCrank, UpdateTreasury, AutoPause, Resume, ClearedOffer, admin,
           SignedBy, SignedByOwner
  <1>2. UNCHANGED <<exits, unspent_votes, now>> /\ halt' \in {halt, "none"}
    BY DEF Administer, ResumePool, exit_vars
  <1>. QED
    BY <1>1, <1>2 DEF TypeOK

\* What an instruction leaves in the exit accounts has their type.
LEMMA ExitStepType ==
    ASSUME TypeOK, NEW key \in Keys, ExitStep(key)
    PROVE  TypeOK'
  <1>. USE DEF TypeOK, SignedBy, SignedByOwner, SignedByOwnerOrCrank, admin
  <1>1. ASSUME NEW listed \in SUBSET Pairs, EmergencyHalt(key, listed)
        PROVE  TypeOK'
    <2>1. \A pair \in Pairs : IsActive(pair) =>
             Ended(exits[pair], Terminated) \in DlmmExit
      BY OpenAccount, EndedAccount DEF IsActive
    <2>2. exits' \in [Pairs -> DlmmExit \cup {NoExit}]
      BY <1>1, <2>1 DEF EmergencyHalt
    <2>. QED
      BY <1>1, <2>2 DEF EmergencyHalt
  <1>2. ASSUME NEW pair \in Pairs, InitiateExit(key, pair)
        PROVE  TypeOK'
    BY <1>2 DEF InitiateExit, NewExit, DlmmExit
  <1>3. ASSUME NEW pair \in Pairs, NEW p \in PassedVotes,
               GovernanceInitiateExit(key, pair, p)
        PROVE  TypeOK'
    BY <1>3, ExitsAssumption DEF GovernanceInitiateExit, NewExit, DlmmExit
  <1>4. ASSUME NEW pair \in Pairs, NEW amount \in ClaimAmounts,
               RecordClaim(key, pair, amount)
        PROVE  TypeOK'
    <2>1. exits[pair] \in DlmmExit /\ amount \in Nat
      BY <1>4, ExitsAssumption, OpenAccount DEF RecordClaim, IsActive
    <2>. QED
      BY <1>4, <2>1 DEF RecordClaim, DlmmExit
  <1>5. ASSUME NEW pair \in Pairs, CompleteExit(key, pair) \/ TerminateExit(key, pair)
        PROVE  TypeOK'
    <2>1. PICK status \in {1, 2} : /\ IsActive(pair)
                                   /\ exits' = [exits EXCEPT ![pair] = Ended(@, status)]
      BY <1>5 DEF CompleteExit, TerminateExit, MayEnd
    <2>2. exits' \in [Pairs -> DlmmExit \cup {NoExit}]
      <3>1. Ended(exits[pair], status) \in DlmmExit
        BY <2>1, OpenAccount, EndedAccount DEF IsActive
      <3>. QED
        BY <2>1, <3>1
    <2>3. signer' \in Keys /\ UNCHANGED <<admin, unspent_votes, now, halt>>
      BY <1>5 DEF CompleteExit, TerminateExit
    <2>. QED
      BY <2>2, <2>3
  <1>6. ASSUME NEW pair \in Pairs, CloseDlmmExit(key, pair)
        PROVE  TypeOK'
    BY <1>6 DEF CloseDlmmExit
  <1>. QED
    BY <1>1, <1>2, <1>3, <1>4, <1>5, <1>6 DEF ExitStep

\* Every instruction keeps the types.
LEMMA NextType == TypeOK /\ [Next]_vars => TypeOK'
  <1>. SUFFICES ASSUME TypeOK, [Next]_vars PROVE TypeOK'
    OBVIOUS
  <1>1. CASE Tick
    BY <1>1 DEF Tick, TypeOK, admin
  <1>2. CASE UNCHANGED vars
    BY <1>2 DEF vars, admin, exit_vars, TypeOK
  <1>. QED
    BY <1>1, <1>2, AdministerType, ExitStepType DEF Next

\* The accounts always hold values of their types, for any number of exits,
\* keys and votes.
THEOREM TypeCorrect == Spec => []TypeOK
  BY InitType, NextType, PTL DEF Spec
----------------------------------------------------------------------------
(* What a step can do to one account. *)

Opened(q) ==
    /\ ~IsOpen(q) /\ ~is_paused /\ ~is_paused'
    /\ \E id \in Nat : exits'[q] = NewExit(id)

WithClaim(exit, amount) ==
    [exit EXCEPT !.total_sol_claimed = @ + amount, !.last_claimed_amount = amount]

Booked(q) ==
    IsActive(q) /\ \E amount \in Nat \ {0} : exits'[q] = WithClaim(exits[q], amount)

EndedNow(q) ==
    IsActive(q) /\ \E status \in {1, 2} : exits'[q] = Ended(exits[q], status)

Closed(q) == IsOpen(q) /\ exits[q].status # 0 /\ exits'[q] = NoExit

\* All that a step can do to an exit account: open it, book a claim, end it
\* or close it.
LEMMA AccountSteps ==
    ASSUME TypeOK, [Next]_vars, NEW q \in Pairs
    PROVE  exits'[q] = exits[q] \/ Opened(q) \/ Booked(q) \/ EndedNow(q) \/ Closed(q)
  <1>. DEFINE Goal == exits'[q] = exits[q] \/ Opened(q) \/ Booked(q) \/ EndedNow(q)
                         \/ Closed(q)
  <1>. SUFFICES Goal
    OBVIOUS
  <1>0. exits \in [Pairs -> DlmmExit \cup {NoExit}]
    BY DEF TypeOK
  <1>1. ASSUME NEW key \in Keys, Administer(key) \/ ResumePool(key)
        PROVE  Goal
    BY <1>1 DEF Administer, ResumePool, exit_vars
  <1>2. ASSUME NEW key \in Keys, NEW listed \in SUBSET Pairs, EmergencyHalt(key, listed)
        PROVE  Goal
    BY <1>2 DEF EmergencyHalt, EndedNow
  <1>3. ASSUME NEW key \in Keys, NEW pair \in Pairs, InitiateExit(key, pair)
        PROVE  Goal
    <2>1. exits' = [exits EXCEPT ![pair] = NewExit(0)]
      BY <1>3 DEF InitiateExit
    <2>2. ~IsOpen(pair) /\ ~is_paused /\ ~is_paused'
      BY <1>3 DEF InitiateExit, admin
    <2>. QED
      BY <1>0, <2>1, <2>2 DEF Opened
  <1>4. ASSUME NEW key \in Keys, NEW pair \in Pairs, NEW p \in PassedVotes,
               GovernanceInitiateExit(key, pair, p)
        PROVE  Goal
    <2>1. p \in Nat /\ exits' = [exits EXCEPT ![pair] = NewExit(p)]
      BY <1>4, ExitsAssumption DEF GovernanceInitiateExit
    <2>2. ~IsOpen(pair) /\ ~is_paused /\ ~is_paused'
      BY <1>4 DEF GovernanceInitiateExit, MayOpen, admin
    <2>. QED
      BY <1>0, <2>1, <2>2 DEF Opened
  <1>5. ASSUME NEW key \in Keys, NEW pair \in Pairs, NEW amount \in ClaimAmounts,
               RecordClaim(key, pair, amount)
        PROVE  Goal
    <2>1. amount \in Nat \ {0} /\ IsActive(pair)
      BY <1>5, ExitsAssumption DEF RecordClaim
    <2>2. exits' = [exits EXCEPT ![pair] = WithClaim(exits[pair], amount)]
      BY <1>0, <1>5, <2>1 DEF RecordClaim, IsActive, IsOpen, DlmmExit, WithClaim
    <2>3. exits'[pair] = WithClaim(exits[pair], amount)
      BY <1>0, <2>2
    <2>5. Booked(pair)
      BY <2>1, <2>3 DEF Booked
    <2>4. q # pair => exits'[q] = exits[q]
      BY <1>0, <2>2
    <2>. QED
      BY <2>4, <2>5
  <1>6. ASSUME NEW key \in Keys, NEW pair \in Pairs,
               CompleteExit(key, pair) \/ TerminateExit(key, pair)
        PROVE  Goal
    <2>1. PICK status \in {1, 2} : /\ IsActive(pair)
                                   /\ exits' = [exits EXCEPT ![pair] = Ended(@, status)]
      BY <1>6 DEF CompleteExit, TerminateExit, MayEnd
    <2>. QED
      BY <1>0, <2>1 DEF EndedNow
  <1>7. ASSUME NEW key \in Keys, NEW pair \in Pairs, CloseDlmmExit(key, pair)
        PROVE  Goal
    BY <1>0, <1>7 DEF CloseDlmmExit, Closed
  <1>8. CASE Tick \/ UNCHANGED vars
    BY <1>8 DEF Tick, vars, exit_vars
  <1>. QED
    BY <1>1, <1>2, <1>3, <1>4, <1>5, <1>6, <1>7, <1>8 DEF Next, ExitStep

\* The fields of an account after each of these changes.
LEMMA ChangedFields ==
    ASSUME TypeOK, NEW q \in Pairs
    PROVE  /\ Opened(q) => /\ exits'[q].status = 0 /\ exits'[q].completed_at = 0
                           /\ exits'[q].created_at = now
                           /\ exits'[q].total_sol_claimed = 0
           /\ Booked(q) => /\ exits'[q] # NoExit
                           /\ exits'[q].status = 0
                           /\ exits'[q].completed_at = exits[q].completed_at
                           /\ exits'[q].created_at = exits[q].created_at
                           /\ exits'[q].proposal_id = exits[q].proposal_id
                           /\ exits'[q].total_sol_claimed > exits[q].total_sol_claimed
           /\ EndedNow(q) => /\ exits'[q] # NoExit
                             /\ exits'[q].status \in {1, 2}
                             /\ exits'[q].completed_at = now
                             /\ exits'[q].created_at = exits[q].created_at
                             /\ exits'[q].proposal_id = exits[q].proposal_id
                             /\ exits'[q].total_sol_claimed = exits[q].total_sol_claimed
  <1>1. Opened(q) => /\ exits'[q].status = 0 /\ exits'[q].completed_at = 0
                     /\ exits'[q].created_at = now
                     /\ exits'[q].total_sol_claimed = 0
    BY DEF Opened, NewExit
  <1>2. ASSUME Booked(q)
        PROVE  /\ exits'[q] # NoExit
               /\ exits'[q].status = 0
               /\ exits'[q].completed_at = exits[q].completed_at
               /\ exits'[q].created_at = exits[q].created_at
               /\ exits'[q].proposal_id = exits[q].proposal_id
               /\ exits'[q].total_sol_claimed > exits[q].total_sol_claimed
    <2>1. exits[q] \in DlmmExit /\ exits[q].status = 0
      BY <1>2, OpenAccount DEF Booked, IsActive
    <2>2. PICK amount \in Nat \ {0} :
             exits'[q] = WithClaim(exits[q], amount)
      BY <1>2 DEF Booked
    <2>3. /\ exits'[q].status = 0
          /\ exits'[q].completed_at = exits[q].completed_at
          /\ exits'[q].created_at = exits[q].created_at
          /\ exits'[q].proposal_id = exits[q].proposal_id
          /\ exits'[q].total_sol_claimed = exits[q].total_sol_claimed + amount
      BY <2>1, <2>2 DEF DlmmExit, WithClaim
    <2>4. exits'[q] # NoExit
      BY <2>3 DEF NoExit
    <2>. QED
      BY <2>1, <2>3, <2>4 DEF DlmmExit
  <1>3. ASSUME EndedNow(q)
        PROVE  /\ exits'[q] # NoExit
               /\ exits'[q].status \in {1, 2}
               /\ exits'[q].completed_at = now
               /\ exits'[q].created_at = exits[q].created_at
               /\ exits'[q].proposal_id = exits[q].proposal_id
               /\ exits'[q].total_sol_claimed = exits[q].total_sol_claimed
    <2>1. exits[q] \in DlmmExit /\ now \in Nat
      BY <1>3, OpenAccount DEF EndedNow, IsActive, TypeOK
    <2>2. PICK status \in {1, 2} : exits'[q] = Ended(exits[q], status)
      BY <1>3 DEF EndedNow
    <2>. QED
      BY <2>1, <2>2, EndedAccount
  <1>. QED
    BY <1>1, <1>2, <1>3
----------------------------------------------------------------------------
(* Ends are dated. *)

\* What EndsAreDated rests on: time has begun, and no account is opened in
\* the future.
CreatedInPast ==
    /\ now >= 1
    /\ \A pair \in Pairs : IsOpen(pair) => exits[pair].created_at <= now

DateInv == TypeOK /\ CreatedInPast /\ EndsAreDated

\* The clock does not run backwards.
LEMMA TimePasses ==
    ASSUME TypeOK, [Next]_vars
    PROVE  now' \in Nat /\ now <= now'
  <1>1. ASSUME NEW key \in Keys, ExitStep(key)
        PROVE  now' = now
    BY <1>1 DEF ExitStep, EmergencyHalt, InitiateExit, GovernanceInitiateExit,
                RecordClaim, CompleteExit, TerminateExit, CloseDlmmExit
  <1>2. ASSUME NEW key \in Keys, Administer(key) \/ ResumePool(key)
        PROVE  now' = now
    BY <1>2 DEF Administer, ResumePool, exit_vars
  <1>3. CASE Tick \/ UNCHANGED vars
    BY <1>3 DEF TypeOK, Tick, vars, exit_vars
  <1>. QED
    BY <1>1, <1>2, <1>3 DEF Next, TypeOK

\* The dates of the accounts stay in order.
LEMMA DateInvStep == DateInv /\ [Next]_vars => DateInv'
  <1>. SUFFICES ASSUME DateInv, [Next]_vars PROVE DateInv'
    OBVIOUS
  <1>1. TypeOK /\ TypeOK' /\ now <= now' /\ now \in Nat /\ now' \in Nat /\ now >= 1
    BY NextType, TimePasses DEF DateInv, TypeOK, CreatedInPast
  <1>2. ASSUME NEW q \in Pairs, IsOpen(q)'
        PROVE  /\ exits'[q].created_at <= now'
               /\ IF exits'[q].status = 0
                  THEN exits'[q].completed_at = 0
                  ELSE /\ exits'[q].completed_at >= exits'[q].created_at
                       /\ exits'[q].completed_at \in 1..now'
    <2>1. IsOpen(q) => /\ exits[q] \in DlmmExit
                       /\ exits[q].created_at <= now
                       /\ IF exits[q].status = 0
                          THEN exits[q].completed_at = 0
                          ELSE /\ exits[q].completed_at >= exits[q].created_at
                               /\ exits[q].completed_at \in 1..now
      BY OpenAccount DEF DateInv, CreatedInPast, EndsAreDated
    <2>2. CASE exits'[q] = exits[q]
      BY <1>1, <1>2, <2>1, <2>2 DEF IsOpen, DlmmExit
    <2>3. CASE Opened(q)
      BY <1>1, <2>3, ChangedFields
    <2>4. CASE Booked(q)
      <3>1. /\ exits[q].created_at \in Nat /\ exits[q].created_at <= now
            /\ exits[q].completed_at = 0
        BY <2>1, <2>4 DEF Booked, IsActive, DlmmExit
      <3>. QED
        BY <1>1, <2>4, <3>1, ChangedFields
    <2>5. CASE EndedNow(q)
      <3>1. exits[q].created_at \in Nat /\ exits[q].created_at <= now
        BY <2>1, <2>5 DEF EndedNow, IsActive, DlmmExit
      <3>. QED
        BY <1>1, <2>5, <3>1, ChangedFields
    <2>6. ~Closed(q)
      BY <1>2 DEF Closed, IsOpen
    <2>. QED
      BY <1>1, <2>2, <2>3, <2>4, <2>5, <2>6, AccountSteps
  <1>. QED
    BY <1>1, <1>2 DEF DateInv, CreatedInPast, EndsAreDated

\* An exit's end is dated, not before its opening and not in the future, by
\* whichever instruction it ends; an active exit has no end.
THEOREM EndsDated == Spec => []EndsAreDated
  <1>1. Init => DateInv
    BY InitType DEF Init, DateInv, CreatedInPast, EndsAreDated, IsOpen
  <1>. QED
    BY <1>1, DateInvStep, PTL DEF Spec, DateInv
----------------------------------------------------------------------------
(* The halt holds. *)

\* What HaltHolds rests on: until the owner resumes, nothing opens.
HaltInv == TypeOK /\ HaltHolds /\ (halt # "none" => is_paused)

\* A step halts, resumes, or leaves the history and a pause as they are.
LEMMA HaltSteps ==
    ASSUME [Next]_vars
    PROVE  \/ \E key \in Keys, listed \in SUBSET Pairs : EmergencyHalt(key, listed)
           \/ halt' = "none"
           \/ halt' = halt /\ (is_paused => is_paused')
  <1>1. ASSUME NEW key \in Keys, Administer(key)
        PROVE  halt' = halt /\ (is_paused => is_paused')
    BY <1>1 DEF Administer, TransferOwnership, AcceptOwnership, UpdateCrank,
                UpdateTreasury, AutoPause, exit_vars
  <1>2. ASSUME NEW key \in Keys, ResumePool(key)
        PROVE  halt' = "none"
    BY <1>2 DEF ResumePool
  <1>3. ASSUME NEW key \in Keys, ExitStep(key)
        PROVE  \/ \E listed \in SUBSET Pairs : EmergencyHalt(key, listed)
               \/ halt' = halt /\ is_paused' = is_paused
    BY <1>3 DEF ExitStep, InitiateExit, GovernanceInitiateExit, RecordClaim,
                CompleteExit, TerminateExit, CloseDlmmExit, admin
  <1>4. CASE Tick \/ UNCHANGED vars
    BY <1>4 DEF Tick, vars, exit_vars, admin
  <1>. QED
    BY <1>1, <1>2, <1>3, <1>4 DEF Next

\* What holds of a halted pool goes on holding.
LEMMA HaltInvStep == HaltInv /\ [Next]_vars => HaltInv'
  <1>. SUFFICES ASSUME HaltInv, [Next]_vars PROVE HaltInv'
    OBVIOUS
  <1>1. TypeOK /\ TypeOK'
    BY NextType DEF HaltInv
  <1>2. CASE \E key \in Keys, listed \in SUBSET Pairs : EmergencyHalt(key, listed)
    <2>1. PICK key \in Keys, listed \in SUBSET Pairs : EmergencyHalt(key, listed)
      BY <1>2
    <2>2. is_paused'
      BY <2>1 DEF EmergencyHalt
    <2>3. ASSUME halt' = "all", NEW q \in Pairs
          PROVE  ~IsActive(q)'
      <3>1. IsActive(q) => q \in listed
        BY <2>1, <2>3 DEF EmergencyHalt
      <3>2. CASE IsActive(q)
        <4>1. exits'[q] = Ended(exits[q], 2)
          BY <2>1, <3>1, <3>2 DEF EmergencyHalt
        <4>2. Ended(exits[q], 2).status = 2
          BY <1>1, <3>2, OpenAccount, EndedAccount DEF IsActive, TypeOK
        <4>. QED
          BY <4>1, <4>2 DEF IsActive
      <3>3. CASE ~IsActive(q)
        <4>1. exits'[q] = exits[q]
          BY <2>1, <3>3 DEF EmergencyHalt
        <4>. QED
          BY <3>3, <4>1 DEF IsActive, IsOpen
      <3>. QED
        BY <3>2, <3>3
    <2>. QED
      BY <1>1, <2>2, <2>3 DEF HaltInv, HaltHolds
  <1>3. CASE halt' = "none"
    BY <1>1, <1>3 DEF HaltInv, HaltHolds
  <1>4. CASE halt' = halt /\ (is_paused => is_paused')
    <2>1. ASSUME halt = "all", NEW q \in Pairs
          PROVE  ~IsActive(q)'
      <3>1. is_paused /\ ~IsActive(q)
        BY <2>1 DEF HaltInv, HaltHolds
      <3>2. exits'[q] = exits[q] \/ exits'[q] = NoExit
        BY <1>1, <3>1, AccountSteps DEF Opened, Booked, EndedNow, Closed
      <3>. QED
        BY <3>1, <3>2 DEF IsActive, IsOpen
    <2>. QED
      BY <1>1, <1>4, <2>1 DEF HaltInv, HaltHolds
  <1>. QED
    BY <1>2, <1>3, <1>4, HaltSteps

\* A halt that named every active exit holds until the owner resumes, for any
\* number of exits, keys and votes.
THEOREM HaltsHold == Spec => []HaltHolds
  <1>1. Init => HaltInv
    BY InitType DEF Init, HaltInv, HaltHolds
  <1>. QED
    BY <1>1, HaltInvStep, PTL DEF Spec, HaltInv
----------------------------------------------------------------------------
(* Action properties. *)

\* An ended account never changes again but to be closed, and an active one
\* keeps its opening date and vote while its books only grow.
THEOREM EndsAreFinal == Spec => EndedExitsAreFinal
  <1>1. ASSUME TypeOK, [Next]_vars, NEW q \in Pairs, IsOpen(q)
        PROVE  IF exits[q].status = Active
               THEN /\ exits'[q] # NoExit
                    /\ exits'[q].total_sol_claimed >= exits[q].total_sol_claimed
                    /\ exits'[q].created_at = exits[q].created_at
                    /\ exits'[q].proposal_id = exits[q].proposal_id
               ELSE exits'[q] \in {exits[q], NoExit}
    <2>1. exits[q] \in DlmmExit
      BY <1>1, OpenAccount
    <2>2. CASE exits[q].status = Active
      <3>1. \/ exits'[q] = exits[q] /\ exits'[q] # NoExit
            \/ Booked(q) \/ EndedNow(q)
        BY <1>1, <2>2, AccountSteps DEF Opened, Closed, IsOpen
      <3>2. CASE Booked(q)
        <4>1. /\ exits'[q] # NoExit
              /\ exits'[q].created_at = exits[q].created_at
              /\ exits'[q].proposal_id = exits[q].proposal_id
              /\ exits'[q].total_sol_claimed > exits[q].total_sol_claimed
          BY <1>1, <3>2, ChangedFields
        <4>2. exits'[q] \in DlmmExit \cup {NoExit}
          BY <1>1, NextType DEF TypeOK
        <4>. QED
          BY <2>1, <2>2, <4>1, <4>2 DEF DlmmExit
      <3>3. CASE EndedNow(q)
        BY <1>1, <2>1, <2>2, <3>3, ChangedFields DEF DlmmExit
      <3>4. CASE exits'[q] = exits[q] /\ exits'[q] # NoExit
        BY <2>1, <2>2, <3>4 DEF DlmmExit
      <3>. QED
        BY <3>1, <3>2, <3>3, <3>4
    <2>3. CASE exits[q].status # Active
      BY <1>1, <2>3, AccountSteps DEF Opened, Booked, EndedNow, Closed, IsActive
    <2>. QED
      BY <2>2, <2>3
  <1>2. TypeOK /\ [Next]_vars =>
           [\A pair \in Pairs : IsOpen(pair) =>
               IF exits[pair].status = Active
               THEN /\ exits'[pair] # NoExit
                    /\ exits'[pair].total_sol_claimed >= exits[pair].total_sol_claimed
                    /\ exits'[pair].created_at = exits[pair].created_at
                    /\ exits'[pair].proposal_id = exits[pair].proposal_id
               ELSE exits'[pair] \in {exits[pair], NoExit}]_vars
    BY <1>1
  <1>. QED
    BY <1>2, TypeCorrect, PTL DEF Spec, EndedExitsAreFinal

\* What a step not signed by the owner may do: the body of CrankIsLimited.
Limited ==
    /\ UNCHANGED <<crank, treasury>>
    /\ is_paused => is_paused'
    /\ <<owner', pending_owner'>> \in
          {<<owner, pending_owner>>, <<signer', NoKey>>}
    /\ owner' # owner => owner' = pending_owner
    /\ \A pair \in Pairs : exits'[pair] # exits[pair] =>
          /\ signer' = crank
          /\ IF IsOpen(pair)
             THEN exits'[pair] # NoExit /\ exits'[pair].status # Terminated
             ELSE exits'[pair].proposal_id \in unspent_votes \ unspent_votes'

\* It does no more.
LEMMA LimitedStep ==
    ASSUME TypeOK, [Next]_vars, signer' # owner
    PROVE  Limited
  <1>0. exits \in [Pairs -> DlmmExit \cup {NoExit}] /\ now \in Nat
    BY DEF TypeOK
  <1>1. ASSUME NEW key \in Keys, Administer(key)
        PROVE  Limited
    BY <1>1 DEF Limited, Administer, TransferOwnership, AcceptOwnership,
                UpdateCrank, UpdateTreasury, AutoPause, exit_vars, SignedBy,
                SignedByOwner, ClearedOffer
  <1>2. ASSUME NEW key \in Keys, ResumePool(key)
        PROVE  Limited
    BY <1>2 DEF ResumePool, Resume, SignedByOwner, SignedBy
  <1>3. ASSUME NEW key \in Keys, ExitStep(key)
        PROVE  Limited
    <2>1. ~ \E listed \in SUBSET Pairs : EmergencyHalt(key, listed)
      BY DEF EmergencyHalt, SignedByOwner, SignedBy
    <2>2. ASSUME NEW pair \in Pairs,
                 InitiateExit(key, pair) \/ TerminateExit(key, pair)
                    \/ CloseDlmmExit(key, pair)
          PROVE  FALSE
      BY <2>2 DEF InitiateExit, TerminateExit, CloseDlmmExit, SignedByOwner, SignedBy
    <2>3. ASSUME NEW pair \in Pairs, NEW p \in PassedVotes,
                 GovernanceInitiateExit(key, pair, p)
          PROVE  Limited
      <3>1. /\ UNCHANGED admin /\ signer' = crank
            /\ ~IsOpen(pair) /\ p \in unspent_votes \ unspent_votes'
            /\ exits' = [exits EXCEPT ![pair] = NewExit(p)]
        BY <2>3 DEF GovernanceInitiateExit, SignedBy
      <3>2. NewExit(p).proposal_id = p
        BY DEF NewExit
      <3>3. \A q \in Pairs : exits'[q] # exits[q] =>
               ~IsOpen(q) /\ exits'[q].proposal_id \in unspent_votes \ unspent_votes'
        BY <1>0, <3>1, <3>2
      <3>. QED
        BY <3>1, <3>3 DEF Limited, admin
    <2>4. ASSUME NEW pair \in Pairs, NEW amount \in ClaimAmounts,
                 RecordClaim(key, pair, amount)
          PROVE  Limited
      <3>1. UNCHANGED admin /\ signer' = crank /\ UNCHANGED unspent_votes
        BY <2>4 DEF RecordClaim, SignedByOwnerOrCrank, SignedBy
      <3>2. \A q \in Pairs \ {pair} : exits'[q] = exits[q]
        BY <1>0, <2>4 DEF RecordClaim
      <3>3. IsActive(pair) /\ ~Closed(pair)
        BY <2>4 DEF RecordClaim, Closed, IsActive
      <3>4. ~EndedNow(pair)
        <4>1. exits[pair] \in DlmmExit /\ exits[pair].status = 0
          BY <3>3, OpenAccount DEF IsActive
        <4>2. exits'[pair].status = exits[pair].status
          BY <1>0, <2>4, <4>1 DEF RecordClaim, DlmmExit
        <4>. QED
          BY <4>1, <4>2, ChangedFields
      <3>5. exits'[pair] # exits[pair] => IsOpen(pair) /\ Booked(pair)
        BY <3>3, <3>4, AccountSteps DEF Opened, IsActive
      <3>6. exits'[pair] # exits[pair] =>
               IsOpen(pair) /\ exits'[pair] # NoExit /\ exits'[pair].status = 0
        BY <3>5, ChangedFields
      <3>. QED
        BY <3>1, <3>2, <3>6 DEF Limited, admin
    <2>5. ASSUME NEW pair \in Pairs, CompleteExit(key, pair)
          PROVE  Limited
      <3>1. UNCHANGED admin /\ signer' = crank /\ UNCHANGED unspent_votes
        BY <2>5 DEF CompleteExit, SignedByOwnerOrCrank, SignedBy
      <3>2. /\ \A q \in Pairs \ {pair} : exits'[q] = exits[q]
            /\ IsActive(pair) /\ exits'[pair] = Ended(exits[pair], 1)
        BY <1>0, <2>5 DEF CompleteExit, MayEnd
      <3>3. /\ IsOpen(pair)
            /\ exits'[pair] # NoExit /\ exits'[pair].status = 1
        BY <1>0, <3>2, OpenAccount, EndedAccount DEF IsActive
      <3>. QED
        BY <3>1, <3>2, <3>3 DEF Limited, admin
    <2>. QED
      BY <1>3, <2>1, <2>2, <2>3, <2>4, <2>5 DEF ExitStep
  <1>4. CASE Tick \/ UNCHANGED vars
    BY <1>4 DEF Limited, Tick, vars, exit_vars, admin
  <1>. QED
    BY <1>1, <1>2, <1>3, <1>4 DEF Next

\* A key that is not the owner's can record and complete while it is the
\* crank, open exits that were voted for, and accept an ownership offered to
\* it, and nothing else.
THEOREM CrankLimited == Spec => CrankIsLimited
  <1>1. TypeOK /\ [Next]_vars => [signer' # owner => Limited]_vars
    BY LimitedStep
  <1>. QED
    BY <1>1, TypeCorrect, PTL DEF Spec, CrankIsLimited, Limited
----------------------------------------------------------------------------
(* Refinement. *)

\* An account as ExitLifecycle sees it.
Seen(exit) == [status |-> exit.status, claimed |-> exit.total_sol_claimed]
SeenAll == [pair \in Pairs |-> Seen(exits[pair])]

\* A change of one account is a change of one account of the lifecycle.
LEMMA OneAccountSeen ==
    ASSUME NEW pair \in Pairs, exits \in [Pairs -> DlmmExit \cup {NoExit}],
           NEW new, exits' = [exits EXCEPT ![pair] = new]
    PROVE  SeenAll' = [SeenAll EXCEPT ![pair] = Seen(new)]
  BY DEF SeenAll

\* Every instruction is a step of the lifecycle or leaves it alone.
LEMMA LifecycleStep ==
    ASSUME TypeOK, [Next]_vars
    PROVE  [Lifecycle!Next]_(Lifecycle!lifecycle_vars)
  <1>. USE DEF Lifecycle!Active, Lifecycle!Ends, Lifecycle!NoAccount, Lifecycle!Fresh,
               Lifecycle!ActiveOnes
  <1>0. exits \in [Pairs -> DlmmExit \cup {NoExit}] /\ now \in Nat
    BY DEF TypeOK
  <1>1. ASSUME UNCHANGED exits, is_paused' \in BOOLEAN
        PROVE  Lifecycle!Switch
    BY <1>1 DEF Lifecycle!Switch
  <1>2. ASSUME NEW key \in Keys, NEW listed \in SUBSET Pairs, EmergencyHalt(key, listed)
        PROVE  Lifecycle!Halt
    <2>1. \A pair \in Pairs : IsActive(pair) <=> SeenAll[pair].status = 0
      BY <1>0 DEF SeenAll, Seen, IsActive, IsOpen, NoExit, DlmmExit
    <2>2. \A pair \in Pairs : IsActive(pair) =>
             Seen(Ended(exits[pair], 2)) = [SeenAll[pair] EXCEPT !.status = 2]
      BY <1>0, OpenAccount, EndedAccount DEF SeenAll, Seen, IsActive
    <2>3. SeenAll' = [pair \in Pairs |-> IF pair \in listed /\ IsActive(pair)
                                         THEN [SeenAll[pair] EXCEPT !.status = 2]
                                         ELSE SeenAll[pair]]
      BY <1>2, <2>2 DEF EmergencyHalt, SeenAll
    <2>4. ASSUME NEW q \in Pairs
          PROVE  (IsActive(q) /\ SeenAll'[q].status = 2) <=> (q \in listed /\ IsActive(q))
      <3>1. SeenAll[q] = [status |-> SeenAll[q].status, claimed |-> SeenAll[q].claimed]
        BY DEF SeenAll, Seen
      <3>2. CASE q \in listed /\ IsActive(q)
        <4>1. SeenAll'[q] = [SeenAll[q] EXCEPT !.status = 2]
          BY <2>3, <3>2
        <4>. QED
          BY <3>1, <3>2, <4>1
      <3>3. CASE q \notin listed /\ IsActive(q)
        BY <2>1, <2>3, <3>3
      <3>. QED
        BY <3>2, <3>3
    <2>. DEFINE ones == {q \in Lifecycle!ActiveOnes : SeenAll'[q].status = 2}
    <2>5. \A q \in Pairs : q \in ones <=> (q \in listed /\ IsActive(q))
      BY <2>1, <2>4 DEF SeenAll, Seen
    <2>6. ones \subseteq Pairs
      OBVIOUS
    <2>. HIDE DEF ones
    <2>7. SeenAll' = [q \in Pairs |-> IF q \in ones THEN [SeenAll[q] EXCEPT !.status = 2]
                                     ELSE SeenAll[q]]
      BY <2>3, <2>5
    <2>8. SeenAll' = Lifecycle!Ended(ones, 2)
      BY <2>7 DEF SeenAll, Seen, Lifecycle!Ended
    <2>. QED
      BY <1>2, <2>8 DEF ones, SeenAll, Seen, Lifecycle!Halt, EmergencyHalt
  <1>3. ASSUME NEW pair \in Pairs, NEW id \in Nat, ~is_paused, UNCHANGED is_paused,
               ~IsOpen(pair), exits' = [exits EXCEPT ![pair] = NewExit(id)]
        PROVE  Lifecycle!Open(pair)
    <2>1. SeenAll' = [SeenAll EXCEPT ![pair] = [status |-> 0, claimed |-> 0]]
      BY <1>0, <1>3, OneAccountSeen DEF Seen, NewExit
    <2>2. SeenAll[pair] = [status |-> -1, claimed |-> 0]
      BY <1>3 DEF SeenAll, Seen, IsOpen, NoExit
    <2>. QED
      BY <1>3, <2>1, <2>2 DEF SeenAll, Seen, Lifecycle!Open
  <1>4. ASSUME NEW pair \in Pairs, NEW amount \in Nat \ {0}, UNCHANGED is_paused,
               IsActive(pair), exits' = [exits EXCEPT ![pair] = WithClaim(exits[pair], amount)]
        PROVE  Lifecycle!Book(pair)
    <2>1. exits[pair] \in DlmmExit /\ exits[pair].status = 0
      BY <1>4, OpenAccount DEF IsActive
    <2>2. Seen(WithClaim(exits[pair], amount)) =
             [SeenAll[pair] EXCEPT !.claimed = exits[pair].total_sol_claimed + amount]
      BY <2>1 DEF Seen, SeenAll, WithClaim, DlmmExit
    <2>3. SeenAll' = [SeenAll EXCEPT ![pair] = Seen(WithClaim(exits[pair], amount))]
      BY <1>0, <1>4, OneAccountSeen
    <2>4. SeenAll'[pair].claimed = exits[pair].total_sol_claimed + amount
      BY <2>2, <2>3 DEF SeenAll, Seen
    <2>5. SeenAll[pair].claimed = exits[pair].total_sol_claimed /\ SeenAll[pair].status = 0
      BY <2>1 DEF SeenAll, Seen
    <2>6. /\ pair \in Lifecycle!ActiveOnes
          /\ SeenAll'[pair].claimed > SeenAll[pair].claimed
          /\ SeenAll' = [SeenAll EXCEPT ![pair].claimed = SeenAll'[pair].claimed]
      <3>1. SeenAll'[pair].claimed > SeenAll[pair].claimed
        BY <2>1, <2>4, <2>5 DEF DlmmExit
      <3>2. SeenAll' = [SeenAll EXCEPT ![pair].claimed = SeenAll'[pair].claimed]
        BY <2>2, <2>3, <2>4
      <3>3. pair \in Lifecycle!ActiveOnes
        BY <2>5 DEF SeenAll, Seen
      <3>. QED
        BY <3>1, <3>2, <3>3
    <2>. QED
      BY <1>4, <2>6 DEF SeenAll, Seen, Lifecycle!Book
  <1>5. ASSUME NEW pair \in Pairs, NEW status \in {1, 2}, UNCHANGED is_paused,
               IsActive(pair), exits' = [exits EXCEPT ![pair] = Ended(exits[pair], status)]
        PROVE  Lifecycle!End(pair, status)
    <2>1. exits[pair] \in DlmmExit /\ exits[pair].status = 0
      BY <1>5, OpenAccount DEF IsActive
    <2>2. Seen(Ended(exits[pair], status)) = [SeenAll[pair] EXCEPT !.status = status]
      BY <1>0, <2>1, EndedAccount DEF Seen, SeenAll
    <2>3. SeenAll' = [SeenAll EXCEPT ![pair] = [SeenAll[pair] EXCEPT !.status = status]]
      BY <1>0, <1>5, <2>2, OneAccountSeen
    <2>4. pair \in Lifecycle!ActiveOnes /\ SeenAll' = Lifecycle!Ended({pair}, status)
      BY <2>1, <2>3 DEF SeenAll, Seen, Lifecycle!Ended
    <2>. QED
      BY <1>5, <2>4 DEF SeenAll, Seen, Lifecycle!End
  <1>6. ASSUME NEW key \in Keys, NEW pair \in Pairs, CloseDlmmExit(key, pair)
        PROVE  Lifecycle!Close(pair)
    <2>1. exits[pair] \in DlmmExit /\ exits[pair].status # 0
      BY <1>6, OpenAccount DEF CloseDlmmExit
    <2>2. SeenAll' = [SeenAll EXCEPT ![pair] = [status |-> -1, claimed |-> 0]]
      BY <1>0, <1>6, OneAccountSeen DEF CloseDlmmExit, Seen, NoExit
    <2>3. SeenAll[pair].status \in {1, 2}
      BY <2>1 DEF SeenAll, Seen, DlmmExit
    <2>. QED
      BY <1>6, <2>2, <2>3 DEF CloseDlmmExit, admin, SeenAll, Seen, Lifecycle!Close
  <1>7. ASSUME NEW key \in Keys, Administer(key) \/ ResumePool(key)
        PROVE  UNCHANGED exits /\ is_paused' \in BOOLEAN
    BY <1>7, AdministerType DEF Administer, ResumePool, exit_vars, TypeOK
  <1>8. ASSUME NEW key \in Keys, ExitStep(key)
        PROVE  Lifecycle!Next
    <2>1. ASSUME NEW pair \in Pairs, InitiateExit(key, pair)
          PROVE  Lifecycle!Open(pair)
      BY <1>3, <2>1 DEF InitiateExit, admin
    <2>2. ASSUME NEW pair \in Pairs, NEW p \in PassedVotes,
                 GovernanceInitiateExit(key, pair, p)
          PROVE  Lifecycle!Open(pair)
      BY <1>3, <2>2, ExitsAssumption DEF GovernanceInitiateExit, MayOpen, admin
    <2>3. ASSUME NEW pair \in Pairs, NEW amount \in ClaimAmounts,
                 RecordClaim(key, pair, amount)
          PROVE  Lifecycle!Book(pair)
      <3>1. amount \in Nat \ {0} /\ IsActive(pair) /\ UNCHANGED is_paused
        BY <2>3, ExitsAssumption DEF RecordClaim, admin
      <3>2. exits' = [exits EXCEPT ![pair] = WithClaim(exits[pair], amount)]
        BY <1>0, <2>3, <3>1 DEF RecordClaim, IsActive, IsOpen, DlmmExit, WithClaim
      <3>. QED
        BY <1>4, <3>1, <3>2
    <2>4. ASSUME NEW pair \in Pairs, CompleteExit(key, pair) \/ TerminateExit(key, pair)
          PROVE  \E status \in Lifecycle!Ends : Lifecycle!End(pair, status)
      BY <1>5, <2>4 DEF CompleteExit, TerminateExit, MayEnd, admin
    <2>. QED
      BY <1>2, <1>6, <1>8, <2>1, <2>2, <2>3, <2>4 DEF ExitStep, Lifecycle!Next
  <1>9. CASE Tick \/ UNCHANGED vars
    BY <1>9 DEF Tick, vars, exit_vars, admin, Lifecycle!lifecycle_vars
  <1>. QED
    BY <1>1, <1>7, <1>8, <1>9 DEF Next, Lifecycle!Next

\* The instructions on exit accounts implement the lifecycle that the crank's
\* model is held to as well.
THEOREM ExitsImplementLifecycle == Spec => ImplementsLifecycle
  <1>1. Init => Lifecycle!Init
    BY DEF Init, AdminInit, NoExit, Lifecycle!Init, Lifecycle!NoAccount
  <1>2. TypeOK /\ [Next]_vars => [Lifecycle!Next]_(Lifecycle!lifecycle_vars)
    BY LifecycleStep
  <1>. QED
    BY <1>1, <1>2, TypeCorrect, PTL DEF Spec, ImplementsLifecycle, Lifecycle!Spec
----------------------------------------------------------------------------
(* Refinement of the mandates.                                             *)

\* The vote that an account rests on.
Held(pair) == IF IsOpen(pair) THEN exits[pair].proposal_id ELSE -1
HeldAll == [pair \in Pairs |-> Held(pair)]

\* Claims, ends and halts leave every account on its vote.
LEMMA VotesStay ==
    ASSUME TypeOK, [Next]_vars,
           \A q \in Pairs : ~IsActive(q) => exits'[q] = exits[q]
    PROVE  HeldAll' = HeldAll
  <1>1. ASSUME NEW q \in Pairs
        PROVE  Held(q)' = Held(q)
    <2>1. exits'[q] = exits[q] \/ Booked(q) \/ EndedNow(q)
      BY AccountSteps DEF Opened, Closed, IsActive
    <2>2. CASE exits'[q] = exits[q]
      BY <2>2 DEF Held, IsOpen, NoExit
    <2>3. CASE Booked(q) \/ EndedNow(q)
      <3>1. exits'[q] # NoExit /\ exits'[q].proposal_id = exits[q].proposal_id
        BY <2>3, ChangedFields
      <3>2. IsOpen(q)
        BY <2>3 DEF Booked, EndedNow, IsActive
      <3>. QED
        BY <3>1, <3>2 DEF Held, IsOpen, NoExit
    <2>. QED
      BY <2>1, <2>2, <2>3
  <1>. QED
    BY <1>1 DEF HeldAll

\* An account just opened rests on what it was opened on.
LEMMA OpenedHeld ==
    ASSUME NEW pair \in Pairs, exits \in [Pairs -> DlmmExit \cup {NoExit}],
           NEW id \in Nat, exits' = [exits EXCEPT ![pair] = NewExit(id)]
    PROVE  HeldAll' = [HeldAll EXCEPT ![pair] = id]
  <1>. DEFINE new == NewExit(id)
  <1>1. new.status = 0 /\ new.proposal_id = id
    BY DEF NewExit
  <1>2. NoExit.status = -1
    BY DEF NoExit
  <1>3. new # NoExit
    BY <1>1, <1>2
  <1>4. \A q \in Pairs : exits'[q] = IF q = pair THEN new ELSE exits[q]
    OBVIOUS
  <1>5. NoExit' = NoExit
    BY DEF NoExit
  <1>. HIDE DEF new
  <1>6. \A q \in Pairs : Held(q)' = IF q = pair THEN id ELSE Held(q)
    BY <1>1, <1>3, <1>4, <1>5 DEF Held, IsOpen
  <1>. QED
    BY <1>6 DEF HeldAll

\* A closed one rests on nothing.
LEMMA ClosedHeld ==
    ASSUME NEW pair \in Pairs, exits \in [Pairs -> DlmmExit \cup {NoExit}],
           exits' = [exits EXCEPT ![pair] = NoExit]
    PROVE  HeldAll' = [HeldAll EXCEPT ![pair] = -1]
  <1>1. \A q \in Pairs : exits'[q] = IF q = pair THEN NoExit ELSE exits[q]
    OBVIOUS
  <1>2. \A q \in Pairs : Held(q)' = IF q = pair THEN -1 ELSE Held(q)
    BY <1>1 DEF Held, IsOpen, NoExit
  <1>. QED
    BY <1>2 DEF HeldAll

\* Every instruction is a step of the mandates or leaves them alone.
LEMMA MandateStep ==
    ASSUME TypeOK, [Next]_vars
    PROVE  [Mandates!Next]_(Mandates!mandate_vars)
  <1>0. exits \in [Pairs -> DlmmExit \cup {NoExit}]
    BY DEF TypeOK
  <1>1. ASSUME UNCHANGED unspent_votes,
               \A q \in Pairs : ~IsActive(q) => exits'[q] = exits[q]
        PROVE  UNCHANGED Mandates!mandate_vars
    <2>1. HeldAll' = HeldAll
      BY <1>1, VotesStay
    <2>. QED
      BY <1>1, <2>1 DEF HeldAll, Held, Mandates!mandate_vars
  <1>2. ASSUME NEW key \in Keys, NEW pair \in Pairs, InitiateExit(key, pair)
        PROVE  Mandates!OpenUnvoted(pair)
    <2>1. HeldAll' = [HeldAll EXCEPT ![pair] = 0]
      BY <1>0, <1>2, OpenedHeld DEF InitiateExit
    <2>2. HeldAll[pair] = -1 /\ UNCHANGED unspent_votes
      BY <1>2 DEF InitiateExit, HeldAll, Held
    <2>. QED
      BY <2>1, <2>2 DEF HeldAll, Held, Mandates!OpenUnvoted
  <1>3. ASSUME NEW key \in Keys, NEW pair \in Pairs, NEW p \in PassedVotes,
               GovernanceInitiateExit(key, pair, p)
        PROVE  Mandates!Spend(pair, p)
    <2>1. p \in Nat /\ p \in unspent_votes /\ unspent_votes' = unspent_votes \ {p}
      BY <1>3, ExitsAssumption DEF GovernanceInitiateExit
    <2>2. HeldAll' = [HeldAll EXCEPT ![pair] = p]
      BY <1>0, <1>3, <2>1, OpenedHeld DEF GovernanceInitiateExit
    <2>3. HeldAll[pair] = -1
      BY <1>3 DEF GovernanceInitiateExit, HeldAll, Held
    <2>4. PassedVotes \ unspent_votes' = (PassedVotes \ unspent_votes) \cup {p}
      BY <2>1
    <2>. QED
      BY <2>1, <2>2, <2>3, <2>4 DEF HeldAll, Held, Mandates!Spend
  <1>4. ASSUME NEW key \in Keys, NEW pair \in Pairs, CloseDlmmExit(key, pair)
        PROVE  Mandates!Release(pair)
    <2>1. HeldAll' = [HeldAll EXCEPT ![pair] = -1] /\ UNCHANGED unspent_votes
      BY <1>0, <1>4, ClosedHeld DEF CloseDlmmExit
    <2>. QED
      BY <2>1 DEF HeldAll, Held, Mandates!Release
  <1>5. ASSUME NEW key \in Keys, NEW pair \in Pairs, NEW amount \in ClaimAmounts,
               RecordClaim(key, pair, amount)
        PROVE  UNCHANGED Mandates!mandate_vars
    <2>1. IsActive(pair) /\ UNCHANGED unspent_votes
      BY <1>5 DEF RecordClaim
    <2>2. \A q \in Pairs : q # pair => exits'[q] = exits[q]
      BY <1>0, <1>5 DEF RecordClaim
    <2>. QED
      BY <1>1, <2>1, <2>2
  <1>6. ASSUME NEW key \in Keys, NEW pair \in Pairs,
               CompleteExit(key, pair) \/ TerminateExit(key, pair)
        PROVE  UNCHANGED Mandates!mandate_vars
    <2>1. IsActive(pair) /\ UNCHANGED unspent_votes
      BY <1>6 DEF CompleteExit, TerminateExit, MayEnd
    <2>2. \A q \in Pairs : q # pair => exits'[q] = exits[q]
      BY <1>0, <1>6 DEF CompleteExit, TerminateExit
    <2>. QED
      BY <1>1, <2>1, <2>2
  <1>7. ASSUME NEW key \in Keys, NEW listed \in SUBSET Pairs, EmergencyHalt(key, listed)
        PROVE  UNCHANGED Mandates!mandate_vars
    BY <1>1, <1>7 DEF EmergencyHalt
  <1>8. ASSUME NEW key \in Keys, Administer(key) \/ ResumePool(key)
        PROVE  UNCHANGED Mandates!mandate_vars
    BY <1>1, <1>8 DEF Administer, ResumePool, exit_vars
  <1>9. CASE Tick \/ UNCHANGED vars
    BY <1>1, <1>9 DEF Tick, vars, exit_vars
  <1>. QED
    BY <1>2, <1>3, <1>4, <1>5, <1>6, <1>7, <1>8, <1>9 DEF Next, ExitStep, Mandates!Next

\* The accounts use votes as mandates: each opens one account, ever, whatever
\* happens to that account.
THEOREM ExitsUseMandates == Spec => ImplementsMandates
  <1>1. Init => Mandates!Init
    <2>. SUFFICES ASSUME Init PROVE Mandates!Init
      OBVIOUS
    <2>1. PassedVotes \subseteq Nat /\ PassedVotes \ unspent_votes = {}
      BY ExitsAssumption DEF Init
    <2>2. HeldAll = [pair \in Pairs |-> -1]
      BY DEF Init, HeldAll, Held, IsOpen
    <2>. QED
      BY <2>1, <2>2 DEF HeldAll, Held, Mandates!Init
  <1>2. TypeOK /\ [Next]_vars => [Mandates!Next]_(Mandates!mandate_vars)
    BY MandateStep
  <1>. QED
    BY <1>1, <1>2, TypeCorrect, PTL DEF Spec, ImplementsMandates, Mandates!Spec
=============================================================================
