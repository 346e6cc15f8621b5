------------------------ MODULE ProposalStoreProofs ------------------------
(***************************************************************************)
(* Theorems about ProposalStore, for every number of proposals and worker  *)
(* threads, every life time and every clock.                               *)
(*                                                                         *)
(* IInv is inductive: each action is shown to keep all of it.  The         *)
(* refinement of ProposalLife follows from IInv and the actions.           *)
(***************************************************************************)
EXTENDS ProposalStore, TLAPS

USE TimeAssumption, NoProposalAssumption

\* A call that returns leaves its thread without a proposal.
LEMMA EndTyped ==
  ASSUME TypeOK, NEW t \in Thread, End(t)
  PROVE  /\ pc' \in [Thread -> {"idle", "create", "get", "take", "commit", "failed", "restore"}]
         /\ held' \in [Thread -> Proposal \cup {NoProposal}]
         /\ now' \in [Thread -> 0 .. Horizon]
  BY DEF TypeOK, End

\* The empty store of a process that starts satisfies the invariant.
LEMMA InvariantInit == Init => IInv
  BY DEF Init, IInv, TypeOK, CallsAreNamed, ClockReadingsArePast, BornWithExpiry,
     SingleHolder, NothingForgotten, ExpiryIsReal, Holding, PL!Init, PL!Stage

\* Every step of every call keeps the invariant.
LEMMA InvariantStep == IInv /\ [Next]_vars => IInv'
<1> SUFFICES ASSUME IInv, [Next]_vars PROVE IInv'
  OBVIOUS
<1> USE DEF IInv, CallsAreNamed, ClockReadingsArePast, BornWithExpiry,
     SingleHolder, NothingForgotten, ExpiryIsReal, Holding
<1>1. CASE Tick
  BY <1>1 DEF Tick, TypeOK
<1>2. ASSUME NEW t \in Thread, BeginCreate(t)
      PROVE  IInv'
  BY <1>2 DEF BeginCreate, Begin, TypeOK
<1>3. ASSUME NEW t \in Thread, NEW p \in Proposal, BeginGet(t, p) \/ BeginTake(t, p)
      PROVE  IInv'
  BY <1>3 DEF BeginGet, BeginTake, Begin, TypeOK
<1>4. ASSUME NEW t \in Thread, NEW p \in Proposal, Create(t, p)
      PROVE  IInv'
  BY <1>4, EndTyped DEF Create, End, Expired, ExpiresAt, TypeOK, PL!Stage
<1>5. ASSUME NEW t \in Thread, GetReturns(t) \/ TakeMissing(t)
      PROVE  IInv'
  BY <1>5, EndTyped DEF GetReturns, TakeMissing, End, TypeOK
<1>6. ASSUME NEW t \in Thread, GetExpired(t) \/ TakeExpired(t)
      PROVE  IInv'
  BY <1>6, EndTyped DEF GetExpired, TakeExpired, Dies, Expired, End, TypeOK, PL!Stage
<1>7. ASSUME NEW t \in Thread, Take(t)
      PROVE  IInv'
  BY <1>7 DEF Take, Taken, TypeOK, PL!Stage
<1>8. ASSUME NEW t \in Thread, CommitDone(t)
      PROVE  IInv'
  BY <1>8, EndTyped DEF CommitDone, End, TypeOK, PL!Stage
<1>9. ASSUME NEW t \in Thread, CommitFails(t)
      PROVE  IInv'
  BY <1>9 DEF CommitFails, TypeOK
<1>10. ASSUME NEW t \in Thread, BeginRestore(t)
       PROVE  IInv'
  BY <1>10 DEF BeginRestore, Begin, TypeOK
<1>11. ASSUME NEW t \in Thread, RestoreTooLate(t)
       PROVE  IInv'
  BY <1>11, EndTyped DEF RestoreTooLate, End, TypeOK, PL!Stage
<1>12. ASSUME NEW t \in Thread, Restore(t)
       PROVE  IInv'
  BY <1>12, EndTyped DEF Restore, Restored, End, TypeOK, PL!Stage
<1>13. ASSUME NEW t \in Thread, NEW p \in Proposal, Discard(t, p)
       PROVE  IInv'
  BY <1>13 DEF Discard, Taken, TypeOK, PL!Stage
<1>14. CASE Exit
  BY <1>14 DEF Exit, TypeOK, PL!Stage
<1>15. CASE UNCHANGED vars
  BY <1>15 DEF vars, TypeOK
<1>16. QED
  BY <1>1, <1>2, <1>3, <1>4, <1>5, <1>6, <1>7, <1>8, <1>9, <1>10, <1>11, <1>12,
     <1>13, <1>14, <1>15 DEF Next, Call

LEMMA Inductive == Spec => []IInv
<1>1. Init => IInv
  BY InvariantInit
<1>2. IInv /\ [Next]_vars => IInv'
  BY InvariantStep
<1>3. QED
  BY <1>1, <1>2, PTL DEF Spec

\* A proposal is in the hands of at most one call, and nowhere else, so no
\* approval is carried out twice.
THEOREM HeldOnce == Spec => []SingleHolder
<1>1. IInv => SingleHolder
  BY DEF IInv
<1>2. QED
  BY <1>1, Inductive, PTL

\* An undecided proposal is never forgotten.
THEOREM NeverForgotten == Spec => []NothingForgotten
<1>1. IInv => NothingForgotten
  BY DEF IInv
<1>2. QED
  BY <1>1, Inductive, PTL

\* What is reported expired had its whole life time.
THEOREM ExpiryReal == Spec => []ExpiryIsReal
<1>1. IInv => ExpiryIsReal
  BY DEF IInv
<1>2. QED
  BY <1>1, Inductive, PTL

\* Steps of the proposal store seen as steps of proposals' lives.  Restoring and
\* committing need the invariant: only a taken proposal is in a call's hands.
LEMMA StepRefines == IInv /\ [Next]_vars => [PL!Next]_life
<1> SUFFICES ASSUME IInv, [Next]_vars PROVE [PL!Next]_life
  OBVIOUS
<1> USE DEF IInv, NothingForgotten, Holding, CallsAreNamed, TypeOK, PL!Next, PL!Become
<1>1. ASSUME NEW t \in Thread, NEW p \in Proposal, Create(t, p)
      PROVE  PL!Create(p)
  <2> DEFINE dead == {q \in pending : Expired(t, q)}
  <2>1. life[p] = "unborn"
    BY <1>1 DEF Create, BornWithExpiry
  <2>2. dead \in SUBSET {q \in Proposal : life[q] = "open"}
    OBVIOUS
  <2>3. life' = [q \in Proposal |-> IF q = p THEN "open"
                                     ELSE IF q \in dead THEN "expired" ELSE life[q]]
    BY <1>1 DEF Create
  <2>4. QED
    BY <2>1, <2>2, <2>3 DEF PL!Create
<1>2. ASSUME NEW t \in Thread, GetExpired(t) \/ TakeExpired(t)
      PROVE  PL!Expire(held[t])
  BY <1>2 DEF GetExpired, TakeExpired, Dies, PL!Expire
<1>3. ASSUME NEW t \in Thread, Take(t)
      PROVE  PL!Take(held[t])
  BY <1>3 DEF Take, PL!Take
<1>4. ASSUME NEW t \in Thread, CommitDone(t)
      PROVE  PL!Commit(held[t])
  BY <1>4 DEF CommitDone, PL!Commit
<1>5. ASSUME NEW t \in Thread, RestoreTooLate(t)
      PROVE  PL!Expire(held[t])
  BY <1>5 DEF RestoreTooLate, PL!Expire
<1>6. ASSUME NEW t \in Thread, Restore(t)
      PROVE  PL!GiveBack(held[t])
  BY <1>6 DEF Restore, PL!GiveBack
<1>7. ASSUME NEW t \in Thread, NEW p \in Proposal, Discard(t, p)
      PROVE  PL!Discard(p)
  BY <1>7 DEF Discard, PL!Discard
<1>8. CASE Exit
  <2>1. life' = [p \in Proposal |-> IF p \in Proposal /\ life[p] \in {"open", "taken"}
                                    THEN "lost" ELSE life[p]]
    BY <1>8 DEF Exit
  <2>2. PL!Exit
    BY <2>1 DEF PL!Exit
  <2>3. QED
    BY <2>2
<1>9. ASSUME NEW t \in Thread,
             \/ BeginCreate(t) \/ GetReturns(t) \/ TakeMissing(t) \/ CommitFails(t)
             \/ BeginRestore(t) \/ \E p \in Proposal : BeginGet(t, p) \/ BeginTake(t, p)
      PROVE  UNCHANGED life
  BY <1>9 DEF BeginCreate, GetReturns, TakeMissing, CommitFails, BeginRestore,
     BeginGet, BeginTake, Begin
<1>10. CASE Tick \/ UNCHANGED vars
  BY <1>10 DEF Tick, vars
<1>11. ASSUME NEW t \in Thread,
              pc[t] \in {"get", "take", "commit", "failed", "restore"}
       PROVE  held[t] \in Proposal
  BY <1>11
<1>12. ASSUME NEW t \in Thread, Call(t)
       PROVE  [PL!Next]_life
  <2>1. CASE \E p \in Proposal : Create(t, p)
    BY <2>1, <1>1
  <2>2. CASE GetReturns(t) \/ TakeMissing(t) \/ CommitFails(t) \/ BeginRestore(t)
    BY <2>2, <1>9
  <2>3. CASE GetExpired(t) \/ TakeExpired(t)
    BY <2>3, <1>2, <1>11 DEF GetExpired, TakeExpired
  <2>4. CASE Take(t)
    BY <2>4, <1>3, <1>11 DEF Take
  <2>5. CASE CommitDone(t)
    BY <2>5, <1>4, <1>11 DEF CommitDone
  <2>6. CASE RestoreTooLate(t)
    BY <2>6, <1>5, <1>11 DEF RestoreTooLate
  <2>7. CASE Restore(t)
    BY <2>7, <1>6, <1>11 DEF Restore
  <2>8. QED
    BY <1>12, <2>1, <2>2, <2>3, <2>4, <2>5, <2>6, <2>7 DEF Call
<1>13. QED
  BY <1>7, <1>8, <1>9, <1>10, <1>12 DEF Next

\* The store with its lock, clock readings and failing commits implements the
\* abstract life of proposals.
THEOREM Refinement == Spec => ImplementsProposalLife
<1>1. Init => PL!Init
  BY DEF Init
<1>2. IInv /\ [Next]_vars => [PL!Next]_life
  BY StepRefines
<1>3. QED
  BY <1>1, <1>2, Inductive, PTL DEF Spec, ImplementsProposalLife, PL!Spec
=============================================================================
