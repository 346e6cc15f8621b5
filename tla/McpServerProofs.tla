-------------------------- MODULE McpServerProofs --------------------------
(***************************************************************************)
(* Theorems about McpServer, for every number of servers, calls, lineages  *)
(* and proposals.                                                          *)
(*                                                                         *)
(* The first half shows that what the tool calls do to the database is     *)
(* what MemoryStore describes, so the store's theorems hold of the running *)
(* servers: P is the store with its theorems, DB the store McpServer       *)
(* composes, and their definitions are shown to agree.  The second half    *)
(* shows that an approval is carried out at most once, and that every      *)
(* revision is of an approval.                                             *)
(***************************************************************************)
EXTENDS McpServer, FiniteSetTheorems, TLAPS

P == INSTANCE MemoryStoreProofs

USE StoreAssumption, ServerAssumption, NothingAssumption

LEMMA SameInit == P!Init <=> DB!Init
BY DEF P!Init, DB!Init, P!Null, DB!Null, P!Version, DB!Version, P!NoTarget, DB!NoTarget

LEMMA SameStep == [P!Next]_P!vars <=> [DB!Next]_DB!vars
BY DEF P!Next, DB!Next, P!vars, DB!vars, P!tables, DB!tables,
   P!OpenStore, DB!OpenStore, P!Backfill, DB!Backfill, P!BackfillSkip, DB!BackfillSkip,
   P!BackfillRead, DB!BackfillRead, P!BackfillCount, DB!BackfillCount,
   P!BackfillCommit, DB!BackfillCommit, P!BackfillDone, DB!BackfillDone,
   P!Mutate, DB!Mutate, P!Approve, DB!Approve, P!ReadCurrent, DB!ReadCurrent,
   P!CorrectCommit, DB!CorrectCommit, P!SupersedeCommit, DB!SupersedeCommit,
   P!DeleteCommit, DB!DeleteCommit, P!Rollback, DB!Rollback, P!Close, DB!Close,
   P!Version, DB!Version, P!Null, DB!Null, P!NoTarget, DB!NoTarget,
   P!Mutation, DB!Mutation, P!GetActive, DB!GetActive, P!Indexed, DB!Indexed,
   P!LinkedTo, DB!LinkedTo, P!Goto, DB!Goto, P!Forget, DB!Forget,
   P!Remember, DB!Remember, P!Exists, DB!Exists, P!Reindexed, DB!Reindexed,
   P!Unindexed, DB!Unindexed, P!RowInsertable, DB!RowInsertable,
   P!EvidenceLinkable, DB!EvidenceLinkable, P!Log, DB!Log, P!Without, DB!Without,
   P!InsertVersion, DB!InsertVersion, P!Supersedable, DB!Supersedable,
   P!SupersededRow, DB!SupersededRow, P!DeletedRows, DB!DeletedRows,
   P!NullStatements, DB!NullStatements

LEMMA SameType == (P!TypeOK <=> DB!TypeOK) /\ (P!TypeOK' <=> DB!TypeOK')
BY DEF P!TypeOK, DB!TypeOK, P!Version, DB!Version, P!Revision, DB!Revision,
   P!Mutation, DB!Mutation, P!NoTarget, DB!NoTarget

\* The store's own type lemma, for the composed store
LEMMA StoreTypeStep == DB!TypeOK /\ [DB!Next]_DB!vars => DB!TypeOK'
BY SameStep, SameType, P!TypeStep

---------------------------------------------------------------------------
(* Every step is a step of the store *)

LEMMA StoreStep ==
  ASSUME TypeOK, CheckedTarget, [Next]_vars
  PROVE  [DB!Next]_DB!vars
<1> USE DEF db, DB!vars, DB!tables
<1>1. ASSUME UNCHANGED db
      PROVE  UNCHANGED DB!vars
  BY <1>1
<1>2. ASSUME NEW s \in Session, DB!OpenStore(s) \/ DB!Backfill(s) \/ DB!Close(s)
      PROVE  DB!Next
  BY <1>2 DEF DB!Next
<1>3. ASSUME NEW s \in Session, DB!Mutate(s)
      PROVE  DB!Next
  BY <1>3 DEF DB!Next
<1>4. ASSUME NEW s \in Session, step[s] = "checked"
      PROVE  /\ change[s].memory \in Memory
             /\ change[s].version \in DB!Version
             /\ change[s].operation \in DB!Mutation
  BY <1>4 DEF TypeOK, CheckedTarget, Change, DB!Mutation
<1>5. ASSUME NEW s \in Session, NEW ch \in Proposable, Propose(s, ch)
      PROVE  DB!Next
  BY <1>5, <1>2 DEF Propose
<1>6. ASSUME NEW s \in Session, NEW p \in Proposal, Take(s, p) \/ Stage(s, p)
      PROVE  UNCHANGED db
  BY <1>6 DEF Take, Stage
<1>7. ASSUME NEW s \in Session, ProposeStep(s)
      PROVE  [DB!Next]_DB!vars
  BY <1>7, <1>1, <1>2, <1>6 DEF ProposeStep, ResolveTarget, ResolveNone, ProposeFails
<1>8. ASSUME NEW s \in Session, NEW m \in Memory, NEW e \in Evidence, CommitCreate(s, m, e)
      PROVE  DB!Next
  <2>1. DB!Approve(s, m, e, {e}) /\ {e} \in SUBSET Evidence
    BY <1>8 DEF CommitCreate
  <2>2. QED
    BY <2>1, <1>3 DEF DB!Mutate
<1>9. ASSUME NEW s \in Session, NEW e \in Evidence, CommitCorrect(s, e)
      PROVE  DB!Next
  <2> DEFINE m == change[s].memory
             v == change[s].version
  <2>1. step[s] = "checked" /\ DB!CorrectCommit(s, m, v, e, linked[m][v] \cup {e})
    BY <1>9 DEF CommitCorrect
  <2>2. m \in Memory /\ v \in DB!Version
    BY <2>1, <1>4
  <2>3. linked[m][v] \cup {e} \in SUBSET Evidence
    BY <2>2 DEF TypeOK, DB!TypeOK
  <2>4. \E ids \in SUBSET Evidence : DB!CorrectCommit(s, m, v, e, ids)
    BY <2>1, <2>3
  <2> HIDE DEF m, v
  <2>5. QED
    BY <2>2, <2>4, <1>3 DEF DB!Mutate
<1>10. ASSUME NEW s \in Session, CommitDelete(s) \/ Reread(s)
       PROVE  DB!Next
  <2> DEFINE m == change[s].memory
             v == change[s].version
  <2>1. m \in Memory /\ v \in DB!Version /\ change[s].operation \in DB!Mutation
    BY <1>10, <1>4 DEF CommitDelete, Reread
  <2>2. DB!DeleteCommit(s, m, v) \/ DB!ReadCurrent(s, m, v, change[s].operation)
    BY <1>10 DEF CommitDelete, Reread
  <2> HIDE DEF m, v
  <2>3. QED
    BY <2>1, <2>2, <1>3 DEF DB!Mutate
<1>11. ASSUME NEW s \in Session, CommitStep(s)
       PROVE  [DB!Next]_DB!vars
  BY <1>11, <1>1, <1>2, <1>8, <1>9, <1>10
     DEF CommitStep, CommitOpen, Check, Finish, CommitFails, Restore
<1>12. ASSUME NEW s \in Session, Backfill(s) \/ Reap(s)
       PROVE  [DB!Next]_DB!vars
  BY <1>12, <1>1, <1>2 DEF Backfill, Reap
<1>13. ASSUME NEW p \in Proposal, Discard(p) \/ Expire(p)
       PROVE  UNCHANGED db
  BY <1>13 DEF Discard, Expire
<1>14. ASSUME NEW k \in Server, Exit(k)
       PROVE  UNCHANGED db
  BY <1>14 DEF Exit
<1>15. CASE UNCHANGED vars
  BY <1>15, <1>1 DEF vars
<1>16. QED
  BY <1>1, <1>5, <1>6, <1>7, <1>11, <1>12, <1>13, <1>14, <1>15 DEF Next, Continue

---------------------------------------------------------------------------
(* The invariant *)

\* what the types of the tool's own variables say
ToolTyped ==
  /\ life \in [Proposal -> PL!Stage]
  /\ request \in [Proposal -> [change: Change, server: Server]]
  /\ step \in [Session -> {"idle", "propose", "stage", "commit", "checked", "done",
                           "undo", "dead"}]
  /\ change \in [Session -> Change]
  /\ holding \in [Session -> Proposal \cup {NoProposal}]
  /\ applied \subseteq Proposal \X Memory \X Nat

LEMMA TypeSplit == (TypeOK <=> DB!TypeOK /\ ToolTyped) /\ (TypeOK' <=> DB!TypeOK' /\ ToolTyped')
BY DEF TypeOK, ToolTyped

\* A target version fits into a change that has a target.
LEMMA VersionFits ==
  ASSUME NEW ch \in Change, ch.operation # "create", NEW v \in DB!Version
  PROVE  /\ [ch EXCEPT !.version = v] \in Change
         /\ [ch EXCEPT !.version = v].operation # "create"
         /\ [ch EXCEPT !.version = v].version = v
BY DEF Change, DB!Version

LEMMA EndTyped ==
  ASSUME ToolTyped, NEW s \in Session, End(s)
  PROVE  /\ step' \in [Session -> {"idle", "propose", "stage", "commit", "checked", "done",
                                    "undo", "dead"}]
         /\ change' \in [Session -> Change]
         /\ holding' \in [Session -> Proposal \cup {NoProposal}]
         /\ \A u \in Session : step'[u] = IF u = s THEN "idle" ELSE step[u]
         /\ \A u \in Session \ {s} : change'[u] = change[u] /\ holding'[u] = holding[u]
<1>1. NoChange \in Change
  BY DEF NoChange, Change
<1>2. QED
  BY <1>1 DEF ToolTyped, End, Goto

\* A call that neither takes, settles nor returns a proposal
LEMMA QuietCall ==
  ASSUME ToolTyped, CheckedTarget, CommitsHoldTheirs, AppliedOnce,
         NEW s \in Session, ~Committing(s), ~Committing(s)',
         ToolTyped', UNCHANGED <<life, request, applied>>,
         \A u \in Session \ {s} :
           step'[u] = step[u] /\ change'[u] = change[u] /\ holding'[u] = holding[u]
  PROVE  CheckedTarget' /\ CommitsHoldTheirs' /\ AppliedOnce'
<1> USE DEF ToolTyped, Committing
<1>1. CheckedTarget'
  BY DEF CheckedTarget
<1>2. CommitsHoldTheirs'
  BY DEF CommitsHoldTheirs
<1>3. AppliedOnce'
  BY DEF AppliedOnce, CommitsHoldTheirs
<1>4. QED
  BY <1>1, <1>2, <1>3

\* The transaction of a commit becomes durable
LEMMA AppliedKeeps ==
  ASSUME ToolTyped, DB!TypeOK', CheckedTarget, CommitsHoldTheirs, AppliedOnce,
         NEW s \in Session, step[s] \in {"commit", "checked"},
         NEW m \in Memory, Applied(s, m)
  PROVE  ToolTyped' /\ CheckedTarget' /\ CommitsHoldTheirs' /\ AppliedOnce'
<1> USE DEF ToolTyped, Committing, Applied, Goto
<1>1. holding[s] \in Proposal /\ life[holding[s]] = "taken"
  BY DEF CommitsHoldTheirs
<1>2. Len(revisions'[m]) \in Nat
  BY DEF DB!TypeOK
<1>3. \A a \in applied : a[1] # holding[s]
  BY <1>1 DEF AppliedOnce, CommitsHoldTheirs
<1>4. ToolTyped'
  BY <1>1, <1>2
<1>5. CheckedTarget'
  BY DEF CheckedTarget
<1>6. CommitsHoldTheirs'
  BY DEF CommitsHoldTheirs
<1>7. AppliedOnce'
  <2> DEFINE new == <<holding[s], m, Len(revisions'[m])>>
  <2>1. new[1] = holding[s] /\ applied' = applied \cup {new}
    OBVIOUS
  <2> HIDE DEF new
  <2>2. \A u \in Session : step'[u] = "done" => u = s \/ step[u] = "done"
    OBVIOUS
  <2>3. step'[s] = "done" /\ UNCHANGED <<life, holding>>
    OBVIOUS
  <2>4. \A u \in Session : step[u] = "done" => step'[u] = "done"
    OBVIOUS
  <2>5. \A a, b \in applied' : a[1] = b[1] => a = b
    BY <1>3, <2>1 DEF AppliedOnce
  <2>6. \A u \in Session : step'[u] = "done" => \E a \in applied' : a[1] = holding'[u]
    BY <2>1, <2>2, <2>3 DEF AppliedOnce
  <2>7. ASSUME NEW a \in applied'
        PROVE  \/ life'[a[1]] \in {"committed", "lost"}
               \/ life'[a[1]] = "taken" /\ \E u \in Session : step'[u] = "done" /\ holding'[u] = a[1]
    BY <1>1, <2>1, <2>3, <2>4 DEF AppliedOnce
  <2>8. \A p \in Proposal : life'[p] = "committed" => \E a \in applied' : a[1] = p
    BY <2>1, <2>3 DEF AppliedOnce
  <2>9. QED
    BY <2>5, <2>6, <2>7, <2>8 DEF AppliedOnce
<1>8. QED
  BY <1>4, <1>5, <1>6, <1>7

LEMMA InvariantStep == IInv /\ [Next]_vars => IInv'
<1> SUFFICES ASSUME IInv, [Next]_vars PROVE IInv'
  OBVIOUS
<1> DEFINE Kept == ToolTyped' /\ CheckedTarget' /\ CommitsHoldTheirs' /\ AppliedOnce'
<1>1. DB!TypeOK'
  BY StoreStep, StoreTypeStep, TypeSplit DEF IInv
<1>2. ToolTyped /\ CheckedTarget /\ CommitsHoldTheirs /\ AppliedOnce
  BY TypeSplit DEF IInv
<1>3. SUFFICES Kept
  BY <1>1, TypeSplit DEF IInv
<1>4. ASSUME NEW s \in Session, NEW ch \in Proposable, Propose(s, ch)
      PROVE  Kept
  <2>1. ToolTyped' /\ ~Committing(s) /\ ~Committing(s)'
    BY <1>2, <1>4 DEF Propose, Goto, ToolTyped, Proposable, Committing
  <2>2. QED
    BY <1>2, <1>4, <2>1, QuietCall DEF Propose, Goto, ToolTyped
<1>5. ASSUME NEW s \in Session, NEW v \in DB!Version, ResolveTarget(s, v)
      PROVE  Kept
  <2>1. [change[s] EXCEPT !.version = v] \in Change
    BY <1>2, <1>5, VersionFits DEF ResolveTarget, ToolTyped
  <2>2. change' = [change EXCEPT ![s] = [change[s] EXCEPT !.version = v]]
    BY <1>5 DEF ResolveTarget
  <2>3. ToolTyped' /\ ~Committing(s) /\ ~Committing(s)'
    BY <1>2, <1>5, <2>1, <2>2 DEF ResolveTarget, Goto, ToolTyped, Committing
  <2>4. QED
    BY <1>2, <1>5, <2>2, <2>3, QuietCall DEF ResolveTarget, Goto, ToolTyped
<1>6. ASSUME NEW s \in Session, ResolveNone(s)
      PROVE  Kept
  <2>1. ToolTyped' /\ ~Committing(s) /\ ~Committing(s)'
    BY <1>2, <1>6 DEF ResolveNone, Goto, ToolTyped, Committing
  <2>2. QED
    BY <1>2, <1>6, <2>1, QuietCall DEF ResolveNone, Goto, ToolTyped
<1>7. ASSUME NEW s \in Session, ProposeFails(s) \/ Reap(s)
      PROVE  Kept
  <2>1. ToolTyped' /\ ~Committing(s) /\ ~Committing(s)'
    BY <1>2, <1>7, EndTyped DEF ProposeFails, Reap, ToolTyped, Committing
  <2>2. QED
    BY <1>2, <1>7, <2>1, QuietCall, EndTyped DEF ProposeFails, Reap
<1>8. ASSUME NEW s \in Session, NEW p \in Proposal, Stage(s, p)
      PROVE  Kept
  <2>1. ToolTyped' /\ CheckedTarget'
    BY <1>2, <1>8, EndTyped DEF Stage, Asked, ToolTyped, PL!Become, PL!Stage, CheckedTarget
  <2>2. /\ ~Committing(s) /\ ~Committing(s)'
        /\ \A u \in Session : u # s => step'[u] = step[u] /\ holding'[u] = holding[u]
    BY <1>2, <1>8, EndTyped DEF Stage, Committing
  <2>3. /\ life[p] = "unborn" /\ life'[p] = "open"
        /\ \A q \in Proposal \ {p} : life'[q] = life[q] /\ request'[q] = request[q]
        /\ UNCHANGED applied
    BY <1>2, <1>8 DEF Stage, PL!Become, ToolTyped
  <2>4. CommitsHoldTheirs'
    BY <1>2, <2>2, <2>3 DEF CommitsHoldTheirs, Committing
  <2>5. AppliedOnce'
    <3>1. \A a \in applied : a[1] \in Proposal \ {p}
      BY <1>2, <2>3 DEF AppliedOnce, ToolTyped
    <3>2. \A u \in Session : step'[u] = "done" <=> step[u] = "done"
      BY <2>2 DEF Committing
    <3>3. QED
      BY <1>2, <2>2, <2>3, <3>1, <3>2 DEF AppliedOnce, Committing
  <2>6. QED
    BY <2>1, <2>4, <2>5
<1>9. ASSUME NEW s \in Session, NEW p \in Proposal, Take(s, p)
      PROVE  Kept
  BY <1>2, <1>9 DEF Take, Goto, ToolTyped, PL!Take, PL!Become, PL!Stage,
     CheckedTarget, CommitsHoldTheirs, AppliedOnce, Committing
<1>10. ASSUME NEW s \in Session, CommitOpen(s) \/ Reread(s) \/ Backfill(s)
       PROVE  Kept
  BY <1>2, <1>10 DEF CommitOpen, Reread, Backfill, tool, ToolTyped,
     CheckedTarget, CommitsHoldTheirs, AppliedOnce, Committing
<1>11. ASSUME NEW s \in Session, NEW v \in DB!Version, Check(s, v)
       PROVE  Kept
  <2> DEFINE ch == [change[s] EXCEPT !.version = v]
  <2>1. ch \in Change /\ ch.operation # "create" /\ ch.version = v
    BY <1>2, <1>11, VersionFits DEF Check, ToolTyped
  <2>2. change' = [change EXCEPT ![s] = ch]
    BY <1>11 DEF Check
  <2> HIDE DEF ch
  <2>3. ToolTyped' /\ CheckedTarget'
    BY <1>2, <1>11, <2>1, <2>2 DEF Check, Goto, ToolTyped, CheckedTarget
  <2>4. CommitsHoldTheirs' /\ AppliedOnce'
    BY <1>2, <1>11 DEF Check, Goto, ToolTyped, CommitsHoldTheirs, AppliedOnce, Committing
  <2>5. QED
    BY <2>3, <2>4
<1>12. ASSUME NEW s \in Session, NEW m \in Memory, NEW e \in Evidence, CommitCreate(s, m, e)
       PROVE  Kept
  BY <1>1, <1>2, <1>12, AppliedKeeps DEF CommitCreate
<1>13. ASSUME NEW s \in Session, (\E e \in Evidence : CommitCorrect(s, e)) \/ CommitDelete(s)
       PROVE  Kept
  <2>1. step[s] = "checked" /\ Applied(s, change[s].memory)
    BY <1>13 DEF CommitCorrect, CommitDelete
  <2>2. change[s].memory \in Memory
    BY <1>2, <2>1 DEF ToolTyped, CheckedTarget, Change
  <2> DEFINE m == change[s].memory
  <2>3. m \in Memory /\ Applied(s, m)
    BY <2>1, <2>2
  <2> HIDE DEF m
  <2>4. QED
    BY <1>1, <1>2, <2>1, <2>3, AppliedKeeps
<1>14. ASSUME NEW s \in Session, Finish(s)
       PROVE  Kept
  <2>1. ToolTyped' /\ CheckedTarget'
    BY <1>2, <1>14, EndTyped DEF Finish, ToolTyped, PL!Commit, PL!Become, PL!Stage, CheckedTarget
  <2>2. holding[s] \in Proposal /\ \A u \in Session \ {s} : Committing(u) => holding[u] # holding[s]
    BY <1>2, <1>14 DEF Finish, CommitsHoldTheirs, Committing
  <2>3. CommitsHoldTheirs'
    BY <1>2, <1>14, <2>2, EndTyped
       DEF Finish, ToolTyped, PL!Commit, PL!Become, CommitsHoldTheirs, Committing
  <2>4. AppliedOnce'
    BY <1>2, <1>14, <2>2, EndTyped
       DEF Finish, ToolTyped, PL!Commit, PL!Become, AppliedOnce, Committing
  <2>5. QED
    BY <2>1, <2>3, <2>4
<1>15. ASSUME NEW s \in Session, CommitFails(s)
       PROVE  Kept
  BY <1>2, <1>15 DEF CommitFails, Goto, ToolTyped,
     CheckedTarget, CommitsHoldTheirs, AppliedOnce, Committing
<1>16. ASSUME NEW s \in Session, Restore(s)
       PROVE  Kept
  <2>1. ToolTyped' /\ CheckedTarget'
    BY <1>2, <1>16, EndTyped
       DEF Restore, ToolTyped, PL!GiveBack, PL!Become, PL!Stage, CheckedTarget
  <2>2. holding[s] \in Proposal /\ \A u \in Session \ {s} : Committing(u) => holding[u] # holding[s]
    BY <1>2, <1>16 DEF Restore, CommitsHoldTheirs, Committing
  <2> DEFINE h == holding[s]
  <2>3. PICK to \in {"open", "expired"} : life' = [life EXCEPT ![h] = to]
    BY <1>16 DEF Restore, PL!GiveBack, PL!Become
  <2>4. /\ \A u \in Session : Committing(u)' => u # s /\ Committing(u)
        /\ \A u \in Session : u # s => holding'[u] = holding[u]
        /\ \A u \in Session : step'[u] = "done" <=> step[u] = "done"
        /\ UNCHANGED <<request, applied>>
    BY <1>2, <1>16, EndTyped DEF Restore, Committing
  <2>5. \A a \in applied : a[1] # h
    BY <1>2, <1>16, <2>2 DEF Restore, AppliedOnce, CommitsHoldTheirs, Committing
  <2>6. h \in Proposal /\ \A p \in Proposal : life'[p] = IF p = h THEN to ELSE life[p]
    BY <1>2, <2>2, <2>3 DEF ToolTyped
  <2> HIDE DEF h
  <2>7. CommitsHoldTheirs'
    <3>1. ASSUME NEW u \in Session, Committing(u)'
          PROVE  /\ holding'[u] \in Proposal
                 /\ life'[holding'[u]] = "taken"
                 /\ request'[holding'[u]].server = ServerOf[u]
      BY <1>2, <2>2, <2>4, <2>6, <3>1 DEF CommitsHoldTheirs, h
    <3>2. \A u, w \in Session : Committing(u)' /\ Committing(w)' /\ u # w
             => holding'[u] # holding'[w]
      BY <1>2, <2>4 DEF CommitsHoldTheirs
    <3>3. QED
      BY <3>1, <3>2 DEF CommitsHoldTheirs
  <2>8. step[s] # "done"
    BY <1>16 DEF Restore
  <2>9. \A u \in Session : step[u] = "done" => holding'[u] = holding[u]
    BY <2>4, <2>8
  <2>10. AppliedOnce'
    <3>1. \A a \in applied : a[1] \in Proposal /\ life'[a[1]] = life[a[1]]
      BY <1>2, <2>5, <2>6 DEF ToolTyped
    <3>2. \A p \in Proposal : life'[p] = "committed" => life[p] = "committed"
      BY <2>6
    <3>3. QED
      BY <1>2, <2>4, <2>9, <3>1, <3>2 DEF AppliedOnce
  <2>11. QED
    BY <2>1, <2>7, <2>10
<1>17. ASSUME NEW p \in Proposal, Discard(p) \/ Expire(p)
       PROVE  Kept
  <2>1. UNCHANGED <<request, step, change, holding, applied>>
    BY <1>17 DEF Discard, Expire
  <2>2. \/ UNCHANGED life
        \/ /\ life[p] = "open"
           /\ \E to \in {"discarded", "expired"} : life' = [life EXCEPT ![p] = to]
    BY <1>17 DEF Discard, Expire, PL!Discard, PL!Become
  <2>3. /\ \A q \in Proposal : life'[q] = "taken" <=> life[q] = "taken"
        /\ \A q \in Proposal : life'[q] = "committed" <=> life[q] = "committed"
        /\ \A q \in Proposal : life[q] = "lost" => life'[q] = "lost"
        /\ life' \in [Proposal -> PL!Stage]
    BY <1>2, <2>2 DEF ToolTyped, PL!Stage
  <2>4. ToolTyped' /\ CheckedTarget'
    BY <1>2, <2>1, <2>3 DEF ToolTyped, CheckedTarget
  <2>5. CommitsHoldTheirs'
    BY <1>2, <2>1, <2>3 DEF CommitsHoldTheirs, Committing
  <2>6. AppliedOnce'
    <3>1. \A a \in applied : a[1] \in Proposal
      BY <1>2 DEF ToolTyped
    <3>2. QED
      BY <1>2, <2>1, <2>3, <3>1 DEF AppliedOnce
  <2>7. QED
    BY <2>4, <2>5, <2>6
<1>18. ASSUME NEW k \in Server, Exit(k)
       PROVE  Kept
  BY <1>2, <1>18 DEF Exit, PL!Stage, ToolTyped,
     CheckedTarget, CommitsHoldTheirs, AppliedOnce, Committing
<1>19. CASE UNCHANGED vars
  BY <1>2, <1>19 DEF vars, tool, ToolTyped,
     CheckedTarget, CommitsHoldTheirs, AppliedOnce, Committing
<1>20. ASSUME NEW s \in Session, ProposeStep(s)
       PROVE  Kept
  BY <1>5, <1>6, <1>7, <1>8, <1>20 DEF ProposeStep
<1>21. ASSUME NEW s \in Session, CommitStep(s)
       PROVE  Kept
  BY <1>10, <1>11, <1>12, <1>13, <1>14, <1>15, <1>16, <1>21 DEF CommitStep
<1>22. QED
  BY <1>4, <1>7, <1>9, <1>10, <1>17, <1>18, <1>19, <1>20, <1>21 DEF Next, Continue

LEMMA InvariantInit == Init => IInv
<1> SUFFICES ASSUME Init PROVE IInv
  OBVIOUS
<1>1. DB!TypeOK
  BY SameInit, SameType, P!TypeInit DEF Init
<1>2. NoChange \in Change
  BY DEF NoChange, Change
<1>3. (CHOOSE k \in Server : TRUE) \in Server
  OBVIOUS
<1>4. ToolTyped
  BY <1>2, <1>3 DEF Init, ToolTyped, PL!Init, PL!Stage
<1>5. CheckedTarget /\ CommitsHoldTheirs /\ AppliedOnce
  BY DEF Init, PL!Init, CheckedTarget, CommitsHoldTheirs, AppliedOnce, Committing
<1>6. QED
  BY <1>1, <1>4, <1>5, TypeSplit DEF IInv

LEMMA Inductive == Spec => []IInv
<1>1. Init => IInv
  BY InvariantInit
<1>2. IInv /\ [Next]_vars => IInv'
  BY InvariantStep
<1>3. QED
  BY <1>1, <1>2, PTL DEF Spec

---------------------------------------------------------------------------
(* Theorems *)

\* Every step of a tool call is a step of the store or leaves it alone.
THEOREM StoreImplemented == Spec => ImplementsStore
<1>1. Init => DB!Init
  BY DEF Init
<1>2. IInv /\ [Next]_vars => [DB!Next]_DB!vars
  BY StoreStep DEF IInv
<1>3. QED
  BY <1>1, <1>2, Inductive, PTL DEF Spec, ImplementsStore, DB!Spec

\* A deletion committed by any tool call of any server leaves nothing of the
\* lineage usable: the store's theorem, carried over.
THEOREM DeletionTotalOverMcp == Spec => []DB!DeletionIsTotal
<1>1. P!Init <=> DB!Init
  BY SameInit
<1>2. [P!Next]_P!vars <=> [DB!Next]_DB!vars
  BY SameStep
<1>3. P!DeletionIsTotal <=> DB!DeletionIsTotal
  BY DEF P!DeletionIsTotal, DB!DeletionIsTotal, P!HasDeletion, DB!HasDeletion,
     P!LinkedTo, DB!LinkedTo, P!Version, DB!Version
<1>4. P!Spec => []P!DeletionIsTotal
  BY P!DeletionTotal
<1>5. Spec => DB!Spec
  BY StoreImplemented DEF ImplementsStore
<1>6. QED
  BY <1>1, <1>2, <1>3, <1>4, <1>5, PTL DEF P!Spec, DB!Spec

\* What AppliedOnce and CommitsHoldTheirs say together.
LEMMA OnceFollows == IInv => ApprovalCarriedOutOnce
<1> SUFFICES ASSUME IInv, NEW p \in Proposal
             PROVE  /\ Cardinality(AppliedBy(p)) <= 1
                    /\ life[p] = "committed" => AppliedBy(p) # {}
                    /\ AppliedBy(p) # {} =>
                         \/ life[p] \in {"committed", "lost"}
                         \/ life[p] = "taken" /\ \E s \in Session : step[s] = "done" /\ holding[s] = p
  BY DEF ApprovalCarriedOutOnce
<1>1. \A a, b \in AppliedBy(p) : a = b
  BY DEF IInv, AppliedOnce, AppliedBy
<1>2. Cardinality(AppliedBy(p)) <= 1
  <2>1. CASE AppliedBy(p) = {}
    BY <2>1, FS_EmptySet
  <2>2. CASE AppliedBy(p) # {}
    <3>1. PICK a \in AppliedBy(p) : TRUE
      BY <2>2
    <3>2. AppliedBy(p) = {a}
      BY <1>1, <3>1
    <3>3. Cardinality({a}) = 1
      BY FS_Singleton
    <3>4. QED
      BY <3>2, <3>3
  <2>3. QED
    BY <2>1, <2>2
<1>3. QED
  BY <1>2 DEF IInv, AppliedOnce, AppliedBy

\* However calls, failures and ends of processes interleave, an approval is
\* carried out at most once, and what was not approved not at all.
THEOREM ApprovedOnce == Spec => []ApprovalCarriedOutOnce
BY OnceFollows, Inductive, PTL

---------------------------------------------------------------------------
(* Every revision was approved.                                            *)

\* A commit carries out what its proposal asked for: the version it checked is
\* the one it was asked about, so checking changed nothing
RequestsCarried ==
  \A s \in Session : Committing(s) => change[s] = request[holding[s]].change

\* what was checked is what the store has been asked to do
OperationsMatch ==
  \A s \in Session : step[s] = "checked" /\ pc[s] \in DB!Mutation =>
    pc[s] = change[s].operation

\* a recorded revision is in the log
AppliedLogged ==
  \A p \in Proposal : \A m \in Memory : \A i \in Nat :
    <<p, m, i>> \in applied => i \in DOMAIN revisions[m]

ApprovalInv ==
  /\ RequestsCarried
  /\ OperationsMatch
  /\ AppliedLogged
  /\ EveryRevisionApproved

LEMMA ApprovalInit == Init => ApprovalInv
<1> SUFFICES ASSUME Init PROVE ApprovalInv
  OBVIOUS
<1>1. RequestsCarried /\ OperationsMatch /\ AppliedLogged
  BY DEF Init, RequestsCarried, OperationsMatch, AppliedLogged, Committing
<1>2. ASSUME NEW m \in Memory, NEW i \in DOMAIN revisions[m]
      PROVE  m \in Legacy /\ i = 1
  <2>1. \/ m \in Legacy /\ revisions[m] =
             <<[operation |-> "approve", from |-> DB!Null, to |-> 1]>>
        \/ revisions[m] = <<>>
    BY DEF Init, DB!Init
  <2>2. QED
    BY <2>1
<1>3. QED
  BY <1>1, <1>2 DEF ApprovalInv, EveryRevisionApproved

\* A step that writes no revision leaves the log approved, provided the requests
\* of the proposals that were ever taken stay as they are
LEMMA QuietLog ==
  ASSUME IInv, ApprovalInv, UNCHANGED <<revisions, applied>>,
         \A p \in Proposal : life[p] # "unborn" => request'[p] = request[p]
  PROVE  AppliedLogged' /\ EveryRevisionApproved'
<1>1. AppliedLogged'
  BY DEF ApprovalInv, AppliedLogged
<1>2. \A p \in Proposal : \A m \in Memory : \A i \in Nat :
        <<p, m, i>> \in applied => request'[p] = request[p]
  BY DEF IInv, AppliedOnce
<1>3. ASSUME NEW m \in Memory, NEW i \in DOMAIN revisions[m], ~(m \in Legacy /\ i = 1)
      PROVE  \E p \in Proposal :
               LET asked == request'[p].change
               IN  /\ \A q \in Proposal : <<q, m, i>> \in applied <=> q = p
                   /\ asked.version = revisions[m][i].from
                   /\ asked.operation = "create" <=> revisions[m][i].operation = "approve"
                   /\ asked.operation # "create" =>
                        asked.memory = m /\ asked.operation = revisions[m][i].operation
  <2>1. i \in Nat
    BY DEF IInv, TypeOK, DB!TypeOK
  <2>2. PICK p \in Proposal :
               LET asked == request[p].change
               IN  /\ \A q \in Proposal : <<q, m, i>> \in applied <=> q = p
                   /\ asked.version = revisions[m][i].from
                   /\ asked.operation = "create" <=> revisions[m][i].operation = "approve"
                   /\ asked.operation # "create" =>
                        asked.memory = m /\ asked.operation = revisions[m][i].operation
    BY <1>3 DEF ApprovalInv, EveryRevisionApproved
  <2>3. request'[p] = request[p]
    BY <1>2, <2>1, <2>2
  <2>4. QED
    BY <2>2, <2>3
<1>4. EveryRevisionApproved'
  BY <1>3 DEF EveryRevisionApproved
<1>5. QED
  BY <1>1, <1>4

\* The revision a commit writes is the one its proposal asked for
LEMMA LoggedApproval ==
  ASSUME IInv, ApprovalInv, NEW s \in Session, step[s] \in {"commit", "checked"},
         NEW m \in Memory, NEW operation, NEW to,
         DB!Log(m, operation, change[s].version, to), Applied(s, m),
         change[s].operation = "create" <=> operation = "approve",
         change[s].operation # "create" =>
           change[s].memory = m /\ change[s].operation = operation
  PROVE  AppliedLogged' /\ EveryRevisionApproved'
<1> DEFINE event == [operation |-> operation, from |-> change[s].version, to |-> to]
           next == Len(revisions[m]) + 1
           p == holding[s]
<1>1. /\ revisions[m] \in Seq(DB!Revision) /\ Len(revisions[m]) \in Nat
      /\ revisions' = [revisions EXCEPT ![m] = Append(@, event)]
      /\ revisions \in [Memory -> Seq(DB!Revision)]
  BY DEF IInv, TypeOK, DB!TypeOK, DB!Log
<1>2. /\ event.operation = operation /\ event.from = change[s].version
      /\ p \in Proposal /\ change[s] = request[p].change
  BY DEF IInv, CommitsHoldTheirs, Committing, ApprovalInv, RequestsCarried
<1> HIDE DEF event
<1>3. revisions'[m] = Append(revisions[m], event)
  BY <1>1
<1>4. /\ DOMAIN revisions'[m] = DOMAIN revisions[m] \cup {next}
      /\ revisions'[m][next] = event
      /\ \A i \in DOMAIN revisions[m] : revisions'[m][i] = revisions[m][i]
      /\ \A i \in DOMAIN revisions[m] : i # next
      /\ Len(revisions'[m]) = next
  BY <1>1, <1>3
<1>5. \A n \in Memory : n # m => revisions'[n] = revisions[n]
  BY <1>1
<1>6. applied' = applied \cup {<<p, m, next>>} /\ UNCHANGED request
  BY <1>4 DEF Applied
<1>7. AppliedLogged'
  BY <1>4, <1>5, <1>6 DEF ApprovalInv, AppliedLogged
<1>8. \A q \in Proposal : <<q, m, next>> \in applied' <=> q = p
  <2>1. next \in Nat
    BY <1>1
  <2>2. \A q \in Proposal : <<q, m, next>> \notin applied
    BY <1>4, <2>1 DEF ApprovalInv, AppliedLogged
  <2>3. QED
    BY <1>2, <1>6, <2>2
<1>9. ASSUME NEW n \in Memory, NEW i \in DOMAIN revisions'[n], ~(n \in Legacy /\ i = 1)
      PROVE  \E r \in Proposal :
               LET asked == request[r].change
               IN  /\ \A q \in Proposal : <<q, n, i>> \in applied' <=> q = r
                   /\ asked.version = revisions'[n][i].from
                   /\ asked.operation = "create" <=> revisions'[n][i].operation = "approve"
                   /\ asked.operation # "create" =>
                        asked.memory = n /\ asked.operation = revisions'[n][i].operation
  <2>1. CASE n = m /\ i = next
    BY <1>2, <1>4, <1>8, <2>1
  <2>2. CASE ~(n = m /\ i = next)
    <3>1. i \in DOMAIN revisions[n] /\ revisions'[n][i] = revisions[n][i]
      BY <1>4, <1>5, <1>9, <2>2
    <3>2. \A q \in Proposal : <<q, n, i>> \in applied' <=> <<q, n, i>> \in applied
      BY <1>6, <2>2
    <3>3. PICK r \in Proposal :
               LET asked == request[r].change
               IN  /\ \A q \in Proposal : <<q, n, i>> \in applied <=> q = r
                   /\ asked.version = revisions[n][i].from
                   /\ asked.operation = "create" <=> revisions[n][i].operation = "approve"
                   /\ asked.operation # "create" =>
                        asked.memory = n /\ asked.operation = revisions[n][i].operation
      BY <1>9, <3>1 DEF ApprovalInv, EveryRevisionApproved
    <3>4. QED
      BY <3>1, <3>2, <3>3
  <2>3. QED
    BY <2>1, <2>2
<1>10. EveryRevisionApproved'
  BY <1>6, <1>9 DEF EveryRevisionApproved
<1>11. QED
  BY <1>7, <1>10

\* What a call holds and does is its own
LEMMA OthersCarry ==
  ASSUME IInv, ApprovalInv, NEW s \in Session,
         \A u \in Session \ {s} : /\ step'[u] = step[u] /\ change'[u] = change[u]
                                  /\ holding'[u] = holding[u] /\ pc'[u] = pc[u],
         \A p \in Proposal : life[p] # "unborn" => request'[p] = request[p],
         Committing(s)' => change'[s] = request'[holding'[s]].change,
         step'[s] = "checked" /\ pc'[s] \in DB!Mutation => pc'[s] = change'[s].operation
  PROVE  RequestsCarried' /\ OperationsMatch'
<1>1. ASSUME NEW u \in Session, u # s, Committing(u)'
      PROVE  change'[u] = request'[holding'[u]].change
  <2>1. Committing(u) /\ holding[u] \in Proposal /\ life[holding[u]] = "taken"
    BY <1>1 DEF IInv, CommitsHoldTheirs, Committing
  <2>2. QED
    BY <1>1, <2>1 DEF ApprovalInv, RequestsCarried
<1>2. RequestsCarried'
  BY <1>1 DEF RequestsCarried
<1>3. OperationsMatch'
  BY DEF ApprovalInv, OperationsMatch
<1>4. QED
  BY <1>2, <1>3

\* The steps of a connection that write no revision
LEMMA ConnectionQuiet ==
  ASSUME DB!TypeOK, NEW s \in Session,
         \/ UNCHANGED db \/ DB!OpenStore(s) \/ DB!Backfill(s) \/ DB!Close(s)
         \/ \E m \in Memory, v \in DB!Version, operation \in DB!Mutation :
              DB!ReadCurrent(s, m, v, operation)
  PROVE  UNCHANGED revisions /\ \A u \in Session \ {s} : pc'[u] = pc[u]
<1> USE DEF DB!Goto, DB!tables, DB!TypeOK
<1>1. CASE UNCHANGED db
  BY <1>1 DEF db
<1>2. CASE DB!OpenStore(s) \/ DB!Close(s)
  BY <1>2 DEF DB!OpenStore, DB!Close
<1>3. CASE \E m \in Memory, v \in DB!Version, operation \in DB!Mutation :
             DB!ReadCurrent(s, m, v, operation)
  BY <1>3 DEF DB!ReadCurrent
<1>4. CASE DB!Backfill(s)
  BY <1>4 DEF DB!Backfill, DB!BackfillSkip, DB!BackfillRead, DB!BackfillCount,
              DB!BackfillCommit, DB!BackfillDone
<1>5. QED
  BY <1>1, <1>2, <1>3, <1>4

\* Checking a target leaves the change as it was, because the version checked is
\* the one the change names
LEMMA CheckedAsAsked ==
  ASSUME NEW ch \in Change
  PROVE  [ch EXCEPT !.version = ch.version] = ch
BY DEF Change

LEMMA ApprovalStep == IInv /\ ApprovalInv /\ [Next]_vars => ApprovalInv'
<1> SUFFICES ASSUME IInv, ApprovalInv, [Next]_vars PROVE ApprovalInv'
  OBVIOUS
<1>1. TypeOK /\ DB!TypeOK /\ ToolTyped
  BY TypeSplit DEF IInv
<1>t. /\ step \in [Session -> {"idle", "propose", "stage", "commit", "checked", "done",
                               "undo", "dead"}]
      /\ change \in [Session -> Change]
      /\ holding \in [Session -> Proposal \cup {NoProposal}]
      /\ request \in [Proposal -> [change: Change, server: Server]]
      /\ pc \in [Session -> {"closed", "scan", "count", "heal", "ready"} \cup DB!Mutation]
  BY <1>1 DEF ToolTyped, DB!TypeOK
<1>2. ASSUME NEW s \in Session, NEW ch \in Proposable, Propose(s, ch)
      PROVE  ApprovalInv'
  <2>1. UNCHANGED revisions /\ \A u \in Session \ {s} : pc'[u] = pc[u]
    BY <1>1, <1>2, ConnectionQuiet DEF Propose
  <2>2. ~Committing(s)' /\ step'[s] # "checked"
    BY <1>t, <1>2 DEF Propose, Goto, Committing
  <2>3. RequestsCarried' /\ OperationsMatch'
    BY <1>t, <1>2, <2>1, <2>2, OthersCarry DEF Propose, Goto
  <2>4. QED
    BY <1>2, <2>1, <2>3, QuietLog DEF Propose, ApprovalInv
<1>3. ASSUME NEW s \in Session, \/ \E v \in DB!Version : ResolveTarget(s, v)
                               \/ ResolveNone(s) \/ CommitFails(s)
      PROVE  ApprovalInv'
  <2>1. UNCHANGED revisions /\ \A u \in Session \ {s} : pc'[u] = pc[u]
    BY <1>1, <1>3, ConnectionQuiet DEF ResolveTarget, ResolveNone, CommitFails
  <2>2. /\ \A u \in Session \ {s} :
             step'[u] = step[u] /\ change'[u] = change[u] /\ holding'[u] = holding[u]
        /\ UNCHANGED <<request, applied>>
        /\ step'[s] \in {"stage", "undo"}
    BY <1>t, <1>3 DEF ResolveTarget, ResolveNone, CommitFails, Goto
  <2>3. Committing(s)' => change'[s] = request'[holding'[s]].change
    <3>1. CASE CommitFails(s)
      BY <1>t, <3>1 DEF CommitFails, Committing, ApprovalInv, RequestsCarried
    <3>2. CASE (\E v \in DB!Version : ResolveTarget(s, v)) \/ ResolveNone(s)
      BY <1>t, <3>2 DEF ResolveTarget, ResolveNone, Goto, Committing
    <3>3. QED
      BY <1>3, <3>1, <3>2
  <2>4. RequestsCarried' /\ OperationsMatch'
    BY <2>1, <2>2, <2>3, OthersCarry
  <2>5. QED
    BY <2>1, <2>2, <2>4, QuietLog DEF ApprovalInv
<1>4. ASSUME NEW s \in Session, ProposeFails(s) \/ Finish(s) \/ Restore(s) \/ Reap(s)
      PROVE  ApprovalInv'
  <2>1. UNCHANGED revisions /\ \A u \in Session \ {s} : pc'[u] = pc[u]
    BY <1>1, <1>4, ConnectionQuiet DEF ProposeFails, Finish, Restore, Reap
  <2>2. End(s) /\ UNCHANGED <<request, applied>>
    BY <1>4 DEF ProposeFails, Finish, Restore, Reap
  <2>3. /\ \A u \in Session \ {s} :
             step'[u] = step[u] /\ change'[u] = change[u] /\ holding'[u] = holding[u]
        /\ step'[s] = "idle"
    BY <1>1, <2>2, EndTyped
  <2>4. RequestsCarried' /\ OperationsMatch'
    BY <2>1, <2>2, <2>3, OthersCarry DEF Committing
  <2>5. QED
    BY <2>1, <2>2, <2>4, QuietLog DEF ApprovalInv
<1>5. ASSUME NEW s \in Session, NEW p \in Proposal, Stage(s, p)
      PROVE  ApprovalInv'
  <2>1. UNCHANGED <<revisions, applied, pc>> /\ End(s)
    BY <1>5 DEF Stage, db
  <2>2. \A q \in Proposal : life[q] # "unborn" => request'[q] = request[q]
    BY <1>t, <1>5 DEF Stage, PL!Become
  <2>3. /\ \A u \in Session \ {s} :
             step'[u] = step[u] /\ change'[u] = change[u] /\ holding'[u] = holding[u]
        /\ step'[s] = "idle"
    BY <1>1, <2>1, EndTyped
  <2>4. RequestsCarried' /\ OperationsMatch'
    BY <2>1, <2>2, <2>3, OthersCarry DEF Committing
  <2>5. QED
    BY <2>1, <2>2, <2>4, QuietLog DEF ApprovalInv
<1>6. ASSUME NEW s \in Session, NEW p \in Proposal, Take(s, p)
      PROVE  ApprovalInv'
  <2>1. UNCHANGED <<revisions, applied, pc, request>>
    BY <1>6 DEF Take, db
  <2>2. /\ \A u \in Session \ {s} :
             step'[u] = step[u] /\ change'[u] = change[u] /\ holding'[u] = holding[u]
        /\ step'[s] = "commit" /\ change'[s] = request[p].change /\ holding'[s] = p
    BY <1>t, <1>6 DEF Take, Goto
  <2>3. RequestsCarried' /\ OperationsMatch'
    BY <2>1, <2>2, OthersCarry
  <2>4. QED
    BY <2>1, <2>3, QuietLog DEF ApprovalInv
<1>7. ASSUME NEW s \in Session, CommitOpen(s) \/ Backfill(s)
      PROVE  ApprovalInv'
  <2>1. UNCHANGED revisions /\ \A u \in Session \ {s} : pc'[u] = pc[u]
    BY <1>1, <1>7, ConnectionQuiet DEF CommitOpen, Backfill
  <2>2. UNCHANGED tool /\ step[s] # "checked"
    BY <1>7 DEF CommitOpen, Backfill
  <2>3. RequestsCarried' /\ OperationsMatch'
    BY <2>1, <2>2, OthersCarry DEF tool, Committing, ApprovalInv, RequestsCarried
  <2>4. QED
    BY <2>1, <2>2, <2>3, QuietLog DEF tool, ApprovalInv
<1>8. ASSUME NEW s \in Session, NEW v \in DB!Version, Check(s, v)
      PROVE  ApprovalInv'
  <2>1. UNCHANGED <<revisions, pc, request, applied, holding>> /\ pc[s] = "ready"
    BY <1>8 DEF Check, db
  <2>2. v = change[s].version /\ change[s] \in Change
    BY <1>t, <1>8 DEF Check, TargetUnchanged
  <2>3. change' = [change EXCEPT ![s] = [change[s] EXCEPT !.version = v]]
    BY <1>8 DEF Check
  <2>4. change' = change
    BY <1>t, <2>2, <2>3, CheckedAsAsked
  <2>5. \A u \in Session \ {s} : step'[u] = step[u]
    BY <1>t, <1>8 DEF Check, Goto
  <2>6. RequestsCarried' /\ OperationsMatch'
    BY <1>8, <2>1, <2>4, <2>5, OthersCarry
       DEF Check, Committing, ApprovalInv, RequestsCarried, DB!Mutation
  <2>7. QED
    BY <2>1, <2>6, QuietLog DEF ApprovalInv
<1>9. ASSUME NEW s \in Session, Reread(s)
      PROVE  ApprovalInv'
  <2>1. /\ step[s] = "checked" /\ UNCHANGED tool
        /\ change[s].memory \in Memory /\ change[s].version \in DB!Version
        /\ change[s].operation \in DB!Mutation
    BY <1>t, <1>9 DEF Reread, IInv, CheckedTarget, Change, DB!Mutation
  <2>2. UNCHANGED revisions /\ \A u \in Session \ {s} : pc'[u] = pc[u]
    BY <1>1, <1>9, <2>1, ConnectionQuiet DEF Reread
  <2>3. pc'[s] = change[s].operation
    BY <1>t, <1>9 DEF Reread, DB!ReadCurrent, DB!Goto
  <2>4. RequestsCarried' /\ OperationsMatch'
    BY <2>1, <2>2, <2>3, OthersCarry DEF tool, Committing, ApprovalInv, RequestsCarried
  <2>5. QED
    BY <2>1, <2>2, <2>4, QuietLog DEF tool, ApprovalInv
<1>10. ASSUME NEW s \in Session, NEW m \in Memory, step[s] \in {"commit", "checked"},
              Applied(s, m), \A u \in Session \ {s} : pc'[u] = pc[u]
       PROVE  RequestsCarried' /\ OperationsMatch'
  <2>1. /\ \A u \in Session \ {s} : step'[u] = step[u]
        /\ step'[s] = "done" /\ UNCHANGED <<change, holding, request>>
    BY <1>t, <1>10 DEF Applied, Goto
  <2>2. QED
    BY <1>10, <2>1, OthersCarry DEF Committing, ApprovalInv, RequestsCarried
<1>11. ASSUME NEW s \in Session, NEW m \in Memory, NEW e \in Evidence, CommitCreate(s, m, e)
       PROVE  ApprovalInv'
  <2>1. /\ step[s] = "commit" /\ change[s].operation = "create" /\ Applied(s, m)
        /\ DB!Log(m, "approve", DB!Null, 1) /\ UNCHANGED pc
    BY <1>11 DEF CommitCreate, DB!Approve
  <2>2. change[s].version = DB!Null
    BY <1>t, <2>1 DEF Change, DB!Null
  <2>3. AppliedLogged' /\ EveryRevisionApproved'
    BY <2>1, <2>2, LoggedApproval
  <2>4. RequestsCarried' /\ OperationsMatch'
    BY <1>10, <2>1
  <2>5. QED
    BY <2>3, <2>4 DEF ApprovalInv
<1>12. ASSUME NEW s \in Session, (\E e \in Evidence : CommitCorrect(s, e)) \/ CommitDelete(s)
       PROVE  ApprovalInv'
  <2>1. /\ step[s] = "checked" /\ change[s].operation # "create"
        /\ change[s] \in Change /\ change[s].memory \in Memory
    BY <1>t, <1>12 DEF CommitCorrect, CommitDelete, IInv, CheckedTarget, Change
  <2>2. /\ Applied(s, change[s].memory)
        /\ \A u \in Session \ {s} : pc'[u] = pc[u]
        /\ \/ /\ pc[s] = "correct"
              /\ DB!Log(change[s].memory, "correct", change[s].version, change[s].version + 1)
           \/ /\ pc[s] = "delete"
              /\ DB!Log(change[s].memory, "delete", change[s].version, DB!Null)
    BY <1>t, <1>12
       DEF CommitCorrect, CommitDelete, DB!CorrectCommit, DB!DeleteCommit, DB!Goto
  <2>3. pc[s] \in DB!Mutation => change[s].operation = pc[s]
    BY <2>1 DEF ApprovalInv, OperationsMatch
  <2>4. AppliedLogged' /\ EveryRevisionApproved'
    BY <2>1, <2>2, <2>3, LoggedApproval DEF DB!Mutation
  <2>5. RequestsCarried' /\ OperationsMatch'
    BY <1>10, <2>1, <2>2
  <2>6. QED
    BY <2>4, <2>5 DEF ApprovalInv
<1>13. ASSUME NEW p \in Proposal, Discard(p) \/ Expire(p)
       PROVE  ApprovalInv'
  <2>1. UNCHANGED <<revisions, pc, request, step, change, holding, applied>>
    BY <1>13 DEF Discard, Expire, db
  <2>2. QED
    BY <2>1, QuietLog DEF ApprovalInv, RequestsCarried, OperationsMatch, Committing
<1>14. ASSUME NEW k \in Server, Exit(k)
       PROVE  ApprovalInv'
  <2>1. /\ UNCHANGED <<revisions, pc, request, change, holding, applied>>
        /\ \A s \in Session : step'[s] = step[s] \/ step'[s] = "dead"
    BY <1>14 DEF Exit, db
  <2>2. RequestsCarried' /\ OperationsMatch'
    BY <2>1 DEF ApprovalInv, RequestsCarried, OperationsMatch, Committing
  <2>3. QED
    BY <2>1, <2>2, QuietLog DEF ApprovalInv
<1>15. CASE UNCHANGED vars
  <2>1. UNCHANGED <<revisions, pc, request, step, change, holding, applied>>
    BY <1>15 DEF vars, db, tool
  <2>2. QED
    BY <2>1, QuietLog DEF ApprovalInv, RequestsCarried, OperationsMatch, Committing
<1>16. QED
  BY <1>2, <1>3, <1>4, <1>5, <1>6, <1>7, <1>8, <1>9, <1>11, <1>12, <1>13, <1>14, <1>15
     DEF Next, Continue, ProposeStep, CommitStep

\* Every revision in the log is the work of exactly one proposal, has the
\* operation the user was asked about and starts from the version that was shown.
THEOREM RevisionsApproved == Spec => []EveryRevisionApproved
<1>1. IInv /\ ApprovalInv /\ [Next]_vars => ApprovalInv'
  BY ApprovalStep
<1>2. ApprovalInv => EveryRevisionApproved
  BY DEF ApprovalInv
<1>3. QED
  BY <1>1, <1>2, ApprovalInit, Inductive, PTL DEF Spec
=============================================================================
