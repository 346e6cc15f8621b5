------------------------- MODULE MemoryStoreProofs -------------------------
(***************************************************************************)
(* Proofs about MemoryStore, for any number of lineages, evidence events,  *)
(* connections and versions.                                               *)
(***************************************************************************)
EXTENDS MemoryStore, FiniteSetTheorems, TLAPS

---------------------------------------------------------------------------
(* Every stored value has the type its column has, at all times. *)

LEMMA InsertTyped ==
  ASSUME TypeOK, NEW m \in Memory, NEW v \in Version, NEW e \in Evidence,
         NEW ids \in SUBSET Evidence, NEW st,
         st \in [Memory -> [Version -> {"none", "active", "superseded", "deleted"}]],
         InsertVersion(m, v, e, ids, st)
  PROVE  /\ status' \in [Memory -> [Version -> {"none", "active", "superseded", "deleted"}]]
         /\ statement' \in [Memory -> [Version -> {"present", "null"}]]
         /\ linked' \in [Memory -> [Version -> SUBSET Evidence]]
         /\ evidence' \in [Evidence -> {"none", "present", "erased"}]
         /\ fts' \in SUBSET (Memory \X Version)
         /\ chunks' \in SUBSET (Memory \X Version)
BY DEF TypeOK, InsertVersion, Without

LEMMA LogTyped ==
  ASSUME TypeOK, NEW m \in Memory, NEW operation \in {"approve"} \cup Mutation,
         NEW from \in 0 .. MaxVersion, NEW to \in 0 .. MaxVersion,
         Log(m, operation, from, to)
  PROVE  revisions' \in [Memory -> Seq(Revision)]
<1>1. [operation |-> operation, from |-> from, to |-> to] \in Revision
  BY DEF Revision
<1>2. QED
  BY <1>1 DEF TypeOK, Log

LEMMA GotoTyped ==
  ASSUME TypeOK, NEW s \in Session,
         NEW label \in {"closed", "scan", "count", "heal", "ready"} \cup Mutation,
         Goto(s, label)
  PROVE  pc' \in [Session -> {"closed", "scan", "count", "heal", "ready"} \cup Mutation]
BY DEF TypeOK, Goto

LEMMA TargetTyped ==
  ASSUME TypeOK, NEW s \in Session,
         \/ Forget(s)
         \/ \E m \in Memory, v \in Version : Remember(s, m, v)
         \/ UNCHANGED target
  PROVE  target' \in [Session -> (Memory \X Version) \cup {NoTarget}]
<1>1. CASE Forget(s)
  BY <1>1 DEF TypeOK, Forget
<1>2. ASSUME NEW m \in Memory, NEW v \in Version, Remember(s, m, v)
      PROVE  target' \in [Session -> (Memory \X Version) \cup {NoTarget}]
  <2>1. <<m, v>> \in (Memory \X Version) \cup {NoTarget}
    OBVIOUS
  <2>2. QED
    BY <1>2, <2>1 DEF TypeOK, Remember
<1>3. CASE UNCHANGED target
  BY <1>3 DEF TypeOK
<1>4. QED
  BY <1>1, <1>2, <1>3

LEMMA TypeInit == Init => TypeOK
<1> SUFFICES ASSUME Init PROVE TypeOK
  OBVIOUS
<1>1. 1 \in Version /\ Version \subseteq 0 .. MaxVersion
  BY MaxVersionAssumption DEF Version
<1>2. fts \in SUBSET (Memory \X Version)
  BY <1>1, LegacyAssumption DEF Init
<1>3. revisions \in [Memory -> Seq(Revision)]
  <2>1. [operation |-> "approve", from |-> Null, to |-> 1] \in Revision
    BY <1>1, MaxVersionAssumption DEF Revision, Null
  <2>2. <<[operation |-> "approve", from |-> Null, to |-> 1]>> \in Seq(Revision)
    BY <2>1
  <2>3. QED
    BY <2>2 DEF Init
<1>4. linked \in [Memory -> [Version -> SUBSET Evidence]]
  BY DEF Init
<1>5. evidence \in [Evidence -> {"none", "present", "erased"}]
  BY DEF Init
<1>6. QED
  BY <1>2, <1>3, <1>4, <1>5 DEF Init, TypeOK

LEMMA TypeStep == TypeOK /\ [Next]_vars => TypeOK'
<1> SUFFICES ASSUME TypeOK, [Next]_vars PROVE TypeOK'
  OBVIOUS
<1> USE DEF Mutation
<1>v. Version \subseteq 0 .. MaxVersion /\ 1 \in Version /\ 0 \in 0 .. MaxVersion
  BY MaxVersionAssumption DEF Version
<1>1. ASSUME NEW s \in Session, OpenStore(s) PROVE TypeOK'
  BY <1>1, GotoTyped DEF OpenStore, tables, TypeOK
<1>2. ASSUME NEW s \in Session, NEW m \in Memory, BackfillSkip(s, m) PROVE TypeOK'
  BY <1>2 DEF BackfillSkip, tables, TypeOK
<1>3. ASSUME NEW s \in Session, NEW m \in Memory, NEW v \in Version, BackfillRead(s, m, v)
      PROVE  TypeOK'
  BY <1>3, GotoTyped, TargetTyped DEF BackfillRead, tables, TypeOK
<1>4. ASSUME NEW s \in Session, NEW m \in Memory, NEW v \in Version, BackfillCount(s, m, v)
      PROVE  TypeOK'
  BY <1>4, GotoTyped, TargetTyped DEF BackfillCount, tables, TypeOK
<1>5. ASSUME NEW s \in Session, NEW m \in Memory, NEW v \in Version, BackfillCommit(s, m, v)
      PROVE  TypeOK'
  <2>1. chunks' \in SUBSET (Memory \X Version)
    BY <1>5 DEF BackfillCommit, Reindexed, Unindexed, TypeOK
  <2>2. QED
    BY <1>5, <2>1, GotoTyped, TargetTyped DEF BackfillCommit, TypeOK
<1>6. ASSUME NEW s \in Session, BackfillDone(s) PROVE TypeOK'
  BY <1>6, GotoTyped DEF BackfillDone, tables, TypeOK
<1>7. ASSUME NEW s \in Session, NEW m \in Memory, NEW e \in Evidence,
             NEW ids \in SUBSET Evidence, Approve(s, m, e, ids)
      PROVE  TypeOK'
  <2>1. InsertVersion(m, 1, e, ids, status) /\ Log(m, "approve", 0, 1)
    BY <1>7 DEF Approve, Null
  <2>2. revisions' \in [Memory -> Seq(Revision)]
    BY <2>1, <1>v, LogTyped
  <2>3. QED
    BY <1>7, <1>v, <2>1, <2>2, InsertTyped DEF Approve, TypeOK
<1>8. ASSUME NEW s \in Session, NEW m \in Memory, NEW v \in Version,
             NEW operation \in Mutation, ReadCurrent(s, m, v, operation)
      PROVE  TypeOK'
  BY <1>8, GotoTyped, TargetTyped DEF ReadCurrent, tables, TypeOK
<1>9. ASSUME NEW s \in Session, NEW m \in Memory, NEW v \in Version, NEW e \in Evidence,
             NEW ids \in SUBSET Evidence, CorrectCommit(s, m, v, e, ids)
      PROVE  TypeOK'
  <2>1. v + 1 \in Version /\ v \in 0 .. MaxVersion /\ v + 1 \in 0 .. MaxVersion
    BY <1>9, MaxVersionAssumption DEF CorrectCommit, Version
  <2>2. SupersededRow(m, v) \in
          [Memory -> [Version -> {"none", "active", "superseded", "deleted"}]]
    BY DEF SupersededRow, TypeOK
  <2>3. InsertVersion(m, v + 1, e, ids, SupersededRow(m, v)) /\ Log(m, "correct", v, v + 1)
    BY <1>9 DEF CorrectCommit
  <2>4. revisions' \in [Memory -> Seq(Revision)]
    BY <2>1, <2>3, LogTyped
  <2>5. QED
    BY <1>9, <2>1, <2>2, <2>3, <2>4, InsertTyped, GotoTyped, TargetTyped
       DEF CorrectCommit, TypeOK
<1>10. ASSUME NEW s \in Session, NEW m \in Memory, NEW v \in Version, SupersedeCommit(s, m, v)
       PROVE  TypeOK'
  <2>1. revisions' \in [Memory -> Seq(Revision)]
    BY <1>10, <1>v, LogTyped DEF SupersedeCommit, Null
  <2>2. QED
    BY <1>10, <2>1, GotoTyped, TargetTyped
       DEF SupersedeCommit, SupersededRow, Without, TypeOK
<1>11. ASSUME NEW s \in Session, NEW m \in Memory, NEW v \in Version, DeleteCommit(s, m, v)
       PROVE  TypeOK'
  <2>1. revisions' \in [Memory -> Seq(Revision)]
    BY <1>11, <1>v, LogTyped DEF DeleteCommit, Null
  <2>2. /\ status' \in [Memory -> [Version -> {"none", "active", "superseded", "deleted"}]]
        /\ statement' \in [Memory -> [Version -> {"present", "null"}]]
    BY <1>11 DEF DeleteCommit, DeletedRows, NullStatements, TypeOK
  <2>3. evidence' \in [Evidence -> {"none", "present", "erased"}]
    BY <1>11 DEF DeleteCommit, TypeOK
  <2>4. QED
    BY <1>11, <2>1, <2>2, <2>3, GotoTyped, TargetTyped
       DEF DeleteCommit, Without, TypeOK
<1>12. ASSUME NEW s \in Session, Rollback(s) PROVE TypeOK'
  BY <1>12, GotoTyped, TargetTyped DEF Rollback, tables, TypeOK
<1>13. ASSUME NEW s \in Session, Close(s) PROVE TypeOK'
  BY <1>13, GotoTyped, TargetTyped DEF Close, tables, TypeOK
<1>14. CASE UNCHANGED vars
  BY <1>14 DEF vars, TypeOK
<1>15. QED
  BY <1>1, <1>2, <1>3, <1>4, <1>5, <1>6, <1>7, <1>8, <1>9, <1>10, <1>11, <1>12, <1>13, <1>14
     DEF Next, Backfill, Mutate

\* Every table and every connection variable keeps its type, for all values of
\* the constants.
THEOREM TypeCorrect == Spec => []TypeOK
BY TypeInit, TypeStep, PTL DEF Spec

---------------------------------------------------------------------------
(* Deletion is total and stays inside its lineage.                         *)

LEMMA LogDeletion ==
  ASSUME TypeOK, NEW m \in Memory, NEW operation, NEW from, NEW to,
         Log(m, operation, from, to), NEW n \in Memory, HasDeletion(n)'
  PROVE  HasDeletion(n) \/ (n = m /\ operation = "delete")
<1>1. PICK i \in DOMAIN revisions'[n] : revisions'[n][i].operation = "delete"
  BY DEF HasDeletion
<1>2. CASE n # m
  BY <1>1, <1>2 DEF Log, TypeOK, HasDeletion
<1>3. CASE n = m
  <2>1. revisions[m] \in Seq(Revision)
    BY DEF TypeOK
  <2>2. revisions'[n] =
          Append(revisions[m], [operation |-> operation, from |-> from, to |-> to])
    BY <1>3 DEF Log, TypeOK
  <2>3. CASE i \in DOMAIN revisions[m]
    BY <1>1, <1>3, <2>1, <2>2, <2>3 DEF HasDeletion
  <2>4. CASE i = Len(revisions[m]) + 1
    BY <1>1, <1>3, <2>1, <2>2, <2>4
  <2>5. QED
    BY <1>1, <2>1, <2>2, <2>3, <2>4
<1>4. QED
  BY <1>2, <1>3

LEMMA TargetKept ==
  ASSUME TypeOK, TargetExists, NEW s \in Session,
         \A m \in Memory : \A v \in Version : Exists(m, v) => Exists(m, v)',
         \/ Forget(s)
         \/ \E m \in Memory, v \in Version : Exists(m, v) /\ Remember(s, m, v)
         \/ UNCHANGED target
  PROVE  TargetExists'
<1> SUFFICES ASSUME NEW t \in Session, NEW m \in Memory, NEW v \in Version,
                    target'[t] = <<m, v>>
             PROVE  Exists(m, v)'
  BY DEF TargetExists
<1>1. CASE Forget(s)
  <2>1. t # s
    BY <1>1 DEF Forget, TypeOK, NoTarget
  <2>2. QED
    BY <1>1, <2>1 DEF Forget, TypeOK, TargetExists
<1>2. ASSUME NEW n \in Memory, NEW w \in Version, Exists(n, w), Remember(s, n, w)
      PROVE  Exists(m, v)'
  <2>1. CASE t = s
    BY <1>2, <2>1 DEF Remember, TypeOK
  <2>2. CASE t # s
    BY <1>2, <2>2 DEF Remember, TypeOK, TargetExists
  <2>3. QED
    BY <2>1, <2>2
<1>3. CASE UNCHANGED target
  BY <1>3 DEF TargetExists
<1>4. QED
  BY <1>1, <1>2, <1>3

\* Everything IInv says beyond types and targets, about the tables alone
LEMMA QuietTables ==
  ASSUME IInv, TypeOK', TargetExists',
         UNCHANGED <<status, statement, linked, evidence, revisions, fts>>
  PROVE  IInv'
BY DEF IInv, TextTracksStatus, DeletedTogether, DeletionLeavesTombstone, LinksAreStored,
       TombstoneIsBare, ErasedOnlyByDeletion, OneOwner, HasDeletion, Exists

\* What a tombstone says of every other version of its lineage
LEMMA BareLineage ==
  ASSUME TombstoneIsBare,
         NEW n \in Memory, NEW u \in Version, NEW w \in Version,
         status[n][u] = "deleted"
  PROVE  /\ \A f \in linked[n][w] : evidence[f] = "erased"
         /\ <<n, w>> \notin fts
  BY DEF TombstoneIsBare

\* Inserting a version into a lineage without a tombstone
LEMMA InsertKeeps ==
  ASSUME IInv, TypeOK', TargetExists',
         NEW m \in Memory, NEW v \in Version, NEW e \in Evidence,
         NEW ids \in SUBSET Evidence, NEW st, NEW operation \in {"approve", "correct"},
         NEW from, NEW to,
         st \in [Memory -> [Version -> {"none", "active", "superseded", "deleted"}]],
         \A n \in Memory : \A w \in Version :
           \/ st[n][w] = status[n][w]
           \/ n = m /\ st[n][w] = "superseded" /\ status[n][w] \in {"active", "superseded"},
         \A w \in Version : status[m][w] # "deleted",
         InsertVersion(m, v, e, ids, st),
         Log(m, operation, from, to)
  PROVE  IInv'
<1> USE DEF IInv
<1>1. /\ \A n \in Memory : \A w \in Version :
           status'[n][w] = IF n = m /\ w = v THEN "active" ELSE st[n][w]
      /\ \A n \in Memory : \A w \in Version :
           statement'[n][w] = IF n = m /\ w = v THEN "present" ELSE statement[n][w]
      /\ \A n \in Memory : \A w \in Version :
           linked'[n][w] = IF n = m /\ w = v THEN ids ELSE linked[n][w]
      /\ \A f \in Evidence : evidence'[f] = IF f = e THEN "present" ELSE evidence[f]
  BY DEF InsertVersion, TypeOK
<1>2. /\ evidence[e] = "none"
      /\ \A f \in ids : f # e => evidence[f] # "none"
      /\ \A n \in Memory : n # m => \A w \in Version : ids \cap linked[n][w] = {}
  BY DEF InsertVersion, EvidenceLinkable, LinkedTo
<1>3. \A n \in Memory : \A w \in Version :
        status'[n][w] = "deleted" <=> status[n][w] = "deleted"
  BY <1>1 DEF InsertVersion, RowInsertable
<1>4. TextTracksStatus'
  BY <1>1 DEF TextTracksStatus
<1>5. DeletedTogether'
  BY <1>1, <1>3 DEF DeletedTogether
<1>6. DeletionLeavesTombstone'
  <2> SUFFICES ASSUME NEW n \in Memory, HasDeletion(n)'
               PROVE  \E w \in Version : status'[n][w] = "deleted"
    BY DEF DeletionLeavesTombstone
  <2>1. HasDeletion(n)
    BY LogDeletion
  <2>2. QED
    BY <2>1, <1>3 DEF DeletionLeavesTombstone
<1>7. LinksAreStored'
  <2> SUFFICES ASSUME NEW n \in Memory, NEW w \in Version, NEW f \in linked'[n][w]
               PROVE  evidence'[f] # "none"
    BY DEF LinksAreStored
  <2>1. f \in Evidence
    BY DEF TypeOK
  <2>2. CASE n = m /\ w = v
    BY <1>1, <1>2, <2>1, <2>2
  <2>3. CASE ~(n = m /\ w = v)
    <3>1. f \in linked[n][w]
      BY <1>1, <2>3
    <3>2. evidence[f] # "none"
      BY <3>1 DEF LinksAreStored
    <3>3. QED
      BY <1>1, <2>1, <3>2
  <2>4. QED
    BY <2>2, <2>3
<1>8. TombstoneIsBare'
  <2> SUFFICES ASSUME NEW n \in Memory, NEW u \in Version, NEW w \in Version,
                      status'[n][u] = "deleted"
               PROVE  /\ \A f \in linked'[n][w] : evidence'[f] = "erased"
                      /\ <<n, w>> \notin fts'
    BY DEF TombstoneIsBare
  <2>1. status[n][u] = "deleted" /\ n # m
    BY <1>3
  <2>a. /\ \A f \in linked[n][w] : evidence[f] = "erased"
        /\ <<n, w>> \notin fts
    BY <2>1, BareLineage
  <2>2. \A f \in linked[n][w] : evidence[f] = "erased" /\ f # e /\ f \in Evidence
    BY <2>a, <1>2 DEF TypeOK
  <2>3. <<n, w>> \notin fts'
    BY <2>1, <2>a DEF InsertVersion, Without
  <2>4. QED
    BY <1>1, <2>1, <2>2, <2>3
<1>9. ErasedOnlyByDeletion'
  <2> SUFFICES ASSUME NEW f \in Evidence, evidence'[f] = "erased"
               PROVE  \E n \in Memory : \E u, w \in Version :
                        f \in linked'[n][u] /\ status'[n][w] = "deleted"
    BY DEF ErasedOnlyByDeletion
  <2>1. evidence[f] = "erased"
    BY <1>1
  <2>2. PICK n \in Memory : \E u, w \in Version :
               f \in linked[n][u] /\ status[n][w] = "deleted"
    BY <2>1 DEF ErasedOnlyByDeletion
  <2>3. n # m
    BY <2>2
  <2>4. QED
    BY <1>1, <1>3, <2>2, <2>3
<1>10. OneOwner'
  BY <1>1, <1>2 DEF OneOwner
<1>11. QED
  BY <1>4, <1>5, <1>6, <1>7, <1>8, <1>9, <1>10

LEMMA SupersedeKeeps ==
  ASSUME IInv, TypeOK', NEW s \in Session, NEW m \in Memory, NEW v \in Version,
         SupersedeCommit(s, m, v)
  PROVE  IInv'
<1> USE DEF IInv
<1>1. /\ status' = [status EXCEPT ![m][v] = "superseded"]
      /\ status[m][v] \in {"active", "superseded"}
      /\ UNCHANGED <<statement, linked, evidence>>
  BY DEF SupersedeCommit, SupersededRow, Supersedable, TextTracksStatus
<1>2. \A n \in Memory : \A w \in Version :
        \/ status'[n][w] = status[n][w]
        \/ status'[n][w] = "superseded" /\ status[n][w] \in {"active", "superseded"}
  BY <1>1 DEF TypeOK
<1>3. TargetExists'
  BY <1>2, TargetKept DEF SupersedeCommit, Exists
<1>4. TextTracksStatus' /\ LinksAreStored' /\ OneOwner'
  BY <1>1, <1>2 DEF TextTracksStatus, LinksAreStored, OneOwner
<1>5. DeletedTogether'
  BY <1>1, <1>2 DEF DeletedTogether
<1>6. DeletionLeavesTombstone'
  <2> SUFFICES ASSUME NEW n \in Memory, HasDeletion(n)'
               PROVE  \E w \in Version : status'[n][w] = "deleted"
    BY DEF DeletionLeavesTombstone
  <2>1. HasDeletion(n)
    BY LogDeletion DEF SupersedeCommit
  <2>2. QED
    BY <2>1, <1>2 DEF DeletionLeavesTombstone
<1>7. TombstoneIsBare'
  BY <1>1, <1>2 DEF TombstoneIsBare, SupersedeCommit, Without
<1>8. ErasedOnlyByDeletion'
  BY <1>1, <1>2 DEF ErasedOnlyByDeletion
<1>9. QED
  BY <1>3, <1>4, <1>5, <1>6, <1>7, <1>8

LEMMA DeleteKeeps ==
  ASSUME IInv, TypeOK', NEW s \in Session, NEW m \in Memory, NEW v \in Version,
         DeleteCommit(s, m, v)
  PROVE  IInv'
<1> USE DEF IInv
<1>1. /\ \A n \in Memory : \A w \in Version :
           status'[n][w] = IF n # m THEN status[n][w]
                           ELSE IF status[n][w] # "none" THEN "deleted" ELSE "none"
      /\ \A n \in Memory : \A w \in Version :
           statement'[n][w] = IF n = m THEN "null" ELSE statement[n][w]
      /\ \A f \in Evidence :
           evidence'[f] = IF \E w \in Version : f \in linked[m][w] THEN "erased"
                          ELSE evidence[f]
      /\ UNCHANGED linked
  BY DEF DeleteCommit, DeletedRows, NullStatements, Exists, LinkedTo, TypeOK
<1>2. status'[m][v] = "deleted"
  BY <1>1 DEF DeleteCommit, TargetExists, Exists
<1>3. TargetExists'
  BY <1>1, TargetKept DEF DeleteCommit, Exists
<1>4. TextTracksStatus' /\ DeletedTogether'
  BY <1>1 DEF TextTracksStatus, DeletedTogether
<1>5. DeletionLeavesTombstone'
  <2> SUFFICES ASSUME NEW n \in Memory, HasDeletion(n)'
               PROVE  \E w \in Version : status'[n][w] = "deleted"
    BY DEF DeletionLeavesTombstone
  <2>1. HasDeletion(n) \/ n = m
    BY LogDeletion DEF DeleteCommit
  <2>2. QED
    BY <2>1, <1>1, <1>2 DEF DeletionLeavesTombstone
<1>6. LinksAreStored' /\ OneOwner'
  <2>1. \A f \in Evidence : evidence[f] # "none" => evidence'[f] # "none"
    BY <1>1
  <2>2. \A n \in Memory : \A w \in Version : linked[n][w] \subseteq Evidence
    BY DEF TypeOK
  <2>3. LinksAreStored'
    BY <1>1, <2>1, <2>2 DEF LinksAreStored
  <2>4. OneOwner'
    BY <1>1 DEF OneOwner
  <2>5. QED
    BY <2>3, <2>4
<1>7. TombstoneIsBare'
  <2> SUFFICES ASSUME NEW n \in Memory, NEW u \in Version, NEW w \in Version,
                      status'[n][u] = "deleted"
               PROVE  /\ \A f \in linked[n][w] : evidence'[f] = "erased"
                      /\ <<n, w>> \notin fts'
    BY <1>1 DEF TombstoneIsBare
  <2>1. CASE n = m
    BY <2>1, <1>1 DEF DeleteCommit, Without, TypeOK
  <2>2. CASE n # m
    BY <2>2, <1>1 DEF DeleteCommit, Without, TypeOK, TombstoneIsBare
  <2>3. QED
    BY <2>1, <2>2
<1>8. ErasedOnlyByDeletion'
  <2> SUFFICES ASSUME NEW f \in Evidence, evidence'[f] = "erased"
               PROVE  \E n \in Memory : \E u, w \in Version :
                        f \in linked[n][u] /\ status'[n][w] = "deleted"
    BY <1>1 DEF ErasedOnlyByDeletion
  <2>1. CASE \E w \in Version : f \in linked[m][w]
    BY <2>1, <1>2
  <2>2. CASE ~ \E w \in Version : f \in linked[m][w]
    <3>1. evidence[f] = "erased"
      BY <1>1, <2>2
    <3>2. QED
      BY <3>1, <1>1 DEF ErasedOnlyByDeletion
  <2>3. QED
    BY <2>1, <2>2
<1>9. QED
  BY <1>3, <1>4, <1>5, <1>6, <1>7, <1>8

LEMMA InvariantInit == Init => IInv
<1> SUFFICES ASSUME Init PROVE IInv
  OBVIOUS
<1>1. TypeOK
  BY TypeInit
<1>2. PICK source \in [Legacy -> Evidence] :
        /\ \A m, n \in Legacy : source[m] = source[n] => m = n
        /\ linked = [m \in Memory |-> [v \in Version |->
                  IF m \in Legacy /\ v = 1 THEN {source[m]} ELSE {}]]
        /\ evidence = [e \in Evidence |->
                  IF \E m \in Legacy : source[m] = e THEN "present" ELSE "none"]
  BY DEF Init
<1>3. \A m \in Memory : \A v \in Version : status[m][v] # "deleted"
  BY DEF Init
<1>4. TextTracksStatus
  BY DEF Init, TextTracksStatus
<1>5. DeletedTogether /\ TombstoneIsBare
  BY <1>3 DEF DeletedTogether, TombstoneIsBare
<1>6. TargetExists
  BY DEF Init, TargetExists, NoTarget
<1>7. DeletionLeavesTombstone
  <2> SUFFICES ASSUME NEW m \in Memory PROVE ~HasDeletion(m)
    BY DEF DeletionLeavesTombstone
  <2>1. \/ revisions[m] = <<[operation |-> "approve", from |-> Null, to |-> 1]>>
        \/ revisions[m] = <<>>
    BY DEF Init
  <2>2. QED
    BY <2>1 DEF HasDeletion
<1>8. LinksAreStored
  BY <1>2 DEF LinksAreStored
<1>9. ErasedOnlyByDeletion
  BY <1>2 DEF ErasedOnlyByDeletion
<1>10. OneOwner
  BY <1>2 DEF OneOwner
<1>11. QED
  BY <1>1, <1>4, <1>5, <1>6, <1>7, <1>8, <1>9, <1>10 DEF IInv

LEMMA InvariantStep == IInv /\ [Next]_vars => IInv'
<1> SUFFICES ASSUME IInv, [Next]_vars PROVE IInv'
  OBVIOUS
<1>a. TypeOK /\ TargetExists /\ TypeOK'
  BY TypeStep DEF IInv
<1>1. ASSUME NEW s \in Session, OpenStore(s) PROVE IInv'
  BY <1>1, <1>a, TargetKept, QuietTables DEF OpenStore, tables, Exists
<1>2. ASSUME NEW s \in Session, NEW m \in Memory, BackfillSkip(s, m) PROVE IInv'
  BY <1>2, <1>a, TargetKept, QuietTables DEF BackfillSkip, tables, Exists
<1>3. ASSUME NEW s \in Session, NEW m \in Memory, NEW v \in Version, BackfillRead(s, m, v)
      PROVE  IInv'
  <2>1. TargetExists'
    BY <1>3, <1>a, TargetKept DEF BackfillRead, GetActive, tables, Exists
  <2>2. QED
    BY <1>3, <1>a, <2>1, QuietTables DEF BackfillRead, tables
<1>4. ASSUME NEW s \in Session, NEW m \in Memory, NEW v \in Version, BackfillCount(s, m, v)
      PROVE  IInv'
  BY <1>4, <1>a, TargetKept, QuietTables DEF BackfillCount, tables, Exists
<1>5. ASSUME NEW s \in Session, NEW m \in Memory, NEW v \in Version, BackfillCommit(s, m, v)
      PROVE  IInv'
  BY <1>5, <1>a, TargetKept, QuietTables DEF BackfillCommit, Exists
<1>6. ASSUME NEW s \in Session, BackfillDone(s) PROVE IInv'
  BY <1>6, <1>a, TargetKept, QuietTables DEF BackfillDone, tables, Exists
<1>7. ASSUME NEW s \in Session, NEW m \in Memory, NEW e \in Evidence,
             NEW ids \in SUBSET Evidence, Approve(s, m, e, ids)
      PROVE  IInv'
  <2>1. 1 \in Version
    BY MaxVersionAssumption DEF Version
  <2>2. \A w \in Version : status[m][w] = "none"
    BY <1>7 DEF Approve, Exists
  <2>3. InsertVersion(m, 1, e, ids, status) /\ Log(m, "approve", Null, 1) /\ UNCHANGED target
    BY <1>7 DEF Approve
  <2>4. \A n \in Memory : \A w \in Version : Exists(n, w) => Exists(n, w)'
    BY <2>1, <2>3, <1>a DEF InsertVersion, TypeOK, Exists
  <2>5. TargetExists'
    BY <1>7, <1>a, <2>3, <2>4, TargetKept
  <2>6. status \in [Memory -> [Version -> {"none", "active", "superseded", "deleted"}]]
    BY <1>a DEF TypeOK
  <2>7. QED
    BY <1>a, <2>1, <2>2, <2>3, <2>5, <2>6, InsertKeeps
<1>8. ASSUME NEW s \in Session, NEW m \in Memory, NEW v \in Version,
             NEW operation \in Mutation, ReadCurrent(s, m, v, operation)
      PROVE  IInv'
  <2>1. TargetExists'
    BY <1>8, <1>a, TargetKept DEF ReadCurrent, GetActive, tables, Exists
  <2>2. QED
    BY <1>8, <1>a, <2>1, QuietTables DEF ReadCurrent, tables
<1>9. ASSUME NEW s \in Session, NEW m \in Memory, NEW v \in Version, NEW e \in Evidence,
             NEW ids \in SUBSET Evidence, CorrectCommit(s, m, v, e, ids)
      PROVE  IInv'
  <2>0. PICK st : st = SupersededRow(m, v)
    OBVIOUS
  <2>1. v + 1 \in Version
    BY <1>9, MaxVersionAssumption DEF CorrectCommit, Version
  <2>2. InsertVersion(m, v + 1, e, ids, st) /\ Log(m, "correct", v, v + 1) /\ Forget(s)
    BY <1>9, <2>0 DEF CorrectCommit
  <2>3. status[m][v] \in {"active", "superseded"}
    BY <1>9 DEF CorrectCommit, Supersedable, IInv, TextTracksStatus
  <2>4. \A w \in Version : status[m][w] # "deleted"
    BY <2>3 DEF IInv, DeletedTogether
  <2>5. st \in [Memory -> [Version -> {"none", "active", "superseded", "deleted"}]]
    BY <1>a, <2>0 DEF SupersededRow, TypeOK
  <2>5a. \A n \in Memory : \A w \in Version :
          st[n][w] = IF n = m /\ w = v THEN "superseded" ELSE status[n][w]
    BY <1>a, <2>0 DEF SupersededRow, TypeOK
  <2>6. \A n \in Memory : \A w \in Version :
          \/ st[n][w] = status[n][w]
          \/ n = m /\ st[n][w] = "superseded" /\ status[n][w] \in {"active", "superseded"}
    BY <2>3, <2>5a
  <2>7. \A n \in Memory : \A w \in Version : Exists(n, w) => Exists(n, w)'
    BY <2>1, <2>2, <2>5, <2>5a DEF InsertVersion, Exists
  <2>8. TargetExists'
    BY <1>a, <2>2, <2>7, TargetKept
  <2>9. QED
    BY <1>a, <2>1, <2>2, <2>4, <2>5, <2>6, <2>8, InsertKeeps
<1>10. ASSUME NEW s \in Session, NEW m \in Memory, NEW v \in Version, SupersedeCommit(s, m, v)
       PROVE  IInv'
  BY <1>10, <1>a, SupersedeKeeps
<1>11. ASSUME NEW s \in Session, NEW m \in Memory, NEW v \in Version, DeleteCommit(s, m, v)
       PROVE  IInv'
  BY <1>11, <1>a, DeleteKeeps
<1>12. ASSUME NEW s \in Session, Rollback(s) PROVE IInv'
  BY <1>12, <1>a, TargetKept, QuietTables DEF Rollback, tables, Exists
<1>13. ASSUME NEW s \in Session, Close(s) PROVE IInv'
  BY <1>13, <1>a, TargetKept, QuietTables DEF Close, tables, Exists
<1>14. CASE UNCHANGED vars
  <2>1. TargetExists'
    BY <1>14 DEF IInv, TargetExists, vars, Exists
  <2>2. QED
    BY <1>14, <1>a, <2>1, QuietTables DEF vars
<1>15. QED
  BY <1>1, <1>2, <1>3, <1>4, <1>5, <1>6, <1>7, <1>8, <1>9, <1>10, <1>11, <1>12, <1>13, <1>14
     DEF Next, Backfill, Mutate

LEMMA Inductive == Spec => []IInv
BY InvariantInit, InvariantStep, PTL DEF Spec

\* Whatever stale reads the connections commit, a lineage with a delete revision
\* has no usable version, no statement, no full-text row and only erased evidence.
THEOREM DeletionTotal == Spec => []DeletionIsTotal
<1>1. IInv => DeletionIsTotal
  <2> SUFFICES ASSUME IInv, NEW m \in Memory, HasDeletion(m)
               PROVE  /\ \A v \in Version : status[m][v] \in {"none", "deleted"}
                      /\ \A v \in Version : statement[m][v] = "null"
                      /\ \A v \in Version : <<m, v>> \notin fts
                      /\ \A e \in LinkedTo(m) : evidence[e] = "erased"
    BY DEF DeletionIsTotal
  <2>1. PICK u \in Version : status[m][u] = "deleted"
    BY DEF IInv, DeletionLeavesTombstone
  <2>2. \A v \in Version : status[m][v] \in {"none", "deleted"}
    BY <2>1 DEF IInv, DeletedTogether
  <2>3. \A v \in Version : statement[m][v] = "null"
    <3>1. \A v \in Version : statement[m][v] \in {"present", "null"}
      BY DEF IInv, TypeOK
    <3>2. \A v \in Version : statement[m][v] # "present"
      BY <2>2 DEF IInv, TextTracksStatus
    <3>3. QED
      BY <3>1, <3>2
  <2>4. \A v \in Version :
          /\ \A e \in linked[m][v] : evidence[e] = "erased"
          /\ <<m, v>> \notin fts
    BY <2>1 DEF IInv, TombstoneIsBare
  <2>5. \A e \in LinkedTo(m) : evidence[e] = "erased"
    BY <2>4 DEF LinkedTo
  <2>6. QED
    BY <2>2, <2>3, <2>4, <2>5
<1>2. QED
  BY <1>1, Inductive, PTL

\* Evidence has one owning lineage, and a living version has its statement and
\* all of its evidence.
THEOREM ErasureContained == Spec => []ErasureStaysInLineage
<1>1. IInv => ErasureStaysInLineage
  <2> SUFFICES ASSUME IInv PROVE ErasureStaysInLineage
    OBVIOUS
  <2>1. ASSUME NEW m \in Memory, NEW n \in Memory, m # n
        PROVE  LinkedTo(m) \cap LinkedTo(n) = {}
    BY <2>1 DEF IInv, OneOwner, LinkedTo
  <2>2. ASSUME NEW m \in Memory, NEW v \in Version,
               status[m][v] \in {"active", "superseded"}, NEW e \in linked[m][v]
        PROVE  evidence[e] = "present"
    <3>1. e \in Evidence /\ evidence[e] \in {"present", "erased"}
      BY <2>2 DEF IInv, TypeOK, LinksAreStored
    <3>2. \A n \in Memory : \A u, w \in Version :
            e \in linked[n][u] /\ status[n][w] = "deleted" => FALSE
      BY <2>2 DEF IInv, OneOwner, DeletedTogether
    <3>3. QED
      BY <3>1, <3>2 DEF IInv, ErasedOnlyByDeletion
  <2>3. QED
    BY <2>1, <2>2 DEF ErasureStaysInLineage, IInv, TextTracksStatus
<1>2. QED
  BY <1>1, Inductive, PTL

---------------------------------------------------------------------------
(***************************************************************************)
(* The shape of a lineage, its history, the search indexes, and that the   *)
(* store implements Lifecycle.                                             *)
(*                                                                         *)
(* Six kinds of step touch the tables (TableSteps).  Approve and           *)
(* CorrectCommit have the same effect (Inserts): the next version of a     *)
(* lineage that has not been deleted becomes its active one.               *)
(***************************************************************************)

LEMMA TableSteps ==
  ASSUME [Next]_vars
  PROVE  \/ UNCHANGED tables
         \/ \E s \in Session, m \in Memory, v \in Version :
              \/ BackfillCommit(s, m, v)
              \/ SupersedeCommit(s, m, v)
              \/ DeleteCommit(s, m, v)
         \/ \E s \in Session, m \in Memory, e \in Evidence, ids \in SUBSET Evidence :
              \/ Approve(s, m, e, ids)
              \/ \E v \in Version : CorrectCommit(s, m, v, e, ids)
<1>1. CASE UNCHANGED vars
  BY <1>1 DEF vars, tables
<1>2. ASSUME NEW s \in Session,
             \/ OpenStore(s) \/ BackfillDone(s) \/ Rollback(s) \/ Close(s)
             \/ \E m \in Memory : BackfillSkip(s, m)
             \/ \E m \in Memory, v \in Version : BackfillRead(s, m, v)
             \/ \E m \in Memory, v \in Version : BackfillCount(s, m, v)
             \/ \E m \in Memory, v \in Version, operation \in Mutation :
                  ReadCurrent(s, m, v, operation)
      PROVE  UNCHANGED tables
  BY <1>2 DEF OpenStore, BackfillDone, Rollback, Close, BackfillSkip, BackfillRead,
              BackfillCount, ReadCurrent
<1>3. QED
  BY <1>1, <1>2 DEF Next, Backfill, Mutate

---------------------------------------------------------------------------
(* What an insertion does. *)

Inserts(m, v, e, ids) ==
  /\ v \in Version
  /\ \A w \in Version : Exists(m, w) <=> w < v
  /\ \A w \in Version : status[m][w] # "deleted"
  /\ evidence[e] = "none"
  /\ \A n \in Memory : \A w \in Version : status'[n][w] =
       IF n = m /\ w = v THEN "active"
       ELSE IF n = m /\ status[m][w] = "active" THEN "superseded" ELSE status[n][w]
  /\ \A n \in Memory : \A w \in Version :
       n # m \/ w # v => /\ statement'[n][w] = statement[n][w]
                         /\ linked'[n][w] = linked[n][w]
  /\ \A f \in Evidence : f # e => evidence'[f] = evidence[f]
  /\ fts' = Without(fts, m) \cup {<<m, v>>}
  /\ chunks' = Without(chunks, m) \cup {<<m, v>>}
  /\ \E operation \in {"approve", "correct"}, from \in 0 .. MaxVersion :
       Log(m, operation, from, v)

LEMMA ApproveInserts ==
  ASSUME TypeOK, NEW s \in Session, NEW m \in Memory, NEW e \in Evidence,
         NEW ids \in SUBSET Evidence, Approve(s, m, e, ids)
  PROVE  Inserts(m, 1, e, ids)
<1>1. 1 \in Version /\ \A w \in Version : ~(w < 1)
  BY MaxVersionAssumption DEF Version
<1>2. \A w \in Version : status[m][w] = "none"
  BY DEF Approve, Exists
<1>3. /\ \A n \in Memory : \A w \in Version :
           status'[n][w] = IF n = m /\ w = 1 THEN "active" ELSE status[n][w]
      /\ \A n \in Memory : \A w \in Version :
           n # m \/ w # 1 => /\ statement'[n][w] = statement[n][w]
                             /\ linked'[n][w] = linked[n][w]
      /\ \A f \in Evidence : f # e => evidence'[f] = evidence[f]
  BY <1>1 DEF Approve, InsertVersion, TypeOK
<1>4. \E operation \in {"approve", "correct"}, from \in 0 .. MaxVersion :
        Log(m, operation, from, 1)
  BY MaxVersionAssumption DEF Approve, Null
<1>5. QED
  BY <1>1, <1>2, <1>3, <1>4
     DEF Inserts, Exists, Approve, InsertVersion, EvidenceLinkable

LEMMA CorrectInserts ==
  ASSUME IInv, LineageShape, NEW s \in Session, NEW m \in Memory, NEW v \in Version,
         NEW e \in Evidence, NEW ids \in SUBSET Evidence, CorrectCommit(s, m, v, e, ids)
  PROVE  Inserts(m, v + 1, e, ids)
<1>1. v \in Nat /\ v + 1 \in Version /\ v \in 0 .. MaxVersion
  BY MaxVersionAssumption DEF CorrectCommit, Version
<1>2. status[m][v] \in {"active", "superseded"}
  BY DEF CorrectCommit, Supersedable, IInv, TextTracksStatus
<1>3. PICK st : /\ st = SupersededRow(m, v)
                /\ InsertVersion(m, v + 1, e, ids, st)
                /\ Log(m, "correct", v, v + 1)
  BY DEF CorrectCommit
<1>4. \A n \in Memory : \A w \in Version :
        st[n][w] = IF n = m /\ w = v THEN "superseded" ELSE status[n][w]
  BY <1>3 DEF SupersededRow, IInv, TypeOK
<1>5. status[m][v + 1] = "none" /\ \A w \in Version : w # v => status[m][w] # "active"
  BY <1>1, <1>3, <1>4 DEF InsertVersion, RowInsertable
<1>6. \A w \in Version : Exists(m, w) <=> w < v + 1
  <2>1. \A w \in Version : w <= v => Exists(m, w)
    BY <1>2 DEF LineageShape, Exists, Version
  <2>2. \A w \in Version : w > v => ~Exists(m, w)
    <3> SUFFICES ASSUME NEW w \in Version, w > v, Exists(m, w) PROVE FALSE
      OBVIOUS
    <3>1. v + 1 \in 1 .. w
      BY <1>1 DEF Version
    <3>2. QED
      BY <3>1, <1>5 DEF LineageShape, Exists
  <2>3. QED
    BY <1>1, <2>1, <2>2 DEF Version
<1>7. \A w \in Version : status[m][w] # "deleted"
  BY <1>2 DEF IInv, DeletedTogether
<1>8. \A n \in Memory : \A w \in Version : status'[n][w] =
        IF n = m /\ w = v + 1 THEN "active"
        ELSE IF n = m /\ status[m][w] = "active" THEN "superseded" ELSE status[n][w]
  <2>1. st \in [Memory -> [Version -> {"none", "active", "superseded", "deleted"}]]
    BY <1>3 DEF SupersededRow, IInv, TypeOK
  <2>2. \A n \in Memory : \A w \in Version :
          status'[n][w] = IF n = m /\ w = v + 1 THEN "active" ELSE st[n][w]
    BY <1>1, <1>3, <2>1 DEF InsertVersion
  <2>3. QED
    BY <2>2, <1>2, <1>4, <1>5
<1>9. /\ \A n \in Memory : \A w \in Version :
           n # m \/ w # v + 1 => /\ statement'[n][w] = statement[n][w]
                                 /\ linked'[n][w] = linked[n][w]
      /\ \A f \in Evidence : f # e => evidence'[f] = evidence[f]
      /\ evidence[e] = "none"
      /\ fts' = Without(fts, m) \cup {<<m, v + 1>>}
      /\ chunks' = Without(chunks, m) \cup {<<m, v + 1>>}
  BY <1>1, <1>3 DEF InsertVersion, EvidenceLinkable, IInv, TypeOK
<1>10. QED
  BY <1>1, <1>3, <1>6, <1>7, <1>8, <1>9 DEF Inserts

\* The six kinds of step, with the two insertions taken together
LEMMA TableCases ==
  ASSUME IInv, LineageShape, [Next]_vars
  PROVE  \/ UNCHANGED tables
         \/ \E s \in Session, m \in Memory, v \in Version :
              \/ BackfillCommit(s, m, v)
              \/ SupersedeCommit(s, m, v)
              \/ DeleteCommit(s, m, v)
         \/ \E m \in Memory, v \in Version, e \in Evidence, ids \in SUBSET Evidence :
              Inserts(m, v, e, ids)
<1>1. ASSUME NEW s \in Session, NEW m \in Memory, NEW e \in Evidence,
             NEW ids \in SUBSET Evidence, Approve(s, m, e, ids)
      PROVE  1 \in Version /\ Inserts(m, 1, e, ids)
  BY <1>1, ApproveInserts DEF IInv, Inserts
<1>2. ASSUME NEW s \in Session, NEW m \in Memory, NEW e \in Evidence,
             NEW ids \in SUBSET Evidence, NEW v \in Version, CorrectCommit(s, m, v, e, ids)
      PROVE  v + 1 \in Version /\ Inserts(m, v + 1, e, ids)
  BY <1>2, CorrectInserts DEF Inserts
<1>3. QED
  BY <1>1, <1>2, TableSteps

---------------------------------------------------------------------------
(* The stored versions of a lineage are 1 .. n and only the newest is       *)
(* active.                                                                 *)

\* No step but an insertion adds a row or makes one active
LEMMA NoGrowthKeepsShape ==
  ASSUME LineageShape, DeletedTogether',
         \A m \in Memory : \A v \in Version :
           /\ Exists(m, v)' <=> Exists(m, v)
           /\ status'[m][v] = "active" => status[m][v] = "active"
  PROVE  LineageShape'
<1> SUFFICES ASSUME NEW m \in Memory, NEW v \in Version
             PROVE  /\ Exists(m, v)' => \A w \in 1 .. v : Exists(m, w)'
                    /\ status'[m][v] = "active" =>
                         \A w \in Version : w > v => ~Exists(m, w)'
                    /\ status'[m][v] = "deleted" =>
                         \A w \in Version : status'[m][w] \in {"none", "deleted"}
  BY DEF LineageShape
<1>1. \A w \in 1 .. v : w \in Version
  BY MaxVersionAssumption DEF Version
<1>2. QED
  BY <1>1 DEF LineageShape, DeletedTogether

LEMMA InsertionKeepsShape ==
  ASSUME LineageShape, DeletedTogether', NEW m \in Memory, NEW v \in Version,
         NEW e \in Evidence, NEW ids \in SUBSET Evidence, Inserts(m, v, e, ids)
  PROVE  LineageShape'
<1> SUFFICES ASSUME NEW n \in Memory, NEW u \in Version
             PROVE  /\ Exists(n, u)' => \A w \in 1 .. u : Exists(n, w)'
                    /\ status'[n][u] = "active" =>
                         \A w \in Version : w > u => ~Exists(n, w)'
                    /\ status'[n][u] = "deleted" =>
                         \A w \in Version : status'[n][w] \in {"none", "deleted"}
  BY DEF LineageShape
<1>1. /\ \A w \in 1 .. u : w \in Version
      /\ \A w \in Version : w \in Nat
  BY MaxVersionAssumption DEF Version
<1>2. \A w \in Version : Exists(n, w)' <=> Exists(n, w) \/ (n = m /\ w = v)
  BY DEF Inserts, Exists
<1>3. CASE n # m
  <2>1. \A w \in Version : status'[n][w] = status[n][w]
    BY <1>3 DEF Inserts
  <2>2. QED
    BY <1>1, <1>2, <1>3, <2>1 DEF LineageShape, DeletedTogether
<1>4. CASE n = m
  <2>1. \A w \in Version : Exists(n, w)' <=> w <= v
    BY <1>1, <1>2, <1>4 DEF Inserts
  <2>2. status'[n][u] = "active" => u = v
    BY <1>4 DEF Inserts
  <2>3. QED
    BY <1>1, <2>1, <2>2 DEF DeletedTogether
<1>5. QED
  BY <1>3, <1>4

LEMMA ShapeInit == Init => LineageShape
<1> SUFFICES ASSUME Init, NEW m \in Memory, NEW v \in Version
             PROVE  /\ Exists(m, v) => v = 1 /\ status[m][v] = "active"
                    /\ status[m][v] # "deleted"
  BY MaxVersionAssumption DEF LineageShape, Version, Exists
<1>1. QED
  BY DEF Init, Exists

LEMMA ShapeStep ==
  ASSUME IInv, IInv', LineageShape, [Next]_vars
  PROVE  LineageShape'
<1>d. DeletedTogether'
  BY DEF IInv
<1>1. CASE UNCHANGED tables
  BY <1>1, <1>d, NoGrowthKeepsShape DEF tables, Exists
<1>2. ASSUME NEW s \in Session, NEW m \in Memory, NEW v \in Version, BackfillCommit(s, m, v)
      PROVE  LineageShape'
  BY <1>2, <1>d, NoGrowthKeepsShape DEF BackfillCommit, Exists
<1>3. ASSUME NEW s \in Session, NEW m \in Memory, NEW v \in Version, SupersedeCommit(s, m, v)
      PROVE  LineageShape'
  <2>1. status[m][v] \in {"active", "superseded"}
    BY <1>3 DEF SupersedeCommit, Supersedable, IInv, TextTracksStatus
  <2>2. \A n \in Memory : \A w \in Version :
          status'[n][w] = IF n = m /\ w = v THEN "superseded" ELSE status[n][w]
    BY <1>3 DEF SupersedeCommit, SupersededRow, IInv, TypeOK
  <2>3. QED
    BY <1>d, <2>1, <2>2, NoGrowthKeepsShape DEF Exists
<1>4. ASSUME NEW s \in Session, NEW m \in Memory, NEW v \in Version, DeleteCommit(s, m, v)
      PROVE  LineageShape'
  <2>1. \A n \in Memory : \A w \in Version :
          status'[n][w] = IF n # m THEN status[n][w]
                          ELSE IF status[n][w] # "none" THEN "deleted" ELSE "none"
    BY <1>4 DEF DeleteCommit, DeletedRows, Exists, IInv, TypeOK
  <2>2. QED
    BY <1>d, <2>1, NoGrowthKeepsShape DEF Exists
<1>5. ASSUME NEW m \in Memory, NEW v \in Version, NEW e \in Evidence,
             NEW ids \in SUBSET Evidence, Inserts(m, v, e, ids)
      PROVE  LineageShape'
  BY <1>5, <1>d, InsertionKeepsShape
<1>6. QED
  BY <1>1, <1>2, <1>3, <1>4, <1>5, TableCases

\* Whatever stale reads commit, the versions of a lineage are 1 .. n, at most the
\* newest is active, and a deletion covers them all.
THEOREM LineageShaped == Spec => []LineageShape
<1>1. IInv /\ IInv' /\ LineageShape /\ [Next]_vars => LineageShape'
  BY ShapeStep
<1>2. QED
  BY <1>1, ShapeInit, Inductive, PTL DEF Spec

---------------------------------------------------------------------------
(* Steps never rewrite what is stored.                                     *)

LEMMA InsertionImmutable ==
  ASSUME IInv, NEW m \in Memory, NEW v \in Version, NEW e \in Evidence,
         NEW ids \in SUBSET Evidence, Inserts(m, v, e, ids)
  PROVE  /\ \A n \in Memory : \A w \in Version : Exists(n, w) =>
              /\ Exists(n, w)'
              /\ linked'[n][w] = linked[n][w]
              /\ statement[n][w] = "null" => statement'[n][w] = "null"
         /\ \A f \in Evidence : evidence[f] = "erased" => evidence'[f] = "erased"
<1>1. ~Exists(m, v)
  BY DEF Inserts, Version
<1>2. \A n \in Memory : \A w \in Version : Exists(n, w) => n # m \/ w # v
  BY <1>1
<1>3. QED
  BY <1>2 DEF Inserts, Exists

\* A correction creates a version and changes none: stored versions keep their
\* links, erased statements and erased evidence stay erased.
THEOREM HistoryImmutable == Spec => HistoryIsImmutable
<1> DEFINE Kept ==
      /\ \A m \in Memory : \A v \in Version : Exists(m, v) =>
           /\ Exists(m, v)'
           /\ linked'[m][v] = linked[m][v]
           /\ statement[m][v] = "null" => statement'[m][v] = "null"
      /\ \A e \in Evidence : evidence[e] = "erased" => evidence'[e] = "erased"
<1>1. ASSUME IInv, LineageShape, [Next]_vars PROVE Kept
  <2>1. CASE UNCHANGED tables
    BY <2>1 DEF tables, Exists
  <2>2. ASSUME NEW s \in Session, NEW m \in Memory, NEW v \in Version, BackfillCommit(s, m, v)
        PROVE  Kept
    BY <2>2 DEF BackfillCommit, Exists
  <2>3. ASSUME NEW s \in Session, NEW m \in Memory, NEW v \in Version,
               SupersedeCommit(s, m, v)
        PROVE  Kept
    BY <1>1, <2>3 DEF SupersedeCommit, SupersededRow, Exists, IInv, TypeOK
  <2>4. ASSUME NEW s \in Session, NEW m \in Memory, NEW v \in Version, DeleteCommit(s, m, v)
        PROVE  Kept
    BY <1>1, <2>4 DEF DeleteCommit, DeletedRows, NullStatements, Exists, IInv, TypeOK
  <2>5. ASSUME NEW m \in Memory, NEW v \in Version, NEW e \in Evidence,
               NEW ids \in SUBSET Evidence, Inserts(m, v, e, ids)
        PROVE  Kept
    BY <1>1, <2>5, InsertionImmutable
  <2>6. QED
    BY <1>1, <2>1, <2>2, <2>3, <2>4, <2>5, TableCases
<1>2. IInv /\ LineageShape /\ [Next]_vars => [Kept]_vars
  BY <1>1
<1>3. QED
  BY <1>2, LineageShaped, Inductive, PTL DEF Spec, HistoryIsImmutable

---------------------------------------------------------------------------
(* The search indexes.                                                     *)

LEMMA IndexInit == Init => IndexRowsInForce
<1> SUFFICES ASSUME Init, NEW m \in Legacy PROVE status[m][1] = "active"
  BY DEF Init, IndexRowsInForce
<1>1. m \in Memory /\ 1 \in Version
  BY LegacyAssumption, MaxVersionAssumption DEF Version
<1>2. QED
  BY <1>1 DEF Init

LEMMA IndexStep ==
  ASSUME IInv, LineageShape, IndexRowsInForce, [Next]_vars
  PROVE  IndexRowsInForce'
<1>t. /\ fts \subseteq Memory \X Version /\ chunks \subseteq Memory \X Version
      /\ \A r \in fts : status[r[1]][r[2]] = "active"
      /\ \A r, q \in chunks : r[1] = q[1] => r = q
  BY DEF IInv, TypeOK, IndexRowsInForce
<1>1. CASE UNCHANGED tables
  BY <1>1 DEF tables, IndexRowsInForce
<1>2. ASSUME NEW s \in Session, NEW m \in Memory, NEW v \in Version, BackfillCommit(s, m, v)
      PROVE  IndexRowsInForce'
  <2> DEFINE rows == {<<m, v>>} \cup Unindexed(todo[s] \ {m})
  <2>1. chunks' = Reindexed(rows) /\ UNCHANGED <<status, fts>>
    BY <1>2 DEF BackfillCommit
  <2>2. \A r, q \in Unindexed(todo[s] \ {m}) : r[1] = q[1] => r = q
    <3> SUFFICES ASSUME NEW r \in Unindexed(todo[s] \ {m}), NEW q \in Unindexed(todo[s] \ {m}),
                        r[1] = q[1]
                 PROVE  r = q
      OBVIOUS
    <3>1. /\ r \in Memory \X Version /\ q \in Memory \X Version
          /\ GetActive(r[1], r[2]) /\ GetActive(q[1], q[2])
      BY DEF Unindexed, IInv, TypeOK
    <3>2. r[2] <= q[2] /\ q[2] <= r[2]
      BY <3>1 DEF GetActive
    <3>3. QED
      BY <3>1, <3>2 DEF Version
  <2>3. \A r \in Unindexed(todo[s] \ {m}) : r[1] # m
    BY DEF Unindexed
  <2>4. \A r, q \in rows : r[1] = q[1] => r = q
    BY <2>2, <2>3
  <2>5. \A r, q \in chunks' : r[1] = q[1] => r = q
    BY <1>t, <2>1, <2>4 DEF Reindexed
  <2>6. QED
    BY <1>t, <2>1, <2>5 DEF IndexRowsInForce
<1>3. ASSUME NEW s \in Session, NEW m \in Memory, NEW v \in Version,
             SupersedeCommit(s, m, v) \/ DeleteCommit(s, m, v)
      PROVE  IndexRowsInForce'
  <2>1. \A n \in Memory : \A w \in Version : n # m => status'[n][w] = status[n][w]
    BY <1>3 DEF SupersedeCommit, SupersededRow, DeleteCommit, DeletedRows, IInv, TypeOK
  <2>2. fts' = Without(fts, m) /\ chunks' = Without(chunks, m)
    BY <1>3 DEF SupersedeCommit, DeleteCommit
  <2>3. QED
    BY <1>t, <2>1, <2>2 DEF Without, IndexRowsInForce
<1>4. ASSUME NEW m \in Memory, NEW v \in Version, NEW e \in Evidence,
             NEW ids \in SUBSET Evidence, Inserts(m, v, e, ids)
      PROVE  IndexRowsInForce'
  <2>1. /\ \A n \in Memory : \A w \in Version : n # m => status'[n][w] = status[n][w]
        /\ status'[m][v] = "active"
    BY <1>4 DEF Inserts
  <2>2. /\ fts' = Without(fts, m) \cup {<<m, v>>}
        /\ chunks' = Without(chunks, m) \cup {<<m, v>>}
    BY <1>4 DEF Inserts
  <2>3. QED
    BY <1>t, <2>1, <2>2 DEF Without, IndexRowsInForce
<1>5. QED
  BY <1>1, <1>2, <1>3, <1>4, TableCases

\* The full-text index only ever holds text in force, and the chunk table holds
\* one version of a lineage at most.
THEOREM IndexInForce == Spec => []IndexRowsInForce
<1>1. IInv /\ LineageShape /\ IndexRowsInForce /\ [Next]_vars => IndexRowsInForce'
  BY IndexStep
<1>2. QED
  BY <1>1, IndexInit, Inductive, LineageShaped, PTL DEF Spec

\* A chunk of a deleted lineage appears only by a backfill that read the lineage
\* before it was deleted.
THEOREM BackfillReindexes == Spec => OnlyBackfillReindexes
<1> DEFINE Explained ==
      \A m \in Memory : \A v \in Version :
        HasDeletion(m)' /\ <<m, v>> \in chunks' /\ <<m, v>> \notin chunks
          => \E s \in Session : pc[s] = "heal" /\ target[s] = <<m, v>>
<1>1. ASSUME IInv, LineageShape, [Next]_vars PROVE Explained
  <2> SUFFICES ASSUME NEW m \in Memory, NEW v \in Version, HasDeletion(m)',
                      <<m, v>> \in chunks', <<m, v>> \notin chunks
               PROVE  \E s \in Session : pc[s] = "heal" /\ target[s] = <<m, v>>
    OBVIOUS
  <2>1. CASE UNCHANGED tables
    BY <2>1 DEF tables
  <2>2. ASSUME NEW s \in Session, NEW n \in Memory, NEW w \in Version, BackfillCommit(s, n, w)
        PROVE  pc[s] = "heal" /\ target[s] = <<m, v>>
    <3>1. HasDeletion(m) /\ pc[s] = "heal" /\ target[s] = <<n, w>>
      BY <2>2 DEF BackfillCommit, HasDeletion
    <3>2. \A u \in Version : status[m][u] # "active"
      BY <1>1, <3>1 DEF IInv, DeletionLeavesTombstone, DeletedTogether
    <3>3. <<m, v>> \in {<<n, w>>} \cup Unindexed(todo[s] \ {n})
      BY <2>2 DEF BackfillCommit, Reindexed
    <3>4. <<m, v>> \notin Unindexed(todo[s] \ {n})
      BY <3>2 DEF Unindexed, GetActive
    <3>5. QED
      BY <3>1, <3>3, <3>4
  <2>3. ASSUME NEW s \in Session, NEW n \in Memory, NEW w \in Version,
               SupersedeCommit(s, n, w) \/ DeleteCommit(s, n, w)
        PROVE  FALSE
    BY <2>3 DEF SupersedeCommit, DeleteCommit, Without
  <2>4. ASSUME NEW n \in Memory, NEW w \in Version, NEW e \in Evidence,
               NEW ids \in SUBSET Evidence, Inserts(n, w, e, ids)
        PROVE  FALSE
    <3>1. n = m
      BY <2>4 DEF Inserts, Without
    <3>2. HasDeletion(m)
      <4>1. PICK operation \in {"approve", "correct"}, from \in 0 .. MaxVersion :
                   Log(n, operation, from, w)
        BY <2>4 DEF Inserts
      <4>2. QED
        BY <1>1, <4>1, LogDeletion DEF IInv
    <3>3. QED
      BY <1>1, <2>4, <3>1, <3>2 DEF IInv, DeletionLeavesTombstone, Inserts
  <2>5. QED
    BY <1>1, <2>1, <2>2, <2>3, <2>4, TableCases
<1>2. IInv /\ LineageShape /\ [Next]_vars => [Explained]_vars
  BY <1>1
<1>3. QED
  BY <1>2, LineageShaped, Inductive, PTL DEF Spec, OnlyBackfillReindexes

---------------------------------------------------------------------------
(* The revision log explains the table.                                    *)

Creations(m, v) == {i \in DOMAIN revisions[m] : revisions[m][i].to = v}

LEMMA CreationsFinite ==
  ASSUME TypeOK, NEW m \in Memory, NEW v \in Version
  PROVE  IsFiniteSet(Creations(m, v)) /\ Len(revisions[m]) + 1 \notin Creations(m, v)
<1>1. revisions[m] \in Seq(Revision)
  BY DEF TypeOK
<1>2. Creations(m, v) \subseteq 1 .. Len(revisions[m]) /\ Len(revisions[m]) \in Nat
  BY <1>1 DEF Creations
<1>3. IsFiniteSet(1 .. Len(revisions[m]))
  BY <1>2, FS_Interval
<1>4. QED
  BY <1>2, <1>3, FS_Subset

\* What one more revision does to the creations of a version
LEMMA LogCreations ==
  ASSUME TypeOK, NEW m \in Memory, NEW operation \in {"approve"} \cup Mutation,
         NEW from \in 0 .. MaxVersion, NEW to \in 0 .. MaxVersion,
         Log(m, operation, from, to), NEW n \in Memory, NEW v \in Version
  PROVE  Creations(n, v)' =
           IF n = m /\ to = v THEN Creations(n, v) \cup {Len(revisions[m]) + 1}
           ELSE Creations(n, v)
<1>1. CASE n # m
  BY <1>1 DEF Log, TypeOK, Creations
<1>2. CASE n = m
  <2> DEFINE event == [operation |-> operation, from |-> from, to |-> to]
  <2>1. revisions[m] \in Seq(Revision) /\ event.to = to /\ event \in Revision
    BY DEF TypeOK, Revision
  <2>2. revisions'[m] = Append(revisions[m], event)
    BY DEF Log, TypeOK
  <2> HIDE DEF event
  <2>3. DOMAIN revisions'[m] = DOMAIN revisions[m] \cup {Len(revisions[m]) + 1}
    BY <2>1, <2>2
  <2>4. \A i \in DOMAIN revisions[m] : revisions'[m][i] = revisions[m][i]
    BY <2>1, <2>2
  <2>5. revisions'[m][Len(revisions[m]) + 1] = event
    BY <2>1, <2>2
  <2>6. QED
    BY <1>2, <2>1, <2>3, <2>4, <2>5 DEF Creations
<1>3. QED
  BY <1>1, <1>2

LEMMA HistoryInit == Init => HistoryMatchesRows
<1> SUFFICES ASSUME Init, NEW m \in Memory, NEW v \in Version
             PROVE  Cardinality(Creations(m, v)) = IF Exists(m, v) THEN 1 ELSE 0
  BY DEF HistoryMatchesRows, Creations
<1>1. CASE m \in Legacy /\ v = 1
  <2>1. revisions[m] = <<[operation |-> "approve", from |-> Null, to |-> 1]>>
    BY <1>1 DEF Init
  <2>2. Creations(m, v) = {1}
    BY <1>1, <2>1 DEF Creations
  <2>3. Exists(m, v)
    BY <1>1 DEF Init, Exists
  <2>4. QED
    BY <2>2, <2>3, FS_Singleton
<1>2. CASE ~(m \in Legacy /\ v = 1)
  <2>1. \/ revisions[m] = <<>>
        \/ v # 1 /\ revisions[m] = <<[operation |-> "approve", from |-> Null, to |-> 1]>>
    BY <1>2 DEF Init
  <2>2. Creations(m, v) = {}
    BY <2>1 DEF Creations
  <2>3. ~Exists(m, v)
    BY <1>2 DEF Init, Exists
  <2>4. QED
    BY <2>2, <2>3, FS_EmptySet
<1>3. QED
  BY <1>1, <1>2

\* A revision that creates no version leaves a table that gains no row explained
LEMMA QuietHistory ==
  ASSUME TypeOK, HistoryMatchesRows, NEW m \in Memory, NEW operation \in Mutation,
         NEW from \in 0 .. MaxVersion, Log(m, operation, from, Null),
         \A n \in Memory : \A v \in Version : Exists(n, v)' <=> Exists(n, v)
  PROVE  HistoryMatchesRows'
<1> SUFFICES ASSUME NEW n \in Memory, NEW v \in Version
             PROVE  Cardinality(Creations(n, v)') = IF Exists(n, v)' THEN 1 ELSE 0
  BY DEF HistoryMatchesRows, Creations
<1>1. /\ Null \in 0 .. MaxVersion /\ Null # v
      /\ operation \in {"approve"} \cup Mutation
  BY MaxVersionAssumption DEF Null, Version
<1>2. Creations(n, v)' =
        IF n = m /\ Null = v THEN Creations(n, v) \cup {Len(revisions[m]) + 1}
        ELSE Creations(n, v)
  BY <1>1, LogCreations
<1>3. QED
  BY <1>1, <1>2 DEF HistoryMatchesRows, Creations

LEMMA InsertionHistory ==
  ASSUME TypeOK, HistoryMatchesRows, NEW m \in Memory, NEW v \in Version,
         NEW e \in Evidence, NEW ids \in SUBSET Evidence, Inserts(m, v, e, ids)
  PROVE  HistoryMatchesRows'
<1> SUFFICES ASSUME NEW n \in Memory, NEW w \in Version
             PROVE  Cardinality(Creations(n, w)') = IF Exists(n, w)' THEN 1 ELSE 0
  BY DEF HistoryMatchesRows, Creations
<1>1. PICK operation \in {"approve", "correct"}, from \in 0 .. MaxVersion :
             Log(m, operation, from, v)
  BY DEF Inserts
<1>2. Exists(n, w)' <=> Exists(n, w) \/ (n = m /\ w = v)
  BY DEF Inserts, Exists
<1>3. v \in 0 .. MaxVersion /\ operation \in {"approve"} \cup Mutation
  BY DEF Version, Mutation
<1>4. Cardinality(Creations(n, w)) = IF Exists(n, w) THEN 1 ELSE 0
  BY DEF HistoryMatchesRows, Creations
<1>5. CASE n = m /\ w = v
  <2>1. ~Exists(m, v)
    BY DEF Inserts, Version
  <2>2. Creations(n, w)' = Creations(n, w) \cup {Len(revisions[m]) + 1}
    BY <1>1, <1>3, <1>5, LogCreations
  <2>3. IsFiniteSet(Creations(n, w)) /\ Len(revisions[m]) + 1 \notin Creations(n, w)
    BY <1>5, CreationsFinite
  <2>4. Cardinality(Creations(n, w)') = Cardinality(Creations(n, w)) + 1
    BY <2>2, <2>3, FS_AddElement
  <2>5. QED
    BY <1>2, <1>4, <1>5, <2>1, <2>4
<1>6. CASE ~(n = m /\ w = v)
  <2>1. Creations(n, w)' = Creations(n, w)
    BY <1>1, <1>3, <1>6, LogCreations
  <2>2. QED
    BY <1>2, <1>4, <1>6, <2>1
<1>7. QED
  BY <1>5, <1>6

LEMMA HistoryStep ==
  ASSUME IInv, LineageShape, HistoryMatchesRows, [Next]_vars
  PROVE  HistoryMatchesRows'
<1>1. CASE UNCHANGED tables
  BY <1>1 DEF tables, HistoryMatchesRows, Exists
<1>2. ASSUME NEW s \in Session, NEW m \in Memory, NEW v \in Version, BackfillCommit(s, m, v)
      PROVE  HistoryMatchesRows'
  BY <1>2 DEF BackfillCommit, HistoryMatchesRows, Exists
<1>3. ASSUME NEW s \in Session, NEW m \in Memory, NEW v \in Version, SupersedeCommit(s, m, v)
      PROVE  HistoryMatchesRows'
  <2>1. status[m][v] \in {"active", "superseded"} /\ v \in 0 .. MaxVersion
    BY <1>3 DEF SupersedeCommit, Supersedable, IInv, TextTracksStatus, Version
  <2>2. \A n \in Memory : \A w \in Version : Exists(n, w)' <=> Exists(n, w)
    BY <1>3, <2>1 DEF SupersedeCommit, SupersededRow, Exists, IInv, TypeOK
  <2>3. QED
    BY <1>3, <2>1, <2>2, QuietHistory DEF SupersedeCommit, IInv, Mutation
<1>4. ASSUME NEW s \in Session, NEW m \in Memory, NEW v \in Version, DeleteCommit(s, m, v)
      PROVE  HistoryMatchesRows'
  <2>1. v \in 0 .. MaxVersion
    BY DEF Version
  <2>2. \A n \in Memory : \A w \in Version : Exists(n, w)' <=> Exists(n, w)
    BY <1>4 DEF DeleteCommit, DeletedRows, Exists, IInv, TypeOK
  <2>3. QED
    BY <1>4, <2>1, <2>2, QuietHistory DEF DeleteCommit, IInv, Mutation
<1>5. ASSUME NEW m \in Memory, NEW v \in Version, NEW e \in Evidence,
             NEW ids \in SUBSET Evidence, Inserts(m, v, e, ids)
      PROVE  HistoryMatchesRows'
  BY <1>5, InsertionHistory DEF IInv
<1>6. QED
  BY <1>1, <1>2, <1>3, <1>4, <1>5, TableCases

\* A version is stored exactly when one revision, and only one, created it.
THEOREM HistoryExplains == Spec => []HistoryMatchesRows
<1>1. IInv /\ LineageShape /\ HistoryMatchesRows /\ [Next]_vars => HistoryMatchesRows'
  BY HistoryStep
<1>2. QED
  BY <1>1, HistoryInit, Inductive, LineageShaped, PTL DEF Spec

---------------------------------------------------------------------------
(* The store implements Lifecycle.                                         *)

\* The refinement mapping at one lineage
Newest(m) == Cardinality({v \in Version : Exists(m, v)})
Phase(m) ==
  IF \A v \in Version : ~Exists(m, v) THEN "absent"
  ELSE IF \E v \in Version : status[m][v] = "active" THEN "active"
  ELSE IF \E v \in Version : status[m][v] = "deleted" THEN "erased"
  ELSE "inactive"

LEMMA Mapping ==
  /\ newestVersion = [m \in Memory |-> Newest(m)]
  /\ newestVersion' = [m \in Memory |-> Newest(m)']
  /\ lineagePhase = [m \in Memory |-> Phase(m)]
  /\ lineagePhase' = [m \in Memory |-> Phase(m)']
BY DEF newestVersion, lineagePhase, Newest, Phase

LEMMA IntervalSize ==
  ASSUME NEW v \in 0 .. MaxVersion, NEW S \in SUBSET Version,
         \A w \in Version : w \in S <=> w <= v
  PROVE  Cardinality(S) = v
<1>1. v \in Nat /\ v <= MaxVersion
  BY MaxVersionAssumption
<1>2. \A w \in S : w \in 1 .. v
  BY <1>1 DEF Version
<1>3. \A w \in 1 .. v : w \in S
  BY <1>1, MaxVersionAssumption DEF Version
<1>4. S = 1 .. v
  BY <1>2, <1>3
<1>5. Cardinality(1 .. v) = v
  BY <1>1, FS_Interval
<1>6. QED
  BY <1>4, <1>5

\* Steps that leave status alone are stutters of the abstract specification
LEMMA StatusStutter ==
  ASSUME UNCHANGED status
  PROVE  UNCHANGED <<newestVersion, lineagePhase>>
BY DEF newestVersion, lineagePhase, Exists

LEMMA InsertionRefines ==
  ASSUME TypeOK, NEW m \in Memory, NEW v \in Version, NEW e \in Evidence,
         NEW ids \in SUBSET Evidence, Inserts(m, v, e, ids)
  PROVE  LC!Approve(m) \/ LC!Correct(m)
<1>1. /\ v \in Nat /\ v \in 1 .. MaxVersion /\ v - 1 \in 0 .. MaxVersion /\ v \in 0 .. MaxVersion
      /\ 1 \in Version /\ \A w \in Version : w \in Nat /\ w >= 1
      /\ MaxVersion \in Nat
  BY MaxVersionAssumption DEF Version
<1>2. \A n \in Memory : \A w \in Version : Exists(n, w)' <=> Exists(n, w) \/ (n = m /\ w = v)
  BY DEF Inserts, Exists
<1>3. Newest(m) = v - 1
  <2>1. \A w \in Version : w \in {u \in Version : Exists(m, u)} <=> w <= v - 1
    <3>1. \A w \in Version : w <= v - 1 <=> w < v
      BY <1>1
    <3>2. \A w \in Version : Exists(m, w) <=> w < v
      BY DEF Inserts
    <3>3. QED
      BY <3>1, <3>2
  <2>2. QED
    BY <1>1, <2>1, IntervalSize DEF Newest
<1>4. Newest(m)' = v
  <2>1. \A w \in Version : w \in {u \in Version : Exists(m, u)'} <=> w <= v
    BY <1>1, <1>2 DEF Inserts
  <2>2. QED
    BY <1>1, <2>1, IntervalSize DEF Newest
<1>5. \A n \in Memory : n # m => Newest(n)' = Newest(n) /\ Phase(n)' = Phase(n)
  <2> SUFFICES ASSUME NEW n \in Memory, n # m
               PROVE  Newest(n)' = Newest(n) /\ Phase(n)' = Phase(n)
    OBVIOUS
  <2>1. \A w \in Version : status'[n][w] = status[n][w] /\ (Exists(n, w)' <=> Exists(n, w))
    BY DEF Inserts, Exists
  <2>2. {w \in Version : Exists(n, w)'} = {w \in Version : Exists(n, w)}
    BY <2>1
  <2>3. QED
    BY <2>1, <2>2 DEF Newest, Phase
<1>6. Phase(m)' = "active"
  <2>1. status'[m][v] = "active"
    BY DEF Inserts
  <2>2. QED
    BY <2>1 DEF Phase, Exists
<1>7. CASE v = 1
  <2>1. Phase(m) = "absent"
    BY <1>1, <1>7 DEF Phase, Inserts
  <2>2. QED
    BY <1>4, <1>5, <1>6, <1>7, <2>1, Mapping DEF LC!Approve
<1>8. CASE v # 1
  <2>1. Exists(m, 1)
    BY <1>1, <1>8 DEF Inserts
  <2>2. Phase(m) \in {"active", "inactive"}
    BY <1>1, <2>1 DEF Phase, Inserts
  <2>3. Newest(m)' = Newest(m) + 1 /\ Newest(m) < MaxVersion
    BY <1>1, <1>3, <1>4
  <2>4. newestVersion' = [newestVersion EXCEPT ![m] = @ + 1]
    BY <1>5, <2>3, Mapping
  <2>5. lineagePhase' = [lineagePhase EXCEPT ![m] = "active"]
    BY <1>5, <1>6, Mapping
  <2>6. QED
    BY <2>2, <2>3, <2>4, <2>5, Mapping DEF LC!Correct
<1>9. QED
  BY <1>7, <1>8

\* Taking the version in force out of use; a version already superseded by
\* another connection leaves no trace
LEMMA SupersessionRefines ==
  ASSUME IInv, LineageShape, NEW s \in Session, NEW m \in Memory, NEW v \in Version,
         SupersedeCommit(s, m, v)
  PROVE  LC!Supersede(m) \/ UNCHANGED <<newestVersion, lineagePhase>>
<1>1. /\ status' = [status EXCEPT ![m][v] = "superseded"]
      /\ status[m][v] \in {"active", "superseded"}
  BY DEF SupersedeCommit, SupersededRow, Supersedable, IInv, TextTracksStatus
<1>2. /\ \A n \in Memory : \A w \in Version :
           status'[n][w] = IF n = m /\ w = v THEN "superseded" ELSE status[n][w]
      /\ \A n \in Memory : \A w \in Version : Exists(n, w)' <=> Exists(n, w)
  BY <1>1 DEF IInv, TypeOK, Exists
<1>3. CASE status[m][v] = "superseded"
  BY <1>1, <1>3, StatusStutter DEF IInv, TypeOK
<1>4. CASE status[m][v] = "active"
  <2>1. \A w \in Version : w # v => status[m][w] # "active"
    BY <1>4 DEF LineageShape, Exists, Version
  <2>2. \A w \in Version : status[m][w] # "deleted"
    BY <1>4 DEF IInv, DeletedTogether
  <2>3. Phase(m) = "active" /\ Phase(m)' = "inactive"
    BY <1>2, <1>4, <2>1, <2>2 DEF Phase, Exists
  <2>4. \A n \in Memory : n # m => Phase(n)' = Phase(n)
    BY <1>2 DEF Phase
  <2>5. \A n \in Memory : Newest(n)' = Newest(n)
    <3> SUFFICES ASSUME NEW n \in Memory PROVE Newest(n)' = Newest(n)
      OBVIOUS
    <3>1. {w \in Version : Exists(n, w)'} = {w \in Version : Exists(n, w)}
      BY <1>2
    <3>2. QED
      BY <3>1 DEF Newest
  <2>6. QED
    BY <2>3, <2>4, <2>5, Mapping DEF LC!Supersede
<1>5. QED
  BY <1>1, <1>3, <1>4

\* A second deletion, by a connection that read the lineage before the first,
\* leaves no trace either
LEMMA DeletionRefines ==
  ASSUME IInv, LineageShape, NEW s \in Session, NEW m \in Memory, NEW v \in Version,
         DeleteCommit(s, m, v)
  PROVE  LC!Delete(m) \/ UNCHANGED <<newestVersion, lineagePhase>>
<1>1. /\ \A n \in Memory : \A w \in Version :
           status'[n][w] = IF n # m THEN status[n][w]
                           ELSE IF status[n][w] # "none" THEN "deleted" ELSE "none"
      /\ \A n \in Memory : \A w \in Version : Exists(n, w)' <=> Exists(n, w)
  BY DEF DeleteCommit, DeletedRows, Exists, IInv, TypeOK
<1>2. Exists(m, v)
  BY DEF DeleteCommit, IInv, TargetExists
<1>3. Phase(m)' = "erased"
  BY <1>1, <1>2 DEF Phase, Exists
<1>4. \A n \in Memory : n # m => Phase(n)' = Phase(n)
  BY <1>1 DEF Phase
<1>5. \A n \in Memory : Newest(n)' = Newest(n)
  <2> SUFFICES ASSUME NEW n \in Memory PROVE Newest(n)' = Newest(n)
    OBVIOUS
  <2>1. {w \in Version : Exists(n, w)'} = {w \in Version : Exists(n, w)}
    BY <1>1
  <2>2. QED
    BY <2>1 DEF Newest
<1>6. Phase(m) \in {"active", "inactive", "erased"}
  BY <1>2 DEF Phase
<1>7. CASE Phase(m) = "erased"
  BY <1>3, <1>4, <1>5, <1>7, Mapping
<1>8. CASE Phase(m) # "erased"
  BY <1>3, <1>4, <1>5, <1>6, <1>8, Mapping DEF LC!Delete
<1>9. QED
  BY <1>7, <1>8

LEMMA LifecycleInit == Init => LC!Init
<1> SUFFICES ASSUME Init PROVE LC!Init
  OBVIOUS
<1>1. 1 \in Version /\ 0 \in 0 .. MaxVersion /\ 1 \in 0 .. MaxVersion
  BY MaxVersionAssumption DEF Version
<1>2. ASSUME NEW m \in Legacy PROVE Newest(m) = 1 /\ Phase(m) = "active"
  <2>1. m \in Memory
    BY LegacyAssumption
  <2>2. \A w \in Version : Exists(m, w) <=> w = 1
    BY <2>1 DEF Init, Exists
  <2>3. Newest(m) = 1
    <3>1. \A w \in Version : w \in {u \in Version : Exists(m, u)} <=> w <= 1
      BY <2>2 DEF Version
    <3>2. QED
      BY <1>1, <3>1, IntervalSize DEF Newest
  <2>4. status[m][1] = "active"
    BY <1>1, <2>1 DEF Init
  <2>5. QED
    BY <1>1, <2>2, <2>3, <2>4 DEF Phase
<1>3. ASSUME NEW m \in Memory \ Legacy PROVE Newest(m) = 0 /\ Phase(m) = "absent"
  <2>1. \A w \in Version : ~Exists(m, w)
    BY DEF Init, Exists
  <2>2. {w \in Version : Exists(m, w)} = {}
    BY <2>1
  <2>3. QED
    BY <2>1, <2>2, FS_EmptySet DEF Newest, Phase
<1>4. QED
  BY <1>2, <1>3, Mapping DEF LC!Init

LEMMA LifecycleStep ==
  ASSUME IInv, LineageShape, [Next]_vars
  PROVE  [LC!Next]_(LC!vars)
<1>1. CASE UNCHANGED tables
  BY <1>1, StatusStutter DEF tables, LC!vars
<1>2. ASSUME NEW s \in Session, NEW m \in Memory, NEW v \in Version, BackfillCommit(s, m, v)
      PROVE  UNCHANGED LC!vars
  BY <1>2, StatusStutter DEF BackfillCommit, LC!vars
<1>3. ASSUME NEW s \in Session, NEW m \in Memory, NEW v \in Version, SupersedeCommit(s, m, v)
      PROVE  [LC!Next]_(LC!vars)
  BY <1>3, SupersessionRefines DEF LC!Next, LC!vars
<1>4. ASSUME NEW s \in Session, NEW m \in Memory, NEW v \in Version, DeleteCommit(s, m, v)
      PROVE  [LC!Next]_(LC!vars)
  BY <1>4, DeletionRefines DEF LC!Next, LC!vars
<1>5. ASSUME NEW m \in Memory, NEW v \in Version, NEW e \in Evidence,
             NEW ids \in SUBSET Evidence, Inserts(m, v, e, ids)
      PROVE  [LC!Next]_(LC!vars)
  BY <1>5, InsertionRefines DEF IInv, LC!Next
<1>6. QED
  BY <1>1, <1>2, <1>3, <1>4, <1>5, TableCases

\* Every behaviour of the connections on one database is, lineage by lineage, a
\* life the abstract specification allows.
THEOREM LifecycleImplemented == Spec => ImplementsLifecycle
<1>1. IInv /\ LineageShape /\ [Next]_vars => [LC!Next]_(LC!vars)
  BY LifecycleStep
<1>2. QED
  BY <1>1, LifecycleInit, Inductive, LineageShaped, PTL
     DEF Spec, ImplementsLifecycle, LC!Spec
=============================================================================
