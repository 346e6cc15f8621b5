---------------------------- MODULE MemoryStore ----------------------------
(***************************************************************************)
(* The SQLite memory store of store.py, shared by several connections.     *)
(*                                                                         *)
(* Every MCP tool call opens a MemoryStore of its own, in one of several   *)
(* server processes, on one database file.  A mutation reads the active    *)
(* version in autocommit mode and only then starts its write transaction,  *)
(* so what it read may be stale; the transaction itself is atomic and      *)
(* serialised by SQLite's RESERVED lock, and the constraints of            *)
(* migrations/001_initial.sql decide whether it commits.  Opening a store  *)
(* also rebuilds missing semantic chunks (the backfill), from reads that   *)
(* are just as unprotected.                                                *)
(*                                                                         *)
(* Statement and evidence texts are abstracted to their presence; a chunk  *)
(* or full-text row <<m, v>> stands for rows holding the text of version v *)
(***************************************************************************)
EXTENDS Naturals, Sequences, FiniteSets

CONSTANTS
  Memory,      \* lineage identifiers
  Evidence,    \* evidence event identifiers
  Session,     \* connections, over all server processes
  MaxVersion,  \* bound: versions per lineage
  Legacy       \* lineages written by a release that had no semantic index

ASSUME MaxVersionAssumption == MaxVersion \in Nat \ {0}
ASSUME LegacyAssumption == Legacy \subseteq Memory

VARIABLES
  status,      \* memory_records.status, "none" when there is no such row
  statement,   \* memory_records.statement: "present" or "null"
  linked,      \* memory_evidence: the evidence ids linked from a row
  evidence,    \* evidence_events.content_state, "none" when no such row
  revisions,   \* revision_events of a lineage, in commit order
  fts,         \* memory_fts rows
  chunks,      \* memory_semantic_chunks (with their facets and embeddings)
  pc,          \* where a connection is
  todo,        \* ids the backfill of a connection has still to look at
  target       \* the <<id, version>> a connection last read with get_active

tables == <<status, statement, linked, evidence, revisions, fts, chunks>>
vars == <<status, statement, linked, evidence, revisions, fts, chunks,
          pc, todo, target>>

Version == 1 .. MaxVersion
Null == 0                       \* a NULL version column of revision_events
NoTarget == <<>>
Mutation == {"correct", "supersede", "delete"}

Revision ==
  [operation: {"approve"} \cup Mutation, from: 0 .. MaxVersion, to: 0 .. MaxVersion]

TypeOK ==
  /\ status \in [Memory -> [Version -> {"none", "active", "superseded", "deleted"}]]
  /\ statement \in [Memory -> [Version -> {"present", "null"}]]
  /\ linked \in [Memory -> [Version -> SUBSET Evidence]]
  /\ evidence \in [Evidence -> {"none", "present", "erased"}]
  /\ revisions \in [Memory -> Seq(Revision)]
  /\ fts \in SUBSET (Memory \X Version)
  /\ chunks \in SUBSET (Memory \X Version)
  /\ pc \in [Session -> {"closed", "scan", "count", "heal", "ready"} \cup Mutation]
  /\ todo \in [Session -> SUBSET Memory]
  /\ target \in [Session -> (Memory \X Version) \cup {NoTarget}]

---------------------------------------------------------------------------
(* Reading the tables *)

Exists(m, v) == status[m][v] # "none"

\* get_active: the highest version whose status is active
GetActive(m, v) ==
  /\ status[m][v] = "active"
  /\ \A w \in Version : status[m][w] = "active" => w <= v

\* semantic_chunk_count_for_version > 0.  AnyVersionIndexed is the defect of
\* counting the chunks of the lineage instead (semantic_chunk_count).
AnyVersionIndexed(m, v) == \E w \in Version : <<m, w>> \in chunks
Indexed(m, v) == <<m, v>> \in chunks

LinkedTo(m) == UNION {linked[m][v] : v \in Version}

HasDeletion(m) == \E i \in DOMAIN revisions[m] : revisions[m][i].operation = "delete"

---------------------------------------------------------------------------
(* A database as some release left it: every legacy lineage has one        *)
(* approved version with its evidence and full-text row, and no chunks.    *)
(* The other lineages do not exist yet.                                    *)

Init ==
  /\ status = [m \in Memory |-> [v \in Version |->
                 IF m \in Legacy /\ v = 1 THEN "active" ELSE "none"]]
  /\ statement = [m \in Memory |-> [v \in Version |->
                 IF m \in Legacy /\ v = 1 THEN "present" ELSE "null"]]
  /\ \E source \in [Legacy -> Evidence] :
       /\ \A m, n \in Legacy : source[m] = source[n] => m = n
       /\ linked = [m \in Memory |-> [v \in Version |->
                 IF m \in Legacy /\ v = 1 THEN {source[m]} ELSE {}]]
       /\ evidence = [e \in Evidence |->
                 IF \E m \in Legacy : source[m] = e THEN "present" ELSE "none"]
  /\ revisions = [m \in Memory |->
       IF m \in Legacy THEN <<[operation |-> "approve", from |-> Null, to |-> 1]>>
       ELSE <<>>]
  /\ fts = Legacy \X {1}
  /\ chunks = {}
  /\ pc = [s \in Session |-> "closed"]
  /\ todo = [s \in Session |-> {}]
  /\ target = [s \in Session |-> NoTarget]

Goto(s, label) == pc' = [pc EXCEPT ![s] = label]
Forget(s) == target' = [target EXCEPT ![s] = NoTarget]
Remember(s, m, v) == target' = [target EXCEPT ![s] = <<m, v>>]

---------------------------------------------------------------------------
(* Opening a connection and its backfill *)

\* __init__: migrate() finds nothing pending, then the backfill selects the
\* active rows in one autocommit statement
OpenStore(s) ==
  /\ pc[s] = "closed"
  /\ Goto(s, "scan")
  /\ todo' = [todo EXCEPT ![s] =
       {m \in Memory : \E v \in Version : status[m][v] = "active"}]
  /\ UNCHANGED <<tables, target>>

\* the loop's get_active, outside any transaction
BackfillRead(s, m, v) ==
  /\ pc[s] = "scan"
  /\ m \in todo[s]
  /\ GetActive(m, v)
  /\ Goto(s, "count")
  /\ Remember(s, m, v)
  /\ UNCHANGED <<tables, todo>>

BackfillSkip(s, m) ==
  /\ pc[s] = "scan"
  /\ m \in todo[s]
  /\ \A v \in Version : status[m][v] # "active"
  /\ todo' = [todo EXCEPT ![s] = @ \ {m}]
  /\ UNCHANGED <<tables, pc, target>>

\* semantic_chunk_count_for_version, a second autocommit read
BackfillCount(s, m, v) ==
  /\ pc[s] = "count"
  /\ target[s] = <<m, v>>
  /\ \/ /\ Indexed(m, v)
        /\ Goto(s, "scan")
        /\ todo' = [todo EXCEPT ![s] = @ \ {m}]
        /\ Forget(s)
     \/ /\ ~Indexed(m, v)
        /\ Goto(s, "heal")
        /\ UNCHANGED <<todo, target>>
  /\ UNCHANGED tables

\* _replace_semantic_index: delete the lineage's chunks, insert those of v
Reindexed(rows) ==
  {c \in chunks : \A r \in rows : c[1] # r[1]} \cup rows

\* rows the rest of the loop rebuilds, now inside the transaction
Unindexed(ms) ==
  {r \in ms \X Version : GetActive(r[1], r[2]) /\ ~Indexed(r[1], r[2])}

\* The first DELETE starts the transaction: the remaining ids are read under
\* the lock and everything commits together
BackfillCommit(s, m, v) ==
  /\ pc[s] = "heal"
  /\ target[s] = <<m, v>>
  /\ chunks' = Reindexed({<<m, v>>} \cup Unindexed(todo[s] \ {m}))
  /\ todo' = [todo EXCEPT ![s] = {}]
  /\ Goto(s, "ready")
  /\ Forget(s)
  /\ UNCHANGED <<status, statement, linked, evidence, revisions, fts>>

BackfillDone(s) ==
  /\ pc[s] = "scan"
  /\ todo[s] = {}
  /\ Goto(s, "ready")
  /\ UNCHANGED <<tables, todo, target>>

---------------------------------------------------------------------------
(* Mutations *)

\* The defect of a memory_records table without its primary key
RowInsertableNoKey(m, v, st) == \A w \in Version : st[m][w] # "active"

\* PRIMARY KEY (id, version) and one_active_version_per_lineage, for the
\* insertion of an active row into a table whose statuses are st
RowInsertable(m, v, st) ==
  /\ st[m][v] = "none"
  /\ \A w \in Version : st[m][w] # "active"

\* The defect of inserting links without looking for another owner
EvidenceLinkableAnyOwner(m, e, ids) ==
  /\ evidence[e] = "none"
  /\ e \in ids
  /\ \A f \in ids \ {e} : evidence[f] # "none"

\* PRIMARY KEY and foreign key of the evidence tables, _validate_new_evidence,
\* and the ownership test of _insert_memory
EvidenceLinkable(m, e, ids) ==
  /\ evidence[e] = "none"
  /\ e \in ids
  /\ \A f \in ids \ {e} : evidence[f] # "none"
  /\ \A n \in Memory \ {m} : ids \cap LinkedTo(n) = {}

\* The defect of logging the event before its version numbers are known
LogNoTarget(m, operation, from, to) ==
  revisions' = [revisions EXCEPT
    ![m] = Append(@, [operation |-> operation, from |-> from, to |-> Null])]

\* _insert_revision
Log(m, operation, from, to) ==
  revisions' = [revisions EXCEPT
    ![m] = Append(@, [operation |-> operation, from |-> from, to |-> to])]

\* The defect of deleting index rows of no lineage at all
WithoutNothing(rows, m) == rows

\* DELETE FROM memory_fts / memory_semantic_chunks WHERE memory_id = ?
Without(rows, m) == {r \in rows : r[1] # m}

\* Insert evidence e, the active row <<m, v>> that links ids, and its index rows
InsertVersion(m, v, e, ids, st) ==
  /\ RowInsertable(m, v, st)
  /\ EvidenceLinkable(m, e, ids)
  /\ status' = [st EXCEPT ![m][v] = "active"]
  /\ statement' = [statement EXCEPT ![m][v] = "present"]
  /\ linked' = [linked EXCEPT ![m][v] = ids]
  /\ evidence' = [evidence EXCEPT ![e] = "present"]
  /\ fts' = Without(fts, m) \cup {<<m, v>>}
  /\ chunks' = Without(chunks, m) \cup {<<m, v>>}

\* approve: no read, one transaction; memory_lineages refuses a known id
Approve(s, m, e, ids) ==
  /\ pc[s] = "ready"
  /\ \A v \in Version : ~Exists(m, v)
  /\ InsertVersion(m, 1, e, ids, status)
  /\ Log(m, "approve", Null, 1)
  /\ UNCHANGED <<pc, todo, target>>

\* correct, supersede, delete: current = self.get_active(memory_id).  With no
\* active version the call raises and changes nothing.
ReadCurrent(s, m, v, operation) ==
  /\ pc[s] = "ready"
  /\ GetActive(m, v)
  /\ Goto(s, operation)
  /\ Remember(s, m, v)
  /\ UNCHANGED <<tables, todo>>

\* UPDATE memory_records SET status = 'superseded': the CHECK constraint
\* refuses a row whose statement is NULL.  SupersedableAlways is the defect of
\* a table without that constraint.
SupersedableAlways(m, v) == TRUE
Supersedable(m, v) == statement[m][v] = "present"
SupersededRow(m, v) == [status EXCEPT ![m][v] = "superseded"]

CorrectCommit(s, m, v, e, ids) ==
  /\ pc[s] = "correct"
  /\ target[s] = <<m, v>>
  /\ v < MaxVersion
  /\ Supersedable(m, v)
  /\ InsertVersion(m, v + 1, e, ids, SupersededRow(m, v))
  /\ Log(m, "correct", v, v + 1)
  /\ Goto(s, "ready")
  /\ Forget(s)
  /\ UNCHANGED todo

SupersedeCommit(s, m, v) ==
  /\ pc[s] = "supersede"
  /\ target[s] = <<m, v>>
  /\ Supersedable(m, v)
  /\ status' = SupersededRow(m, v)
  /\ fts' = Without(fts, m)
  /\ chunks' = Without(chunks, m)
  /\ Log(m, "supersede", v, Null)
  /\ Goto(s, "ready")
  /\ Forget(s)
  /\ UNCHANGED <<statement, linked, evidence, todo>>

\* UPDATE memory_records SET status = 'deleted', statement = NULL WHERE id = ?:
\* it names the lineage, not the version that was read.  DeletedVersion is the
\* defect of naming the version too, ClearedStatements that of a wrong value.
DeletedVersion(m, v) == [status EXCEPT ![m][v] = "deleted"]
DeletedRows(m, v) ==
  [status EXCEPT ![m] = [w \in Version |-> IF Exists(m, w) THEN "deleted" ELSE "none"]]

ClearedStatements(m) == [statement EXCEPT ![m] = [w \in Version |-> "erased"]]
NullStatements(m) == [statement EXCEPT ![m] = [w \in Version |-> "null"]]

DeleteCommit(s, m, v) ==
  /\ pc[s] = "delete"
  /\ target[s] = <<m, v>>
  /\ status' = DeletedRows(m, v)
  /\ statement' = NullStatements(m)
  /\ evidence' = [e \in Evidence |->
       IF e \in LinkedTo(m) THEN "erased" ELSE evidence[e]]
  /\ fts' = Without(fts, m)
  /\ chunks' = Without(chunks, m)
  /\ Log(m, "delete", v, Null)
  /\ Goto(s, "ready")
  /\ Forget(s)
  /\ UNCHANGED <<linked, todo>>

\* The transaction is refused by a constraint, by a validation or by the busy
\* timeout: it rolls back, and the caller gets an exception
Rollback(s) ==
  /\ pc[s] \in Mutation
  /\ Goto(s, "ready")
  /\ Forget(s)
  /\ UNCHANGED <<tables, todo>>

\* close(), an exception out of __init__, or the death of the process: an
\* uncommitted transaction never happened
Close(s) ==
  /\ pc[s] # "closed"
  /\ Goto(s, "closed")
  /\ todo' = [todo EXCEPT ![s] = {}]
  /\ Forget(s)
  /\ UNCHANGED tables

Backfill(s) ==
  \/ \E m \in Memory : BackfillSkip(s, m)
  \/ \E m \in Memory, v \in Version :
       \/ BackfillRead(s, m, v)
       \/ BackfillCount(s, m, v)
       \/ BackfillCommit(s, m, v)
  \/ BackfillDone(s)

Mutate(s) ==
  \/ \E m \in Memory, e \in Evidence, ids \in SUBSET Evidence : Approve(s, m, e, ids)
  \/ \E m \in Memory, v \in Version :
       \/ \E operation \in Mutation : ReadCurrent(s, m, v, operation)
       \/ \E e \in Evidence, ids \in SUBSET Evidence : CorrectCommit(s, m, v, e, ids)
       \/ SupersedeCommit(s, m, v)
       \/ DeleteCommit(s, m, v)
  \/ Rollback(s)

Next == \E s \in Session : OpenStore(s) \/ Backfill(s) \/ Mutate(s) \/ Close(s)

Spec == Init /\ [][Next]_vars

\* A host is in use for ever: it keeps opening the store, and a call that may not
\* commit ends (WF).  Killing it at any point stays possible, but not at the same
\* step for the same lineage in every backfill there ever is (SF).
Lasting(s) ==
  /\ WF_vars(OpenStore(s))
  /\ WF_vars(Close(s))
  /\ \A m \in Memory :
       /\ SF_vars(\E v \in Version : BackfillRead(s, m, v))
       /\ SF_vars(\E v \in Version : BackfillCount(s, m, v))
       /\ SF_vars(\E v \in Version : BackfillCommit(s, m, v))

\* One such host is enough, whatever the others do and wherever they stop
Fairness == \E s \in Session : Lasting(s)

FairSpec == Spec /\ Fairness

---------------------------------------------------------------------------
(* Safety *)

\* Whatever stale reads commit, the stored versions of a lineage are 1 .. n,
\* only the newest may be active, and a deletion covered all of them
\* (store.py 177-245: each UPDATE and INSERT uses a version read earlier).
LineageShape ==
  \A m \in Memory : \A v \in Version :
    /\ Exists(m, v) => \A w \in 1 .. v : Exists(m, w)
    /\ status[m][v] = "active" => \A w \in Version : w > v => ~Exists(m, w)
    /\ status[m][v] = "deleted" => \A w \in Version : status[m][w] \in {"none", "deleted"}

\* Once a delete revision is in the log, no version of the lineage is usable,
\* none keeps its statement, the full-text index has no row of it, and all
\* evidence ever linked to it is erased.  No later commit of a connection that
\* read the lineage before brings anything back (delete, store.py 225-247).
DeletionIsTotal ==
  \A m \in Memory : HasDeletion(m) =>
    /\ \A v \in Version : status[m][v] \in {"none", "deleted"}
    /\ \A v \in Version : statement[m][v] = "null"
    /\ \A v \in Version : <<m, v>> \notin fts
    /\ \A e \in LinkedTo(m) : evidence[e] = "erased"

\* Deleting one lineage erases nothing that another one still relies on:
\* evidence has one owner, and what a living version links is present
\* (the ownership test of _insert_memory, store.py 498-507).
ErasureStaysInLineage ==
  /\ \A m, n \in Memory : m # n => LinkedTo(m) \cap LinkedTo(n) = {}
  /\ \A m \in Memory : \A v \in Version :
       status[m][v] \in {"active", "superseded"} =>
         /\ statement[m][v] = "present"
         /\ \A e \in linked[m][v] : evidence[e] = "present"

\* The revision log explains the table: a version exists exactly when one
\* revision, and only one, created it (approve and correct, store.py 150-204).
HistoryMatchesRows ==
  \A m \in Memory : \A v \in Version :
    LET creations == {i \in DOMAIN revisions[m] : revisions[m][i].to = v}
    IN  Cardinality(creations) = IF Exists(m, v) THEN 1 ELSE 0

\* The full-text index holds no text that is not in force, and the chunk table
\* never mixes two versions of one lineage.
IndexRowsInForce ==
  /\ \A r \in fts : status[r[1]][r[2]] = "active"
  /\ \A r, q \in chunks : r[1] = q[1] => r = q

\* "Correction creates a new version; it does not mutate history in place":
\* a stored version keeps its evidence links, its text is only ever erased,
\* and an erased evidence event stays erased.
HistoryIsImmutable ==
  [][/\ \A m \in Memory : \A v \in Version : Exists(m, v) =>
          /\ Exists(m, v)'
          /\ linked'[m][v] = linked[m][v]
          /\ statement[m][v] = "null" => statement'[m][v] = "null"
     /\ \A e \in Evidence : evidence[e] = "erased" => evidence'[e] = "erased"]_vars

\* The one way text of a deleted lineage gets back into a search index is a
\* backfill that read the lineage before it was deleted.
OnlyBackfillReindexes ==
  [][\A m \in Memory : \A v \in Version :
       HasDeletion(m)' /\ <<m, v>> \in chunks' /\ <<m, v>> \notin chunks
         => \E s \in Session : pc[s] = "heal" /\ target[s] = <<m, v>>]_vars

\* design/memory-model.md 87: deletion "removes its index entries".  Not true
\* of the chunk table when an opening connection read the lineage before.
DeletionRemovesIndexEntries ==
  \A m \in Memory : HasDeletion(m) => \A v \in Version : <<m, v>> \notin chunks

---------------------------------------------------------------------------
(* What makes the safety properties inductive.  The properties look at      *)
(* tables only; these say how the tables constrain each other, and that a  *)
(* connection never holds a version that was not stored.                   *)

\* the CHECK constraint of memory_records
TextTracksStatus ==
  \A m \in Memory : \A v \in Version :
    statement[m][v] = "present" <=> status[m][v] \in {"active", "superseded"}

DeletedTogether ==
  \A m \in Memory : \A v, w \in Version :
    status[m][v] = "deleted" => status[m][w] \in {"none", "deleted"}

\* rows are never removed, so what was read once still exists
TargetExists ==
  \A s \in Session : \A m \in Memory : \A v \in Version :
    target[s] = <<m, v>> => Exists(m, v)

DeletionLeavesTombstone ==
  \A m \in Memory : HasDeletion(m) => \E v \in Version : status[m][v] = "deleted"

\* the foreign key of memory_evidence
LinksAreStored ==
  \A m \in Memory : \A v \in Version : \A e \in linked[m][v] : evidence[e] # "none"

TombstoneIsBare ==
  \A m \in Memory : \A v, w \in Version : status[m][v] = "deleted" =>
    /\ \A e \in linked[m][w] : evidence[e] = "erased"
    /\ <<m, w>> \notin fts

ErasedOnlyByDeletion ==
  \A e \in Evidence : evidence[e] = "erased" =>
    \E m \in Memory : \E v, w \in Version :
      e \in linked[m][v] /\ status[m][w] = "deleted"

OneOwner ==
  \A m, n \in Memory : \A v, w \in Version :
    m # n => linked[m][v] \cap linked[n][w] = {}

IInv ==
  /\ TypeOK
  /\ TextTracksStatus
  /\ DeletedTogether
  /\ TargetExists
  /\ DeletionLeavesTombstone
  /\ LinksAreStored
  /\ TombstoneIsBare
  /\ ErasedOnlyByDeletion
  /\ OneOwner

---------------------------------------------------------------------------
(* Liveness *)

\* A version in force that lost its chunks (a stale supersession), never had
\* any (a legacy row) or has those of an older version (a stale backfill) is
\* found by some later opening (_backfill_semantic_index_if_available).
EventuallyIndexed ==
  []<>(\A m \in Memory : \A v \in Version : status[m][v] = "active" => <<m, v>> \in chunks)

---------------------------------------------------------------------------
(* The store implements the abstract life cycle of each lineage *)

newestVersion ==
  [m \in Memory |-> Cardinality({v \in Version : Exists(m, v)})]

lineagePhase ==
  [m \in Memory |->
     IF \A v \in Version : ~Exists(m, v) THEN "absent"
     ELSE IF \E v \in Version : status[m][v] = "active" THEN "active"
     ELSE IF \E v \in Version : status[m][v] = "deleted" THEN "erased"
     ELSE "inactive"]

LC == INSTANCE Lifecycle WITH newest <- newestVersion, phase <- lineagePhase

\* Every step of every connection is a step of one lineage's life or none
ImplementsLifecycle == LC!Spec
=============================================================================
