----------------------------- MODULE McpServer -----------------------------
(***************************************************************************)
(* The MCP tools that change memory (mcp_server.py): a call of             *)
(* propose_change, commit_change or discard_change, composed of the        *)
(* connection it opens (MemoryStore) and the proposal it stages or takes   *)
(* (ProposalLife, which ProposalStore implements with its lock and clock). *)
(*                                                                         *)
(* Several servers, one per host, run at once on one database file; each   *)
(* has its own proposals, runs its calls in worker threads, and can be     *)
(* killed at any point.  A commit checks that its target is still the      *)
(* version the user was shown, but outside the write transaction.          *)
(***************************************************************************)
EXTENDS Naturals, Sequences, FiniteSets

CONSTANTS
  Memory, Evidence, MaxVersion, Legacy,   \* as in MemoryStore
  Session,     \* tool calls that run at once, each with its own connection
  Server,      \* server processes
  ServerOf,    \* the process a call runs in
  Visible,     \* the lineages in the scope a process is configured with
  Proposal,    \* proposal identifiers
  NoProposal, NoMemory

ASSUME StoreAssumption == MaxVersion \in Nat \ {0} /\ Legacy \subseteq Memory
ASSUME ServerAssumption ==
  /\ Server # {}
  /\ ServerOf \in [Session -> Server]
  /\ Visible \in [Server -> SUBSET Memory]
ASSUME NothingAssumption == NoProposal \notin Proposal /\ NoMemory \notin Memory

VARIABLES
  status, statement, linked, evidence, revisions, fts, chunks,  \* the database
  pc, todo, target,                                             \* connections
  life,        \* what became of each proposal
  request,     \* the staged change of each proposal, and its server
  step,        \* where a tool call is
  change,      \* the change a call stages or carries out
  holding,     \* the proposal a commit took
  applied      \* <<proposal, lineage, position in its revisions>> committed

db == <<status, statement, linked, evidence, revisions, fts, chunks, pc, todo, target>>
tool == <<life, request, step, change, holding, applied>>
vars == <<db, tool>>

DB == INSTANCE MemoryStore
PL == INSTANCE ProposalLife

Change ==
  [operation: {"create"}, memory: {NoMemory}, version: {0}]
    \cup [operation: {"correct", "delete"}, memory: Memory, version: 0 .. MaxVersion]
NoChange == [operation |-> "create", memory |-> NoMemory, version |-> 0]

TypeOK ==
  /\ DB!TypeOK
  /\ life \in [Proposal -> PL!Stage]
  /\ request \in [Proposal -> [change: Change, server: Server]]
  /\ step \in [Session -> {"idle", "propose", "stage", "commit", "checked", "done",
                           "undo", "dead"}]
  /\ change \in [Session -> Change]
  /\ holding \in [Session -> Proposal \cup {NoProposal}]
  /\ applied \subseteq Proposal \X Memory \X Nat

Init ==
  /\ DB!Init
  /\ PL!Init
  /\ request = [p \in Proposal |-> [change |-> NoChange, server |-> CHOOSE k \in Server : TRUE]]
  /\ step = [s \in Session |-> "idle"]
  /\ change = [s \in Session |-> NoChange]
  /\ holding = [s \in Session |-> NoProposal]
  /\ applied = {}

Goto(s, label) == step' = [step EXCEPT ![s] = label]

\* the call returns to its host
End(s) ==
  /\ Goto(s, "idle")
  /\ change' = [change EXCEPT ![s] = NoChange]
  /\ holding' = [holding EXCEPT ![s] = NoProposal]

InScope(s, m) == m \in Visible[ServerOf[s]]

---------------------------------------------------------------------------
(* propose_change *)

\* Bound: a call proposes only while an identifier is left for its proposal
IdentifierLeft ==
  Cardinality({s \in Session : step[s] \in {"propose", "stage"}})
    < Cardinality({p \in Proposal : life[p] = "unborn"})

\* with MemoryStore(...): the connection opens, migrates and backfills
Propose(s, ch) ==
  /\ step[s] = "idle"
  /\ IdentifierLeft
  /\ DB!OpenStore(s)
  /\ Goto(s, "propose")
  /\ change' = [change EXCEPT ![s] = ch]
  /\ UNCHANGED <<life, request, holding, applied>>

\* _resolve_target, and the end of the with block
ResolveTarget(s, v) ==
  /\ step[s] = "propose"
  /\ pc[s] = "ready"
  /\ change[s].operation # "create"
  /\ DB!GetActive(change[s].memory, v)
  /\ InScope(s, change[s].memory)
  /\ DB!Close(s)
  /\ Goto(s, "stage")
  /\ change' = [change EXCEPT ![s].version = v]
  /\ UNCHANGED <<life, request, holding, applied>>

ResolveNone(s) ==
  /\ step[s] = "propose"
  /\ pc[s] = "ready"
  /\ change[s].operation = "create"
  /\ DB!Close(s)
  /\ Goto(s, "stage")
  /\ UNCHANGED <<life, request, change, holding, applied>>

\* the target is unavailable, or opening the store failed
ProposeFails(s) ==
  /\ step[s] = "propose"
  /\ DB!Close(s)
  /\ End(s)
  /\ UNCHANGED <<life, request, applied>>

\* what proposal_store.create keeps, and in which process
Asked(s) == [change |-> change[s], server |-> ServerOf[s]]

\* proposal_store.create.  The proposals it purges expire in steps of their own.
Stage(s, p) ==
  /\ step[s] = "stage"
  /\ PL!Become(p, "unborn", "open")
  /\ request' = [request EXCEPT ![p] = Asked(s)]
  /\ End(s)
  /\ UNCHANGED <<db, applied>>

---------------------------------------------------------------------------
(* commit_change *)

Take(s, p) ==
  /\ step[s] = "idle"
  /\ pc[s] = "closed"
  /\ request[p].server = ServerOf[s]
  /\ PL!Take(p)
  /\ Goto(s, "commit")
  /\ change' = [change EXCEPT ![s] = request[p].change]
  /\ holding' = [holding EXCEPT ![s] = p]
  /\ UNCHANGED <<db, request, applied>>

CommitOpen(s) ==
  /\ step[s] = "commit"
  /\ DB!OpenStore(s)
  /\ UNCHANGED tool

\* _commit_proposal's get_active and its comparison with the proposal.
\* TargetAny is the defect of not comparing the version.
TargetAny(s, v) == TRUE
TargetUnchanged(s, v) == v = change[s].version

Check(s, v) ==
  /\ step[s] = "commit"
  /\ pc[s] = "ready"
  /\ change[s].operation # "create"
  /\ DB!GetActive(change[s].memory, v)
  /\ TargetUnchanged(s, v)
  /\ Goto(s, "checked")
  /\ change' = [change EXCEPT ![s].version = v]
  /\ UNCHANGED <<db, life, request, holding, applied>>

\* store.correct and store.delete read the active version again, and
\* _validate_transition wants the one that was checked.  RereadTrusting is the
\* defect of using the check's result instead.
RereadTrusting(s) ==
  /\ step[s] = "checked"
  /\ pc[s] = "ready"
  /\ pc' = [pc EXCEPT ![s] = change[s].operation]
  /\ target' = [target EXCEPT ![s] = <<change[s].memory, change[s].version>>]
  /\ UNCHANGED <<status, statement, linked, evidence, revisions, fts, chunks, todo, tool>>

Reread(s) ==
  /\ step[s] = "checked"
  /\ DB!ReadCurrent(s, change[s].memory, change[s].version, change[s].operation)
  /\ UNCHANGED tool

\* the transaction commits as the next revision of lineage m
Applied(s, m) ==
  /\ Goto(s, "done")
  /\ applied' = applied \cup {<<holding[s], m, Len(revisions'[m])>>}
  /\ UNCHANGED <<life, request, change, holding>>

CommitCreate(s, m, e) ==
  /\ step[s] = "commit"
  /\ change[s].operation = "create"
  /\ InScope(s, m)
  /\ DB!Approve(s, m, e, {e})
  /\ Applied(s, m)

CommitCorrect(s, e) ==
  LET m == change[s].memory
      v == change[s].version
  IN  /\ step[s] = "checked"
      /\ DB!CorrectCommit(s, m, v, e, linked[m][v] \cup {e})
      /\ Applied(s, m)

CommitDelete(s) ==
  /\ step[s] = "checked"
  /\ DB!DeleteCommit(s, change[s].memory, change[s].version)
  /\ Applied(s, change[s].memory)

\* the with block and the call end
Finish(s) ==
  /\ step[s] = "done"
  /\ DB!Close(s)
  /\ PL!Commit(holding[s])
  /\ End(s)
  /\ UNCHANGED <<request, applied>>

\* anything raises: __exit__ closes the connection, and what it had not
\* committed is rolled back.  CommitFailsLate is the defect of a try block that
\* goes on after the transaction, building the response.
CommitFailsLate(s) ==
  /\ step[s] \in {"commit", "checked", "done"}
  /\ DB!Close(s)
  /\ Goto(s, "undo")
  /\ UNCHANGED <<life, request, change, holding, applied>>

CommitFails(s) ==
  /\ step[s] \in {"commit", "checked"}
  /\ \/ DB!Close(s)
     \/ pc[s] = "closed" /\ UNCHANGED db
  /\ Goto(s, "undo")
  /\ UNCHANGED <<life, request, change, holding, applied>>

\* proposal_store.restore, in time or too late
Restore(s) ==
  /\ step[s] = "undo"
  /\ PL!GiveBack(holding[s]) \/ PL!Become(holding[s], "taken", "expired")
  /\ End(s)
  /\ UNCHANGED <<db, request, applied>>

---------------------------------------------------------------------------
(* What happens without a store: rejection, expiry, the end of a process *)

\* discard_change, which answers FALSE when the proposal is not there
Discard(p) ==
  /\ PL!Discard(p) \/ (life[p] # "open" /\ UNCHANGED life)
  /\ UNCHANGED <<db, request, step, change, holding, applied>>

Expire(p) ==
  /\ PL!Become(p, "open", "expired")
  /\ UNCHANGED <<db, request, step, change, holding, applied>>

\* A process ends, in a call or between calls: its proposals are gone at once,
\* its connections one by one
Exit(k) ==
  /\ life' = [p \in Proposal |->
       IF request[p].server = k /\ life[p] \in {"open", "taken"} THEN "lost" ELSE life[p]]
  /\ step' = [s \in Session |-> IF ServerOf[s] = k THEN "dead" ELSE step[s]]
  /\ UNCHANGED <<db, request, change, holding, applied>>

\* the system closes the file of a dead process; its host starts a new one
Reap(s) ==
  /\ step[s] = "dead"
  /\ \/ DB!Close(s)
     \/ pc[s] = "closed" /\ UNCHANGED db
  /\ End(s)
  /\ UNCHANGED <<life, request, applied>>

Backfill(s) ==
  /\ step[s] \in {"propose", "commit"}
  /\ DB!Backfill(s)
  /\ UNCHANGED tool

ProposeStep(s) ==
  \/ \E v \in DB!Version : ResolveTarget(s, v)
  \/ ResolveNone(s) \/ ProposeFails(s)
  \/ \E p \in Proposal : Stage(s, p)

CommitStep(s) ==
  \/ CommitOpen(s)
  \/ \E v \in DB!Version : Check(s, v)
  \/ Reread(s)
  \/ \E m \in Memory, e \in Evidence : CommitCreate(s, m, e)
  \/ \E e \in Evidence : CommitCorrect(s, e)
  \/ CommitDelete(s) \/ Finish(s) \/ CommitFails(s) \/ Restore(s)

\* what a call that was started does
Continue(s) == ProposeStep(s) \/ CommitStep(s) \/ Backfill(s) \/ Reap(s)

Proposable == {ch \in Change : ch.version = 0}

Next ==
  \/ \E s \in Session :
       \/ \E ch \in Proposable : Propose(s, ch)
       \/ \E p \in Proposal : Take(s, p)
       \/ Continue(s)
  \/ \E p \in Proposal : Discard(p) \/ Expire(p)
  \/ \E k \in Server : Exit(k)

Spec == Init /\ [][Next]_vars

---------------------------------------------------------------------------
(* Properties *)

AppliedBy(p) == {a \in applied : a[1] = p}

\* An approval is carried out at most once, however calls, failures and ends
\* of processes interleave; a proposal reported committed is durable; and one
\* that is still open, was rejected or expired has left no trace in the
\* database (commit_change, _commit_proposal).
ApprovalCarriedOutOnce ==
  \A p \in Proposal :
    /\ Cardinality(AppliedBy(p)) <= 1
    /\ life[p] = "committed" => AppliedBy(p) # {}
    /\ AppliedBy(p) # {} =>
         \/ life[p] \in {"committed", "lost"}
         \/ life[p] = "taken" /\ \E s \in Session : step[s] = "done" /\ holding[s] = p

\* What makes it inductive: a commit holds a proposal of its own process that
\* nobody else has, and nothing is durable for it before "done".
Committing(s) == step[s] \in {"commit", "checked", "done", "undo"}

CommitsHoldTheirs ==
  /\ \A s \in Session : Committing(s) =>
       /\ holding[s] \in Proposal
       /\ life[holding[s]] = "taken"
       /\ request[holding[s]].server = ServerOf[s]
  /\ \A s, u \in Session : Committing(s) /\ Committing(u) /\ s # u => holding[s] # holding[u]

AppliedOnce ==
  /\ \A a, b \in applied : a[1] = b[1] => a = b
  /\ \A s \in Session : step[s] = "done" => \E a \in applied : a[1] = holding[s]
  /\ \A a \in applied :
       \/ life[a[1]] \in {"committed", "lost"}
       \/ life[a[1]] = "taken" /\ \E s \in Session : step[s] = "done" /\ holding[s] = a[1]
  /\ \A p \in Proposal : life[p] = "committed" => \E a \in applied : a[1] = p

CheckedTarget ==
  \A s \in Session : step[s] = "checked" =>
    /\ change[s].operation # "create"
    /\ change[s].version \in DB!Version

IInv == TypeOK /\ CheckedTarget /\ CommitsHoldTheirs /\ AppliedOnce

\* Whatever is in the revision log was approved: every revision is the work of
\* exactly one proposal, has the operation the user was asked about, and starts
\* from the version the proposal was made for (the target_version check).
EveryRevisionApproved ==
  \A m \in Memory : \A i \in DOMAIN revisions[m] :
    \/ m \in Legacy /\ i = 1
    \/ \E p \in Proposal :
         LET asked == request[p].change
         IN  /\ \A q \in Proposal : <<q, m, i>> \in applied <=> q = p
             /\ asked.version = revisions[m][i].from
             /\ asked.operation = "create" <=> revisions[m][i].operation = "approve"
             /\ asked.operation # "create" =>
                  asked.memory = m /\ asked.operation = revisions[m][i].operation

\* Every step of a tool call is a step of MemoryStore or leaves the database
\* alone, so what holds of the store holds of the running servers.
ImplementsStore == DB!Spec

\* mcp_server.py 474: a target that is no longer the version shown is refused.
\* Not true of deletions: one that was checked before a correction commits
\* erases the version the correction made.
NothingUnseenIsDeleted ==
  \A a \in applied :
    LET asked == request[a[1]].change
    IN  asked.operation = "delete" =>
          \A v \in DB!Version : DB!Exists(asked.memory, v) => v <= asked.version
=============================================================================
