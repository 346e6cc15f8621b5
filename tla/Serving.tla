------------------------------- MODULE Serving -------------------------------
(***************************************************************************)
(* Calls that answer from the store beside calls that change it: retrieve  *)
(* and inspect (mcp_server.py, retrieval.py) against commit_change, each   *)
(* with a connection of its own, down to the file locks of SQLite's        *)
(* rollback journal that decide who waits and who is refused.              *)
(*                                                                         *)
(* A connection that writes holds RESERVED, and PENDING from the moment it *)
(* commits; PENDING keeps new readers out and waits for the ones that are  *)
(* in.  Opening a store takes RESERVED for a moment.  Ranking leaves a     *)
(* transaction open (its temporary table), so a retrieval reads under a    *)
(* SHARED lock which it wants to upgrade when it writes its traces; SQLite *)
(* refuses that at once when another connection holds RESERVED.            *)
(*                                                                         *)
(* MemoryStore and McpServer model the tables and the proposals in full;   *)
(* here a row is its status and validity window, which they leave out, and *)
(* a lineage has a rule of its own in the scope of every call.             *)
(***************************************************************************)
EXTENDS Retrieval

CONSTANTS
  Memory,      \* lineage identifiers, ordered as the UUIDs are
  Old,         \* the lineages that exist at the beginning
  MaxVersion,  \* bound: versions per lineage
  MaxClock,    \* bound: distinct clock readings
  Call,        \* tool calls; each is made once (an inspection over its pages)
  Kinds,       \* what a call may be: inspect is a walk over pages or one lineage
  PageSize,    \* inspect's limit
  Nowhere      \* no cursor

ASSUME ServingAssumption ==
  /\ Memory \subseteq Nat \ {0} /\ IsFiniteSet(Memory) /\ Old \subseteq Memory
  /\ MaxVersion \in Nat \ {0} /\ MaxClock \in Nat \ {0} /\ PageSize \in Nat \ {0}
  /\ Kinds \in [Call -> SUBSET {"retrieve", "walk", "lineage", "create", "correct", "delete"}]
  /\ Nowhere = 0

VARIABLES
  now,      \* the clock, in Time
  rows,     \* memory_records of a lineage: its Rows by version
  step,     \* where a call is, from "idle" to "returned" or "failed"
  job,      \* what it was asked: a Request, or Nothing
  stamp,    \* committed_at of a change, at of a retrieval, or NoTime
  before,   \* history: InForce of each lineage when the call began
  todo,     \* the <<id, version>> it has read and not yet dealt with
  cursor,   \* inspect: next_cursor, a lineage or Nowhere
  answer    \* <<id, versions, versions in its revisions>> of each lineage returned

vars == <<now, rows, step, job, stamp, before, todo, cursor, answer>>

Version == 1 .. MaxVersion
Time == 1 .. MaxClock
Row == [status : {"active", "superseded", "deleted"}, from : Time, until : {NoTime} \cup Time]
Nothing == [kind |-> "none", memory |-> 0, version |-> 0, wide |-> FALSE]

Latest(m) == rows[m][Len(rows[m])]
Exists(m) == rows[m] # <<>>
Active(m) == Exists(m) /\ Latest(m).status = "active"

\* the version of a lineage that is in force; it never is again once erased
Unborn == 0
Erased == MaxVersion + 1
InForce(m) ==
  CASE Active(m) -> Len(rows[m])
    [] ~Exists(m) -> Unborn
    [] OTHER -> Erased

\* MemoryRecord's validator: a row it refuses raises out of every read that
\* comes across it
Readable(row) == row.until = NoTime \/ row.from <= row.until

LatestReadable == \A m \in Memory : Exists(m) => Readable(Latest(m))

Init ==
  /\ now = 1
  /\ rows = [m \in Memory |->
       IF m \in Old THEN <<[status |-> "active", from |-> 1, until |-> NoTime]>> ELSE <<>>]
  /\ step = [c \in Call |-> "idle"]
  /\ job = [c \in Call |-> Nothing]
  /\ stamp = [c \in Call |-> NoTime]
  /\ before = [c \in Call |-> [m \in Memory |-> Unborn]]
  /\ todo = [c \in Call |-> {}]
  /\ cursor = [c \in Call |-> Nowhere]
  /\ answer = [c \in Call |-> <<>>]

Goto(c, label) == step' = [step EXCEPT ![c] = label]
Move(c, from, to) == step[c] = from /\ Goto(c, to)

\* What a call kept is gone when it ends
Forget(c) ==
  /\ job' = [job EXCEPT ![c] = Nothing]
  /\ stamp' = [stamp EXCEPT ![c] = NoTime]
  /\ before' = [before EXCEPT ![c] = [m \in Memory |-> Unborn]]
  /\ todo' = [todo EXCEPT ![c] = {}]
  /\ cursor' = [cursor EXCEPT ![c] = Nowhere]
  /\ answer' = [answer EXCEPT ![c] = <<>>]

Raise(c) == Goto(c, "failed") /\ Forget(c) /\ UNCHANGED <<now, rows>>

\* Locks of the database file, from where the calls are
Reserved(c) == \E o \in Call \ {c} : step[o] \in {"opening", "write", "commit"}
Pending(c) == \E o \in Call \ {c} : step[o] = "commit"
Shared(c) == \E o \in Call \ {c} : step[o] = "ranked"

Tick ==
  /\ now < MaxClock
  /\ now' = now + 1
  /\ UNCHANGED <<rows, step, job, stamp, before, todo, cursor, answer>>

---------------------------------------------------------------------------
(* Every call: begin, and open a store *)

\* commit_change takes committed_at first of all; the version of its proposal
\* existed when the proposal was made
Begin(c, request) ==
  /\ Move(c, "idle", "open")
  /\ request.kind \in Kinds[c]
  /\ job' = [job EXCEPT ![c] = request]
  /\ stamp' = [stamp EXCEPT ![c] = IF request.kind \in {"create", "correct", "delete"}
                                   THEN now ELSE NoTime]
  /\ before' = [before EXCEPT ![c] = [m \in Memory |-> InForce(m)]]
  /\ UNCHANGED <<now, rows, todo, cursor, answer>>

Request ==
  {[kind |-> k, memory |-> 0, version |-> 0, wide |-> w] : k \in {"retrieve", "create"}, w \in {FALSE}}
    \cup [kind : {"walk"}, memory : {0}, version : {0}, wide : BOOLEAN]
    \cup [kind : {"lineage"}, memory : Memory, version : {0}, wide : BOOLEAN]
    \cup UNION {[kind : {"correct", "delete"}, memory : {m}, version : DOMAIN rows[m], wide : {FALSE}] :
                  m \in Memory}

\* migrate(): BEGIN IMMEDIATE, even when no migration is pending
OpenReserve(c) ==
  /\ Move(c, "open", "opening")
  /\ ~Reserved(c)
  /\ UNCHANGED <<now, rows, job, stamp, before, todo, cursor, answer>>

\* its commit has nothing to write; every version here has its chunks
OpenRelease(c) ==
  /\ Move(c, "opening", "ready")
  /\ UNCHANGED <<now, rows, job, stamp, before, todo, cursor, answer>>

\* Busy timeout, an exception, the end of the process: nothing was written
Fail(c) ==
  /\ step[c] \notin {"idle", "returned", "failed"}
  /\ Raise(c)

---------------------------------------------------------------------------
(* retrieve_memory *)

\* at = datetime.now(UTC), between the opening and the first read
StampAt(c) ==
  /\ job[c].kind = "retrieve"
  /\ step[c] = "ready" /\ stamp[c] = NoTime
  /\ stamp' = [stamp EXCEPT ![c] = now]
  /\ UNCHANGED <<now, rows, step, job, before, todo, cursor, answer>>

\* latest_records and the filters, then ranking: with anything to rank and a
\* word in the query the transaction of the temporary table stays open
Rank(c) ==
  /\ job[c].kind = "retrieve"
  /\ step[c] = "ready" /\ stamp[c] # NoTime
  /\ ~Pending(c)
  /\ LatestReadable
  /\ LET considered == {m \in Memory : Exists(m) /\ ActiveAt(Latest(m), stamp[c])}
     IN  /\ todo' = [todo EXCEPT ![c] = {<<m, InForce(m)>> : m \in considered}]
         /\ Goto(c, "plain") \/ (considered # {} /\ Goto(c, "ranked"))
  /\ UNCHANGED <<now, rows, job, stamp, before, cursor, answer>>

\* The defect of letting an upgrade wait for the other writer
NeverRefused(c) == FALSE
UpgradeRefused(c) == step[c] = "ranked" /\ Reserved(c)

\* replace_retrieval_traces: reserve, or be refused with the SHARED lock held
TraceWrite(c) ==
  /\ step[c] \in {"plain", "ranked"}
  /\ \/ UpgradeRefused(c) /\ Raise(c)
     \/ /\ ~Reserved(c)
        /\ Goto(c, "write")
        /\ UNCHANGED <<now, rows, job, stamp, before, todo, cursor, answer>>

TraceCommit(c) ==
  /\ job[c].kind = "retrieve"
  /\ Move(c, "commit", "returned")
  /\ ~Shared(c)
  /\ \E served \in SUBSET todo[c] :   \* what the query matched
       answer' = [answer EXCEPT ![c] = SetToSeq({<<s[1], {s[2]}, {}>> : s \in served})]
  /\ UNCHANGED <<now, rows, job, stamp, before, todo, cursor>>

---------------------------------------------------------------------------
(* inspect_memory *)

\* The defect of a page that begins with the cursor itself
FromCursor(c, m) == cursor[c] = Nowhere \/ m >= cursor[c]
AfterCursor(c, m) == cursor[c] = Nowhere \/ m > cursor[c]

\* _inspect_records over latest_records
Listing(c) ==
  {<<m, Len(rows[m])>> : m \in {n \in Memory :
     Exists(n) /\ (job[c].wide \/ Active(n)) /\ AfterCursor(c, n)}}

\* _inspect_records of one lineage: every version, or the active one
Lineage(c) ==
  LET m == job[c].memory
  IN  {<<m, v>> : v \in {w \in DOMAIN rows[m] : job[c].wide \/ rows[m][w].status = "active"}}

Ids(records) == {r[1] : r \in records}

\* records[:limit], the records being ordered by id
FirstPage(listing) ==
  {r \in listing : Cardinality({o \in listing : o[1] < r[1]}) < PageSize}

ReadPage(c) ==
  /\ job[c].kind = "walk"
  /\ Move(c, "ready", "paging")
  /\ ~Pending(c)
  /\ LatestReadable
  /\ LET page == FirstPage(Listing(c))
     IN  /\ todo' = [todo EXCEPT ![c] = page]
         /\ cursor' = [cursor EXCEPT ![c] =
              IF Cardinality(Listing(c)) > PageSize THEN Max(Ids(page)) ELSE Nowhere]
  /\ UNCHANGED <<now, rows, job, stamp, before, answer>>

ReadLineage(c) ==
  /\ job[c].kind = "lineage"
  /\ Move(c, "ready", "paging")
  /\ ~Pending(c)
  /\ \A v \in DOMAIN rows[job[c].memory] : Readable(rows[job[c].memory][v])
  /\ todo' = [todo EXCEPT ![c] = Lineage(c)]
  /\ UNCHANGED <<now, rows, job, stamp, before, cursor, answer>>

\* to_version of revisions_for_lineage: a row and its revision commit together.
\* RevisionsAtBegin is the defect of reading them before the rows.
RevisionsAtBegin(c, m) == 1 .. before[c][m]
RevisionsOf(c, m) == 1 .. Len(rows[m])

\* revisions_for_lineage, one lineage after the other in the order of their
\* ids, each read on its own
ReadRevisions(c) ==
  /\ step[c] = "paging" /\ todo[c] # {}
  /\ ~Pending(c)
  /\ LET m == Min(Ids(todo[c]))
         versions == {v \in Version : <<m, v>> \in todo[c]}
     IN  /\ answer' = [answer EXCEPT ![c] = Append(@, <<m, versions, RevisionsOf(c, m)>>)]
         /\ todo' = [todo EXCEPT ![c] = {r \in @ : r[1] # m}]
  /\ UNCHANGED <<now, rows, step, job, stamp, before, cursor>>

\* the response; with a next_cursor the host asks for the next page
PageEnd(c) ==
  /\ step[c] = "paging" /\ todo[c] = {}
  /\ Goto(c, IF cursor[c] = Nowhere THEN "returned" ELSE "open")
  /\ UNCHANGED <<now, rows, job, stamp, before, todo, cursor, answer>>

---------------------------------------------------------------------------
(* commit_change *)

\* The defect of carrying a proposal out on whatever version is current
TargetAny(c, v) == TRUE
TargetUnchanged(c, v) == v = job[c].version

\* _commit_proposal's check and the store's own get_active: two autocommit
\* reads that must agree (McpServer has them apart)
ReadTarget(c, v) ==
  /\ job[c].kind \in {"correct", "delete"}
  /\ Move(c, "ready", "target")
  /\ ~Pending(c)
  /\ Active(job[c].memory) /\ v = InForce(job[c].memory)
  /\ TargetUnchanged(c, v)
  /\ job' = [job EXCEPT ![c].version = v]
  /\ UNCHANGED <<now, rows, stamp, before, todo, cursor, answer>>

\* PRIMARY KEY (id, version) and the CHECK on the superseded row refuse a
\* target that is no longer in force; and the bounds
RefusedBySchema(c) ==
  \/ job[c].kind = "correct" /\
       (InForce(job[c].memory) # job[c].version \/ job[c].version = MaxVersion)
  \/ job[c].kind = "create" /\ \A m \in Memory : Exists(m)

\* the first statement of the transaction
Reserve(c) ==
  /\ \/ step[c] = "target"
     \/ step[c] = "ready" /\ job[c].kind = "create"
  /\ Goto(c, "write")
  /\ ~Reserved(c)
  /\ UNCHANGED <<now, rows, job, stamp, before, todo, cursor, answer>>

\* COMMIT, of changes and of traces
Pend(c) ==
  /\ Move(c, "write", "commit")
  /\ ~RefusedBySchema(c)
  /\ UNCHANGED <<now, rows, job, stamp, before, todo, cursor, answer>>

NewRow(c) == [status |-> "active", from |-> stamp[c], until |-> NoTime]

CreateCommit(c, m) ==
  /\ job[c].kind = "create"
  /\ ~Exists(m)
  /\ rows' = [rows EXCEPT ![m] = <<NewRow(c)>>]

CorrectCommit(c) ==
  LET m == job[c].memory  v == job[c].version
  IN  /\ job[c].kind = "correct"
      /\ rows' = [rows EXCEPT ![m] =
           Append([rows[m] EXCEPT ![v].status = "superseded", ![v].until = stamp[c]], NewRow(c))]

\* valid_until = COALESCE(valid_until, created_at), on every version there is
Erase(row, at) ==
  [row EXCEPT !.status = "deleted", !.until = IF @ = NoTime THEN at ELSE @]

DeleteCommit(c) ==
  LET m == job[c].memory
  IN  /\ job[c].kind = "delete"
      /\ rows' = [rows EXCEPT ![m] = [v \in DOMAIN rows[m] |-> Erase(rows[m][v], stamp[c])]]

ChangeCommit(c) ==
  /\ Move(c, "commit", "returned")
  /\ ~Shared(c)
  /\ \/ \E m \in Memory : CreateCommit(c, m)
     \/ CorrectCommit(c)
     \/ DeleteCommit(c)
  /\ Forget(c)
  /\ UNCHANGED now

\* the rows a read would validate
Unreadable(c) ==
  CASE job[c].kind = "retrieve" -> stamp[c] # NoTime /\ ~LatestReadable
    [] job[c].kind = "walk" -> ~LatestReadable
    [] job[c].kind = "lineage" ->
         \E v \in DOMAIN rows[job[c].memory] : ~Readable(rows[job[c].memory][v])
    [] OTHER -> FALSE

TargetChanged(c) ==
  /\ job[c].kind \in {"correct", "delete"}
  /\ ~Active(job[c].memory) \/ ~TargetUnchanged(c, InForce(job[c].memory))

\* An exception: a row that is not valid, another target, a constraint
Refused(c) ==
  /\ \/ step[c] = "ready" /\ (Unreadable(c) \/ TargetChanged(c))
     \/ step[c] = "write" /\ RefusedBySchema(c)
  /\ Raise(c)

Continue(c) ==
  \/ OpenReserve(c) \/ OpenRelease(c)
  \/ StampAt(c) \/ Rank(c) \/ TraceWrite(c) \/ TraceCommit(c)
  \/ ReadPage(c) \/ ReadLineage(c) \/ ReadRevisions(c) \/ PageEnd(c)
  \/ \E v \in Version : ReadTarget(c, v)
  \/ Reserve(c) \/ Pend(c) \/ ChangeCommit(c) \/ Refused(c)

Next ==
  \/ Tick
  \/ \E c \in Call : Continue(c) \/ Fail(c) \/ \E request \in Request : Begin(c, request)

Spec == Init /\ [][Next]_vars

\* A call that was begun is run by its thread; waiting for a lock ends when
\* the lock is free (SQLite's busy handler tries again)
FairSpec == Spec /\ \A c \in Call : WF_vars(Continue(c))

---------------------------------------------------------------------------
(* Properties *)

\* a version later than the one in force when the call began has a time the
\* call's clock reading does not include
Overtaken(c, m) ==
  \E v \in DOMAIN rows[m] : before[c][m] < v /\ stamp[c] < rows[m][v].from

\* What retrieval answers was in force at some moment of the call, whatever
\* changed between its opening, its clock reading, its read and its answer; and
\* a lineage in force at its beginning and at its end was considered, unless a
\* correction made meanwhile begins after the clock reading: its old version is
\* superseded and the new one not yet valid (retrieval.py 41-61,
\* mcp_server.py 71-78).
AnswersAreCurrent ==
  \A c \in Call : job[c].kind = "retrieve" /\ step[c] = "returned" =>
    /\ \A i \in DOMAIN answer[c] :
         \A v \in answer[c][i][2] : before[c][answer[c][i][1]] <= v
    /\ \A m \in Memory :
         before[c][m] \in Version /\ Active(m) => m \in Ids(todo[c]) \/ Overtaken(c, m)

\* Pages asked for one after the other name every lineage that was there all
\* the time, once each, in order (mcp_server.py 379-388).
WalkComplete ==
  \A c \in Call : job[c].kind = "walk" =>
    /\ \A i, j \in DOMAIN answer[c] : i < j => answer[c][i][1] < answer[c][j][1]
    /\ step[c] = "returned" =>
         \A m \in Memory :
           before[c][m] # Unborn /\ (job[c].wide \/ (before[c][m] # Erased /\ Active(m)))
             => \E i \in DOMAIN answer[c] : answer[c][i][1] = m

\* The revisions of a response, read from later snapshots than its records,
\* account for every version listed (mcp_server.py 235-249).
PagesExplained ==
  \A c \in Call : job[c].kind \in {"walk", "lineage"} =>
    \A i \in DOMAIN answer[c] : answer[c][i][2] \subseteq answer[c][i][3]

\* models.py 75: valid_until cannot precede valid_from.  Not true of what a
\* deletion leaves of a version younger than its committed_at.
EveryRowReadable ==
  \A m \in Memory : \A v \in DOMAIN rows[m] : Readable(rows[m][v])

\* The only step that leaves a row no reader can validate is a deletion that
\* was checked against an older version (store.delete, _commit_proposal).
SpoiledOnlyByStaleDelete ==
  [][\A m \in Memory :
       (\A v \in DOMAIN rows[m] : Readable(rows[m][v])) =>
         \/ \A v \in DOMAIN rows'[m] : Readable(rows'[m][v])
         \/ \E c \in Call :
              /\ step[c] = "commit" /\ step'[c] = "returned"
              /\ job[c].kind = "delete" /\ job[c].memory = m
              /\ job[c].version < Len(rows[m])]_vars

\* Every call returns or raises although the locks make it wait for others,
\* even without a busy timeout (store.py 421-447: the upgrade is refused).
CallsReturn ==
  \A c \in Call : step[c] # "idle" ~> step[c] \in {"returned", "failed"}
=============================================================================
