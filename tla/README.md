# Memory Loom in TLA+

Memory Loom keeps approved user preferences in one SQLite file and serves them
to coding assistants through MCP servers. This directory models the parts whose
correctness depends on what happens *between* operations: several server
processes on one database, worker threads inside a process, reads that are stale
by the time they are used, processes that die. `PROJECT.json` lists the runs,
the source lines of every definition, the hazards and the theorems.

## The system

| Part | State | Operations | What makes it correct |
|---|---|---|---|
| Memory store (`store.py`, `migrations/`) | SQLite tables: lineages, versions, evidence, links, revision log, full-text and semantic index, retrieval traces | open (migrate, backfill), approve, correct, supersede, delete, load_snapshot, reads, trace writing, close | versions of a lineage stay 1..n with at most the newest active; a deletion is total and stays inside its lineage; the log explains the rows; the index follows the rows |
| Proposal store (`mcp_proposals.py`) | dictionary of staged changes under a lock, expiry times | create (purges), get, take, restore, discard | a proposal has one holder, is never forgotten while undecided, expires only when its time is over |
| MCP tools (`mcp_server.py`, `mcp_runtime.py`) | none of their own: a connection per call, the process's proposal store, a scope from the environment | retrieve, propose_change, commit_change, discard_change, inspect | each durable revision comes from one approved proposal, at most once, for the version the user was shown |
| Retrieval (`retrieval.py`, `reranking.py`) | none; writes traces | retrieve | only in-scope, active, most specific, unconflicted records; one decision per record; what is answered was in force during the call |
| Migration (`store.migrate`) | schema version, pre-migration backups | open a store of the same, an older, a newer or no schema | a database is never half migrated; a backup exists before it is changed |
| Maintenance (`maintenance.py`) | the database file, its journal, backup files | diagnose, backup, restore | a restore brings back exactly a backup; the doctor says what an opening would find |
| Context replay and runner (`replay.py`, `runner.py`, `models.py`) | the results of one run | validate, replay under four conditions, call the model, make an artifact | contexts within budget, only memories in force, one result per cell of the plan |
| Study runner (`cli.py`) | artifact files | run-study with --resume and a pool | a saved artifact stays; failures do not lose the others' |
| Blinded evaluation, model reviewer (`blinded_evaluation.py`, `model_reviewer.py`) | packet, key and checkpoint files | blind-study, review-study with --resume, analyze-study | one rating per item, none lost; a score is of the response that was rated |
| Onboarding (`onboarding.py`) | the host's registration, the project's instruction file | onboard, with --replace | the user's instructions stay; a registration changes only when asked |
| Semantic indexer, retrieval evaluation | none | chunk and embed a text; metrics | pure functions |
| JSON lines transport (`json_stdio.py`) | none | one request, one response | every error maps to a stable code |
| Contracts, providers, CLI, scripts | none | validation, external calls, dispatch | shapes, input and output; the validators that decide what a run may do are in `Replay`, `Serving` and `Pilot` |

How they interact: a host starts an MCP server process; every tool call runs in
a worker thread, opens its own connection to the shared file, and closes it.
Proposals live in the memory of one process only. Nothing coordinates the
processes but SQLite's locks. The experiment's commands share only files, which
are written in place; onboarding shares the host's configuration and the
project's instruction file with the user.

What is hard: a mutation reads the active version in autocommit mode and starts
its transaction afterwards; opening a store runs a backfill that does the same;
a commit takes its proposal out of the store, works outside the lock and gives
it back on failure; expiry is judged by a clock reading older than the lock;
a retrieval keeps a read transaction open and then wants to write; a migration,
its backup and a restore work on a file that other releases open; artifacts,
packets, checkpoints and instruction files are emptied before they are written;
a process may die anywhere.

## The modules

| Module | Models |
|---|---|
| `Lifecycle` | abstract: the life of one lineage (absent, active, inactive, erased) |
| `MemoryStore` | the tables and every step of a connection that changes them |
| `MCMemoryStore` | TLC instances of it |
| `MemoryStoreProofs` | its theorems: types and deletion, shape, history, indexes, refinement of `Lifecycle` |
| `ProposalLife` | abstract: the life of a proposal (unborn, open, taken, settled) |
| `ProposalStore` | the dictionary, the clock, the lock sections and the threads of one process |
| `ProposalStoreProofs` | its theorems |
| `McpServer` | tool calls of several processes: composes `MemoryStore` (instance `DB`) and `ProposalLife` (instance `PL`) |
| `MCMcpServer`, `McpServerProofs` | its TLC instances and theorems |
| `Retrieval` | the retriever's filters, order and decisions, as operators |
| `Serving`, `MCServing` | retrieve and inspect beside committing changes, under SQLite's locks; uses `Retrieval` |
| `ServingProofs` | its theorems |
| `SchemaLife` | abstract: what a database file goes through as its users see it |
| `Upgrade`, `MCUpgrade` | opening, migrating, backing up, restoring, diagnosing one file |
| `UpgradeProofs` | its theorems |
| `Replay`, `MCReplay` | one scenario: contract, contexts of the four conditions, the run; uses `Retrieval` |
| `ReplayProofs` | the theorems about `Replay` and `Retrieval` |
| `Study` | run-study: its pool, its artifacts, overlapping invocations |
| `Pilot` | the experiment: blind-study, review-study and analyze-study on the files of `Study` |
| `PilotProofs` | the theorems of both |
| `Onboarding`, `MCOnboarding` | onboard: the host's registration and the instruction file |
| `OnboardingProofs` | its theorems |

### MemoryStore

A connection (`Session`) is `closed`, in the backfill (`scan`, `count`,
`heal`), `ready`, or between the read and the transaction of a mutation.
`ReadCurrent` is the `get_active` at the start of correct, supersede and delete;
it remembers what it saw in `target`. The commit actions use `target`, however
old, and are guarded only by what SQLite enforces: the primary key, the unique
index of active versions, the CHECK that ties a statement to its status, foreign
keys, and the ownership test of `_insert_memory`. A transaction is one step,
because SQLite serialises writers and a refused one rolls back (`Rollback`,
which also stands for the busy timeout). `Close` is also the death of a process.

The backfill is modelled read by read. Its first write starts the transaction,
so the lineages after it are read under the lock and commit with it
(`BackfillCommit`).

Texts are reduced to their presence; an index row `<<m, v>>` is one that holds
the text of version `v`. `MaxVersion` bounds the versions of a lineage, which
only stops further corrections. `Legacy` lineages come from a release without
the semantic index.

Elsewhere: `load_scenario` is in `Replay`, traces and validity windows in
`Serving`, `migrate` in `Upgrade` (nothing is pending in this module).

### ProposalStore

Each method is two steps, the clock reading and the locked section. Time is in
ticks and does not run backwards; `Horizon` stops the clock, `Ttl` is the life
time. The commit between take and restore is one of two outcomes here; what it
does is in `McpServer`. `life` is a history variable: what became of each
proposal, as `ProposalLife` tells it.

### McpServer

A call goes through `propose`, `stage` or `commit`, `checked`, `done`, `undo`;
its connection goes through the actions of `MemoryStore`. Expiry is a step that
may happen to any open proposal, which covers every clock. `Exit` ends a process
at any point, in a call or between calls: its proposals are lost at once, its
connections close one by one.
`applied` records which revision each proposal became, for the properties only.
A scope is the set of lineages a process may see. The correction links the
evidence of the version it checked and one new event, as `_commit_proposal` does.

### Retrieval and Serving

`Retrieval` translates `retrieve` as set operators: `ScopeReason`, `ActiveAt`
(the window is closed at its beginning and open at its end), `Narrowest`,
`Conflicting`, `Rankable` (of equal records the lowest id), the order key and
`DecisionOn`, which gives each record the one decision the code gives it. A
candidate's place in the sorted list is one more than the number of candidates
whose key is before its own (`Place`). The scores in `match` are inputs: what
FTS5 and the embedding product return is outside.

In `Serving` a call has a connection of its own and one of the kinds retrieve,
walk (an inspection over all its pages), lineage, create, correct, delete. Its
`step` is also its lock: `opening` is the `BEGIN IMMEDIATE` of `migrate`,
`ranked` an open read transaction, `write` RESERVED, `commit` PENDING. So
`Reserved`, `Pending` and `Shared` are derived, not kept. A retrieval with
something to rank leaves its transaction open (the temporary ranking table), and
writing its traces is an upgrade that SQLite refuses at once when another holds
RESERVED; everything else waits. Rows are reduced to status and validity window;
the time of a change is read before it waits (`stamp`). `before` is a history
variable. `Fail` stands for the busy timeout, an exception and the end of a
process. What a call has read and not yet dealt with (`todo`) is a set of
lineages with a version; the order in which the code goes through it is that of
the identifiers, so `FirstPage` takes the records with fewer than `PageSize`
before them and `ReadRevisions` the least lineage that is left.

### SchemaLife and Upgrade

Schema n means that migrations 1..n are recorded. The file is absent, empty
(just created by a connection), sound, torn (the pages of a transaction are being
written back) or spoiled; `journal` holds what it would be rolled back to. An
opening looks for the file before any lock (`existed`), takes `BEGIN IMMEDIATE`,
checks the history, backs up under the final name in two steps, applies
migration after migration and commits in two steps (`CommitBegin` writes pages,
`CommitEnd` deletes the journal). `Crash` is possible at each. Manual backups go
through a temporary file; a restore makes its safety copy, renames, and opens.
A restore (`RestoreBegin`) assumes that the other processes are stopped, as the
guide says: nothing is shown of one under open connections.
`Diagnosis` is the doctor's verdict, written from its own code, not from
`migrate`'s. A history is one number: the code writes no history with gaps, and
what either check says of a file that something else wrote is not modelled.

`SchemaLife` is what `design/database-upgrades.md` promises: the schema moves to
the last migration of some release as a whole, data goes only by a restore, and
what a restore brings is what some backup saved. `Upgrade` implements it with the
journal's content as the database while the file is torn.

### Replay

A run is started with a scenario, a plan and what the query's words match. The
contract (`ValidScenario`, `ValidPlan`), the four contexts, `Loads`
(`load_scenario` with the constraints of the schema) and both entry points are
operators; the state machine is `run_scenario`: cell after cell in the order of
query, repeat and condition, each with a context that is assembled or not and a
model that answers, raises or returns something else. A message, summary or
record is a block of some number of tokens; a context costs `Header` more.
`Sizes` and `Messages` are recursive functions over the prefixes of a sequence,
so that they can be reasoned about. `ReplayAssumption` says of the inputs what
parsing them gives: the types of the fields, finite sets, at least one repeat,
and a condition order for each repeat.

### Study and Pilot

A study first looks at every artifact file in the manifest's order, then runs
what is missing in a pool; results are collected in any order and each is written
in place, in two steps. A run that raises ends the loop, the pool's exit waits for
the rest, and their results are dropped. An artifact is known by the study that
made it and by its outcome. `beside` (studies that ran at the same time) and
`replaced` (scenarios whose whole artifact was overwritten) are history.

`Pilot` adds the other commands. A packet and its key are sets of rows, because
they are shuffled; `Batchings` are all the ways to cut the pending items into
batches; a batch has attempts, each with a reply of exactly the items, one twice
or one missing. The checkpoint is emptied and rewritten after each batch.
`analyze-study` changes nothing, so it is an operator (`Analyzable`,
`AnalysisRows`). Blinding twice uses one packet id and one seed. What the
operator does is modelled as far as the commands ask for it: deleting a file
that `--resume` refuses.

### Onboarding

A run asks the host for the registration (any failure of that command is taken
for none), removes it with `--replace`, adds its own, rewrites the instruction
file and asks again. A registration is known by the run that made it; Codex has
one for all projects, Claude Code one for each (`SlotOf`). A host may refuse to
add a name that exists or overwrite it: both are allowed. The instruction file is
the user's text and the block; opening it empties it. The user may edit it at any
time. Identifiers, paths, executables and `--dry-run` are decided before anything
changes and are left out.

## The runs

| Run | Checks | Bounds | States |
|---|---|---|---|
| `store` | nine properties of the tables, among them `ImplementsLifecycle` | 2 lineages, one of them legacy; 2 connections; 3 versions; 3 evidence events | 55,458 |
| `store_live` | `EventuallyIndexed` | 2 lineages, both legacy; 2 connections, one of which stays in use; 2 versions; 3 evidence events | 70,009 |
| `store_backfill_race` | a deletion removes the index entries: **violated** | 1 lineage, 1 version, 2 connections | – |
| `proposals` | holders, forgetting, expiry, refinement and decision | 2 proposals, 2 threads, life time 2, clock to 4 | 294,302 |
| `mcp` | approvals carried out once, revisions approved, composition refines the store | 1 lineage, 2 processes, 3 proposals, 2 versions | 374,157 |
| `mcp_stale_delete` | an unseen version is never deleted: **violated** | two threads of one process, 2 proposals | – |
| `serving` | answers current, walks complete, revisions explain, what spoils a row, calls return | 3 calls, 3 lineages of which 2 old and the one between them new, 2 versions, clock 2, pages of 1 | 246,170 |
| `serving_unreadable` | every row is one a reader accepts: **violated** | as `serving` | – |
| `upgrade` | doctor, backups, `ImplementsSchemaLife`, openings end | releases of 2 and 3 migrations, 1 write, 2 manual backups | 260,960 |
| `replay` | budgets, memories in force, failures explained, entry points agree, plan carried out | 2 lineages in every pair of ten states, timelines of 4 events, budgets around the sizes | 386,890 |
| `onboarding` | instructions kept, registration kept, success usable | 2 runs, 1 or 2 projects with one registration, 2 faults, 1 edit | 600,230 |
| `pilot` | artifacts final, ratings kept, reviews exact, analysis of what was rated, commands end | 2 studies, 2 scenarios, 1 death, batches of 1, 2 attempts, 2 blindings, 2 reviews, 2 commands at once | 321,284 |

Why the bounds are enough. Every race on the store is between what one actor
read and what one other actor committed. Two connections give each pair of
operations in each order; three versions let a correction be stale by one
version and continue; a second lineage is needed for evidence that could be
shared and for a backfill with something left to do. Three proposals let a
lineage be created and then corrected and deleted at once. `store_live` needs a second lineage for
a backfill that ends before it comes to the one that wants it, and two legacy
ones leave an event for a correction that a stale backfill undoes; with one legacy
lineage (143,941 states) it holds as well. Two ticks of life
time and a clock of four let a call read the clock before, at and after an
expiry and act later. `mcp` has the calls in two processes, so that one may die
under the other; `mcp_stale_delete` has them in one, and `mcp` with two threads
of one process (109,448 states) holds as well.

`serving`: one call reads, one corrects or creates, one deletes or reads a
lineage; with pages of one, two old lineages and one that may be created between them, a
walk meets every change before, on and behind its cursor (with the new lineage
first in the order, 249,786 states, the run holds as well), and two clock
readings put a change before or after a retrieval's. Three calls are what a deadlock of a
reader, a waiting writer and an opening needs. `upgrade`: two releases meet in
both orders, the newer applies one migration to a database of the older and three
to a new one, so a commit between them would show. `replay`: two lineages are
what a rule conflict, a duplicate and shared evidence need; budgets lie below, at
and above the sizes. `onboarding`: two overlapping runs and one fault in each;
three runs for one project with one fault (2,109,188 states) hold as well.
`pilot`: two of each command overlap or follow each other, a batch of one makes
two batches of two items, the second attempt is the last (three in the code);
responses and failures are run, and empty responses as well (450,391 states)
hold; three studies and scenarios, two deaths and batches of two were simulated.

Deadlock is not checked where calls, inputs or invocations are used up
(`serving`, `replay`, `onboarding`, `pilot`). Symmetry is declared where
identifiers are interchangeable and nothing about liveness is checked.

### Fairness

`MemoryStore!FairSpec`: one host stays in use. It keeps opening the store and its
calls return (weak fairness of its `OpenStore` and `Close`), and the steps of its
backfill are strongly fair for each lineage: it may be killed in one backfill, but
not at the same step for the same lineage in every one there ever is. (Without
the last words a host could die each time just after it had looked at a lineage
that needs nothing, and the other would never be indexed.) Nothing is assumed of
the other connections, which may stop anywhere, nor of mutations.
`ProposalStore!FairSpec`: a call that has begun is run by its thread until it
returns; `Tick`, new calls and `Discard` are not fair. None of it assumes that a
commit succeeds.

`Serving!FairSpec`: weak fairness of `Continue`, the steps of a call that was
begun: a thread runs, and SQLite's busy handler tries again until a lock is free.
`Fail`, which includes the busy timeout, is not fair: `CallsReturn` shows that
nobody waits for ever even if nothing ever times out. `Upgrade!FairSpec`: weak
fairness of an opening's steps and strong fairness of `Lock`, because others may
take and leave the lock while the handler tries again. `Pilot!FairSpec`: weak
fairness of a process's own steps; both providers have a timeout, so every call
of a model ends. Deaths, new commands and the operator's deletions are not fair.

## What the runs found

- `store_backfill_race`: `design/memory-model.md` 87 promises that a deletion
  removes the index entries of its lineage. A process that opens the store reads
  a version, another deletes the lineage, and the first then writes chunks with
  the erased statement (`store.py` 630-639). They are not served, because
  ranking joins them with active records, but they stay in the file: later
  backfills look at active rows only. `OnlyBackfillReindexes` shows that this is
  the only way.
- `mcp_stale_delete`: `_commit_proposal` refuses a changed target
  (`mcp_server.py` 469-474), but outside the transaction, and `delete` names the
  lineage only. A correction committed in between is erased by an approval for
  the version before it. Corrections are not affected: the primary key refuses
  them (`EveryRevisionApproved`).
- `serving_unreadable`: `models.py` 75-76 says of a memory that valid_until
  cannot precede valid_from. `commit_change` takes its time first
  (`mcp_server.py` 159) and may then wait; `delete` stamps every version of the
  lineage there is by then (`store.py` 232-236), also one that was corrected in
  later. Such a row ends before it begins, its reader raises (`store.py` 657),
  and since `latest_records` reads all lineages, every later retrieval and
  inspection of that database does. `SpoiledOnlyByStaleDelete` shows that this is
  the only way.

Smaller divergences met while modelling; the properties name them as exceptions:

- A restore does not remove a journal that lies beside the file. An overwrite, of
  which `database-upgrades.md` 46-48 speaks, has none left, because its safety
  copy rolls the journal back first; but if the old file was moved away without
  its journal, the restored one is rolled back with pages that are not its own
  (`Spoil`).
- Whether a database exists is decided before the process connects (`store.py`
  44), not under the lock as `database-upgrades.md` 29-31 has it: a process that
  looked before one of an older release created the file migrates it, with what
  was stored in it meanwhile, without a backup (`UpgradesAreBackedUp`).
- The pre-migration backup is written under its final name: one that a crash cut
  short stays in the directory and cannot be restored.
- A retrieval is refused at once, without the busy timeout, when it wants to
  write its traces while another holds the write lock (`UpgradeRefused`).
- Live B3 uses the latest version of a record even if it was revised after the
  query (`contracts/v1/development-dataset-plan.md` 39,
  `design/implementation-plan.md` 34); and the live entry point refuses a query
  whose retrieval selects a forbidden memory while the runner serves it
  (`contracts/v1/README.md` 29, `EntryPointsAgree`).
- A wall clock that goes back during a run loses its artifact (`PlanCarriedOut`).
- Two overlapping studies of one directory overwrite each other's artifacts
  (`SavedIsFinal`); `--resume` does not check that an artifact belongs to the
  manifest (`cli.py` 311); a saved failure counts as complete and is not tried
  again; one empty response blocks `blind-study`.
- `review-study --resume` gives earlier ratings the name of the new model
  (`model_reviewer.py` 84) and takes a template without ratings for a review
  (`model_reviewer.py` 70). Blinding again with another seed gives new item ids,
  and a resumed review then drops every earlier rating.
- A failed `get` of the host is taken for no registration, so `onboard` may
  overwrite one without `--replace`; a replacement that fails in between leaves
  none (`RegistrationKept`); two overlapping runs, or a run and an editor, may
  lose the user's instructions (`InstructionsKept`; `design/codex-mcp.md` 74).

## What is proved

For every value of the constants that satisfies the named assumptions.

`MemoryStoreProofs`: `TypeCorrect`, `DeletionTotal`, `ErasureContained`. The
properties look at the tables; they are not inductive, because a stale
transaction may commit at any time. `IInv` adds why it cannot hurt: a statement
is present exactly in active and superseded rows, so marking a deleted row
superseded breaks the CHECK (`TextTracksStatus`); a lineage is deleted as a whole
(`DeletedTogether`); rows are never removed, so a remembered version still exists
(`TargetExists`); a delete in the log has a deleted row (`DeletionLeavesTombstone`);
a deleted lineage links erased evidence only (`TombstoneIsBare`); evidence has
one owner (`OneOwner`) and only its deletion erases it (`ErasedOnlyByDeletion`).

The second part of the module builds on them. Only six kinds of step touch the tables, and
an approval and a correction do the same to them: they insert the next version of
a lineage that was not deleted (`TableCases`, `Inserts`). `LineageShaped` needs
nothing but `IInv`: the primary key and the unique index of active versions make
a stale insertion fail. From the shape follow `HistoryImmutable`, `IndexInForce`,
`BackfillReindexes` and `HistoryExplains` (one entry of the log for each version,
counted with the finite-set theorems). `LifecycleImplemented` maps each lineage
to `Lifecycle`: its number of versions is the newest one that exists, an
insertion is one abstract correction (or the creation), a deletion one abstract
erasure, everything else a stutter.

`ProposalStoreProofs`: `HeldOnce`, `NeverForgotten`, `ExpiryReal` from an
inductive `IInv` (calls know their proposal, clock readings are not ahead of the
clock, created proposals have an expiry), and `Refinement`: the store implements
`ProposalLife`.

`McpServerProofs`: `StoreImplemented`, that every step of a tool call is a step
of `MemoryStore` or leaves it alone, so `DeletionTotalOverMcp` carries the
store's theorem over to the running servers; and `ApprovedOnce`, from the
invariant that a commit holds a proposal of its own process that nobody else
holds (`CommitsHoldTheirs`) and that applied revisions have distinct proposals
(`AppliedOnce`). `RevisionsApproved` follows every proposal from the request to
the log (`ApprovalInv`): a call that commits carries the request of the proposal
it holds (`RequestsCarried`), the store is asked for what was checked
(`OperationsMatch`), and recorded revisions are in the log (`AppliedLogged`).

`UpgradeProofs`: `UpgradesBackedUp` and `DoctorRight`. Neither property is
inductive: a step may only commit beside a backup if nothing has changed the file
since it was copied. `IInv` says what SQLite's lock gives: whoever is between
`BEGIN IMMEDIATE` and the end of its commit is the holder, with the file as it
found it and no journal, and a restore runs alone (`WritersExclude`); files,
journals, backups and drafts are settled (migrations are in exactly the ones that
have pages), a torn file has its journal (`FilesSettled`); who is applying
migrations to a file it had seen has a whole backup of it as it is
(`UpgradesSaved`). `DoctorRight` follows from `FilesSettled`: a verdict other
than an error is about a sound or absent file without a journal.
`SchemaLifeImplemented` is the refinement: with the journal as the database while
the file is torn, the pages a commit writes are a stutter and the deletion of the
journal is the abstract step. `DraftsFollow` says what that step will be: while
the pages are being written the draft is the journal's data under the release's
schema, or the journal's content and one write more, and a restore holds some
whole backup.

`PilotProofs`: `SavedFinal`, `RatingsSafe`, `ReviewsExact`, `AnalysisOfRated`,
for any number of studies, scenarios, deaths, blindings, reviews and batches.
`StudyInv`: a study holds only scenarios it has taken (`ClaimsHeld`), two that run
know of each other (`KnownBeside`), and a whole artifact of a scenario that a
study has still to write was made by one beside it (`ClaimsFresh`), because it
took the scenario when there was no file. `PilotInv`: rows and ratings are of the
artifact that is there unless it was replaced (`AllGenuine`), item ids are unique
(`AllUnique`), a later packet has every item of an earlier one (`PacketsGrow`,
because artifacts are never deleted while they are whole), and a review has what
the checkpoint has and every item rated or out for rating (`ReviewWhole`).

`OnboardingProofs`: `InstructionsAreKept`, `RegistrationsKept`,
`SuccessesAreUsable`, for any number of runs, projects, faults and edits. `IInv`
says that runs that overlap know of each other (`Met`), that what a run learnt
of the registration or made of it is still so unless a run beside it changed it
(`RegistrationsKnown`), that a registration is missing only in a replacement
(`LossExplained`), that a run is going to write back the text it read, which is
the user's last (`TextHeld`), and that the block it has written stays
(`BlockThere`).

`ServingProofs`: `AnswersCurrent`, `WalksComplete`, `PagesAreExplained` and
`SpoiledByStaleDelete`, for any number of calls, lineages and versions and any
page size. The argument has two halves. A call's own steps keep `CallInv`: a walk
has answered what lies before its cursor, in order, and a lineage it saw at the
beginning is answered, read, or behind the cursor (`Walked`); a retrieval read
versions no older than at its beginning, and ranking loses none because the
active version is open and began before the clock reading, unless a correction
stamped after it came in between (`Considered`, `Began`, `Overtaken`);
versions listed are there (`Listed`); a change is of a version that existed when
it was asked for (`Asked`). The steps of others keep it because tables only grow
(`Grown`: versions stay, what is in force never goes back, what is deleted stays
so), because nobody commits beside a commit (`OneWriter`), and because only the
newest version of a lineage is open (`RowsShaped`). Least and greatest elements
and pages are lemmas of their own (`Least`, `Greatest`, `PageFacts`), from the
well-foundedness of the naturals and the cardinality theorems; they need that
`Memory` is finite, which a table is.

`ReplayProofs`: `ContextsFitTheBudget`, `ShownMemoriesInForce`,
`OnlyKnownFailures`, `EntryPointsAgreeAlways`, `PlanCarriedOutInFull`, for any
scenarios, plans, scores, budgets and limits; all from `ReplayInvariant`: the
i-th result is that of the i-th cell of the plan with the context of that cell.

- The run. A cell's number and its query, repeat and place in the order determine
  each other (`Number`, `QueryAt`, `RepeatAt`, `PlaceAt`), by lemmas about
  division; so the results of a query and a repeat are four numbers in a row, and
  counting them gives the condition. No result is refused by the contract
  (`ResultOK`), so only the clock can lose a run.
- The retriever. An eligible record that is narrowest, unconflicted and the least
  of its equals is the only rankable one of its rule (`RankedInForce`). The order
  keys are a strict total order on records with distinct ids, so counting gives
  the candidates the places 1..n (`Places`, `CandidatesPlaced`), of which those
  within the limit are again 1..k. Hence the decisions of a retrieval satisfy the
  contract of recorded decisions (`RetrievedSound`), which is what the live entry
  point validates and the runner does not; both then assemble the same contexts
  unless a forbidden memory was selected (`LiveAgrees`).
- The contexts. Where an induction is wanted (the size of a longer prefix, what
  the messages of a timeline are) the proof takes the least number at which the
  claim fails, from the well-foundedness of the naturals (`Least`); the library's
  induction theorems cannot be instantiated here. `NewestFits` says that the
  suffix kept fits and that one message more would not, `StructuredMemoryGives`
  that structured memory assembles whenever every selected record is active and
  in scope.

Some outcomes are bad and the code has them; a property then says what alone can
cause them, and names the cause as an exception. `RatingsKept` lets a death lose
ratings only while the checkpoint is empty, `PlanCarriedOut` lets only the clock
lose a run, `SavedIsFinal` lets only an overlapping study replace an artifact,
and `UpgradesAreBackedUp` lets only a process that looked for the database before
another created it migrate it without a backup. In `CallsReturn`
a call that is refused as busy has ended.

Only model-checked: liveness (`EventuallyIndexed`, `TakenIsDecided`,
`CallsReturn`, `OpeningsEnd`, `CommandsEnd`), which the prover does not do under
fairness. Every other property of a passing run is a theorem.

## Not modelled

- The semantic indexer (chunks and hashed embeddings) and retrieval evaluation:
  pure functions of texts and metrics over decisions. The store keeps chunk rows,
  which are in `MemoryStore`.
- Adjudication of several ratings, metrics, contrasts and the bootstrap of
  `analyze_pilot`, and its report: statistics over the rows that `Pilot` joins.
- The JSON lines transport: one request at a time, no state of its own.
- Providers: a call of a process or of HTTP. Callers see an answer, an exception
  or something else, within a timeout.
- What the SQL of a migration does to the tables, FTS5's matching, the doctor's
  checks of permissions, FTS5 and hosts, schema export, release scripts.

## Plan

1. Chunking and the adjudication of ratings as functions against reference
   definitions, by TLC over short texts and few ratings; that chunks cover a text
   with the overlap asked for, as a lemma.
2. That `Serving` answers what `Retrieval` decides for rules and scopes as well
   (its rows are reduced to status and window), from the lemmas of `ReplayProofs`.

Functions in modules with theorems are recursive functions or folds, never
RECURSIVE operators.
