------------------------------- MODULE Replay -------------------------------
(***************************************************************************)
(* Replaying one scenario under the four conditions of the experiment      *)
(* (runner.py, replay.py): the scenario is validated (models.py), each     *)
(* query is replayed for each repeat under B0 (no memory), B1 (recent      *)
(* history), B2 (rolling summary) and B3 (structured memory), the model is *)
(* called with the context assembled, and the results make an artifact.    *)
(*                                                                         *)
(* B3 takes its memories from the retriever over a store loaded with the   *)
(* scenario (live), or from the decisions the scenario records (frozen).   *)
(* A message, a summary and a record carry the size of their block in      *)
(* tokens; the tokens of a context are those of its header and blocks.     *)
(***************************************************************************)
EXTENDS Retrieval

CONSTANTS
  Inputs,          \* what a run may be started with: [doc, plan, text]
  Configuration,   \* the manifest, model and prompts of this program
  Header,          \* tokens of a condition's header
  Limit            \* how many records retrieval selects (limit = 5)

VARIABLES
  input,      \* the documents of the run and what the query matches
  step,       \* "start", "running", "done", "refused" or "lost"
  results,    \* the ConditionRunResults so far
  clockBack   \* the wall clock at the end was behind the one at the start

vars == <<input, step, results, clockBack>>

Conditions == {"B0", "B1", "B2", "B3"}

doc == input.doc
plan == input.plan
text == input.text

Scopes == [user : STRING, project : STRING, task : STRING]

\* what has been parsed as a scenario has these fields, of these types
Parsed(d) ==
  /\ DOMAIN d = {"id", "timeline", "summaries", "evidence", "records", "revisions",
                 "decisions", "queries"}
  /\ d.timeline \in Seq([event : Int, sequence : Int, kind : STRING, size : Nat])
  /\ d.summaries \in Seq([id : Int, through : Int, size : Nat])
  /\ d.queries \in Seq([id : STRING, after : Int, at : Int, scope : Scopes,
                        forbidden : SUBSET Int])
  /\ IsFiniteSet(d.records)
  /\ \A r \in d.records : {r.id, r.version, r.from} \subseteq Int /\ r.size \in Nat
  /\ IsFiniteSet(d.decisions)

\* RunManifest, and what a search returns
Planlike(p) ==
  /\ {p.repeats, p.budget} \subseteq Nat /\ p.repeats > 0 /\ p.seed \in Nat
  /\ p.order \in [1 .. p.repeats -> Seq(STRING)]

Scored(match) ==
  /\ match.lexical \in [DOMAIN match.lexical -> Int]
  /\ match.semantic \in [DOMAIN match.semantic -> Int]

ASSUME ReplayAssumption ==
  /\ {Header, Limit} \subseteq Nat
  /\ \A in \in Inputs : Parsed(in.doc) /\ Planlike(in.plan) /\ Scored(in.text)

---------------------------------------------------------------------------
(* The contract of a scenario *)

\* MemoryRecord.statement_matches_state
RecordOK(r) ==
  /\ r.status = "deleted" <=> r.statement = None
  /\ r.until # NoTime => r.from <= r.until

\* RetrievalDecision.decision_fields_are_consistent
DecisionOK(d) ==
  /\ IF d.decision = "selected" THEN d.eligible /\ d.scored /\ d.position > 0
                                ELSE d.position = 0
  /\ IF d.decision \in {"scope_filtered", "state_filtered"}
     THEN ~d.eligible /\ ~d.scored
     ELSE d.eligible
  /\ d.decision \in {"specificity_filtered", "conflict_filtered", "lexical_filtered"} => ~d.scored
  /\ d.decision = "budget_filtered" => d.scored

TimelineOK(timeline) ==
  \A i, j \in DOMAIN timeline : i < j =>
    timeline[i].sequence < timeline[j].sequence /\ timeline[i].event # timeline[j].event

LastSequence(s) == Max({e.sequence : e \in ToSet(s.timeline)})

MemoryIds(s) == {r.id : r \in s.records}

\* what is known without looking for evidence that two lineages cite
EvidenceKnown(s) ==
  \A r \in s.records : \A e \in r.evidence :
    /\ e \in DOMAIN s.evidence
    /\ r.status = "deleted" => s.evidence[e] = "erased"

EvidenceOK(s) ==
  /\ EvidenceKnown(s)
  /\ \A r, o \in s.records : r.evidence \cap o.evidence # {} => r.id = o.id

RecordsOK(s) ==
  /\ \A r \in s.records : RecordOK(r)
  /\ \A r, o \in s.records : r.id = o.id /\ r.version = o.version => r = o
  /\ \A v \in s.revisions : v.memory \in MemoryIds(s) /\ v.evidence \subseteq DOMAIN s.evidence

QueriesOK(s) ==
  /\ \A i, j \in DOMAIN s.queries : s.queries[i].id = s.queries[j].id => i = j
  /\ \A q \in ToSet(s.queries) :
       q.after <= LastSequence(s) /\ q.forbidden \subseteq MemoryIds(s)
  /\ \A summary \in ToSet(s.summaries) : summary.through <= LastSequence(s)

Selected(s, q) == {d \in s.decisions : d.query = q.id /\ d.decision = "selected"}

DecisionsOK(s) ==
  /\ \A d \in s.decisions :
       /\ DecisionOK(d)
       /\ d.memory \in MemoryIds(s)
       /\ \E q \in ToSet(s.queries) : q.id = d.query
  /\ \A c, d \in s.decisions : c.query = d.query /\ c.memory = d.memory => c = d
  /\ \A q \in ToSet(s.queries) :
       /\ {d.position : d \in Selected(s, q)} = 1 .. Cardinality(Selected(s, q))
       /\ \A d \in Selected(s, q) : d.memory \notin q.forbidden

\* Scenario.references_and_lifecycle_are_consistent
ValidScenario(s) ==
  /\ TimelineOK(s.timeline)
  /\ RecordsOK(s)
  /\ EvidenceOK(s)
  /\ QueriesOK(s)
  /\ DecisionsOK(s)

\* RunManifest's validator and _validate_configuration
ValidPlan(s, p) ==
  /\ s.id \in p.scenarios
  /\ p.recorded = Configuration
  /\ \A repeat \in 1 .. p.repeats :
       Len(p.order[repeat]) = 4 /\ ToSet(p.order[repeat]) = Conditions

---------------------------------------------------------------------------
(* The contexts of the four conditions *)

Failed == [status |-> "failed"]

\* the tokens of the first n blocks
Sizes(blocks) ==
  LET upTo[n \in 0 .. Len(blocks)] == IF n = 0 THEN 0 ELSE upTo[n - 1] + blocks[n].size
  IN  upTo

\* _serialize_blocks and count_tokens
Tokens(blocks) == IF blocks = <<>> THEN 0 ELSE Header + Sizes(blocks)[Len(blocks)]

Context(blocks, ids) == [status |-> "assembled", tokens |-> Tokens(blocks), ids |-> ids]

\* a context over the budget is refused (_replay_condition)
Within(context, budget) ==
  IF context.status = "assembled" /\ context.tokens > budget THEN Failed ELSE context

\* the messages due among the first n events
Messages(timeline, q) ==
  LET upTo[n \in 0 .. Len(timeline)] ==
        IF n = 0 THEN <<>>
        ELSE IF timeline[n].kind = "message" /\ timeline[n].sequence <= q.after
        THEN Append(upTo[n - 1], timeline[n])
        ELSE upTo[n - 1]
  IN  upTo

History(timeline, q) == Messages(timeline, q)[Len(timeline)]

\* The defect of passing over a message that does not fit and going on
NewestThatFit(messages, budget) ==
  FoldRight(LAMBDA m, kept : IF Tokens(<<m>> \o kept) <= budget THEN <<m>> \o kept ELSE kept,
            messages, <<>>)

\* the longest suffix within the budget
Newest(messages, budget) ==
  LET From(n) == SubSeq(messages, n, Len(messages))
  IN  From(Min({n \in 1 .. Len(messages) + 1 : Tokens(From(n)) <= budget}))

\* _recent_history_context
RecentHistory(timeline, q, budget) ==
  LET kept == Newest(History(timeline, q), budget)
  IN  Context(kept, [i \in DOMAIN kept |-> kept[i].event])

\* _rolling_summary_context: the first of the newest that are due
RollingSummary(summaries, q) ==
  LET due == {i \in DOMAIN summaries : summaries[i].through <= q.after}
      newest == {i \in due : \A j \in due : summaries[j].through <= summaries[i].through}
      shown == summaries[Min(newest)]
  IN  IF due = {} THEN Context(<<>>, <<>>) ELSE Context(<<shown>>, <<shown.id>>)

\* build_structured_memory_context: the longest prefix within the budget
Structured(records, budget) ==
  LET UpTo(n) == SubSeq(records, 1, n)
      kept == UpTo(Max({n \in 0 .. Len(records) : Tokens(UpTo(n)) <= budget}))
  IN  Context(kept, [i \in DOMAIN kept |-> kept[i].id])

Latest(records) == {r \in records : \A o \in records : o.id = r.id => o.version <= r.version}

\* _structured_memory_context
StructuredMemory(s, q, budget) ==
  LET at(n) == CHOOSE d \in Selected(s, q) : d.position = n
      record(n) == CHOOSE r \in Latest(s.records) : r.id = at(n).memory
      chosen == [n \in 1 .. Cardinality(Selected(s, q)) |-> record(n)]
  IN  IF \E r \in ToSet(chosen) : r.status # "active" \/ ScopeReason(r.scope, q.scope) # None
      THEN Failed
      ELSE Structured(chosen, budget)

---------------------------------------------------------------------------
(* Live retrieval *)

\* store.load_scenario: the constraints of the tables and of _insert_memory
Loads(s) ==
  /\ \A r, o \in s.records :
       /\ r.id = o.id /\ r.status = "active" /\ o.status = "active" => r = o
       /\ r.evidence \cap o.evidence # {} => r.id = o.id
  /\ \A r \in s.records : r.evidence \subseteq DOMAIN s.evidence

\* The defect of recording the lexical score alone as a decision's score
RetrievedLexically(s, q, match) ==
  LET decided == Decide(Latest(s.records), q.scope, q.at, match, Limit)
  IN  {[query |-> q.id, memory |-> m, eligible |-> decided[m].eligible,
        decision |-> decided[m].decision, position |-> decided[m].position,
        scored |-> decided[m].position > 0 /\ m \in DOMAIN match.lexical] :
       m \in DOMAIN decided}

\* the retriever's decisions on the records of the loaded store
Retrieved(s, q, match) ==
  LET decided == Decide(Latest(s.records), q.scope, q.at, match, Limit)
  IN  {[query |-> q.id, memory |-> m, eligible |-> decided[m].eligible,
        decision |-> decided[m].decision, position |-> decided[m].position,
        scored |-> decided[m].decision \in {"selected", "budget_filtered"}] :
       m \in DOMAIN decided}

\* the document with the decisions of the query replaced by the retriever's
Redecided(s, q, match) ==
  [s EXCEPT !.decisions = {d \in @ : d.query # q.id} \cup Retrieved(s, q, match)]

\* replay_query_context
Replayed(s, q, condition, match, budget, frozen) ==
  CASE condition = "B0" -> Context(<<>>, <<>>)
    [] condition = "B1" -> Within(RecentHistory(s.timeline, q, budget), budget)
    [] condition = "B2" -> Within(RollingSummary(s.summaries, q), budget)
    [] condition = "B3" /\ frozen -> Within(StructuredMemory(s, q, budget), budget)
    [] condition = "B3" /\ ~frozen ->
         IF Loads(s)
         THEN Within(StructuredMemory(Redecided(s, q, match), q, budget), budget)
         ELSE Failed

\* replay_query_contexts: one condition that fails fails the call
AllReplayed(s, q, match, budget) ==
  IF \E c \in Conditions : Replayed(s, q, c, match, budget, TRUE) = Failed
  THEN Failed
  ELSE [c \in Conditions |-> Replayed(s, q, c, match, budget, TRUE)]

\* replay_query_contexts_live: the document is validated again once redecided
LiveContexts(s, q, match, budget) ==
  IF Loads(s) /\ ValidScenario(Redecided(s, q, match))
  THEN AllReplayed(Redecided(s, q, match), q, match, budget)
  ELSE Failed

---------------------------------------------------------------------------
(* run_scenario *)

Init ==
  /\ input \in Inputs
  /\ step = "start"
  /\ results = <<>>
  /\ clockBack = FALSE

Accepted == ValidScenario(doc) /\ ValidPlan(doc, plan)

Refuse ==
  /\ step = "start"
  /\ ~Accepted
  /\ step' = "refused"
  /\ UNCHANGED <<input, results, clockBack>>

Begin ==
  /\ step = "start"
  /\ Accepted
  /\ step' = "running"
  /\ UNCHANGED <<input, results, clockBack>>

Planned == Len(doc.queries) * plan.repeats * 4

\* The defect of giving each call a seed of its own
CellOwnSeed(n) ==
  LET repeat == 1 + (((n - 1) \div 4) % plan.repeats)
  IN  [query |-> doc.queries[1 + ((n - 1) \div (4 * plan.repeats))],
       repeat |-> repeat,
       seed |-> plan.seed + n - 1,
       condition |-> plan.order[repeat][1 + ((n - 1) % 4)]]

\* for query, for repeat, for condition in its order
Cell(n) ==
  LET repeat == 1 + (((n - 1) \div 4) % plan.repeats)
  IN  [query |-> doc.queries[1 + ((n - 1) \div (4 * plan.repeats))],
       repeat |-> repeat,
       seed |-> plan.seed + repeat - 1,
       condition |-> plan.order[repeat][1 + ((n - 1) % 4)]]

ContextOf(cell) ==
  Replayed(doc, cell.query, cell.condition, text, plan.budget, plan.frozen)

\* what a ConditionRunResult keeps of a cell; stage is None when it completed
Result(cell, context, stage, timed) ==
  [query |-> cell.query.id, repeat |-> cell.repeat, seed |-> cell.seed,
   condition |-> cell.condition, context |-> context, stage |-> stage, timed |-> timed]

\* ConditionRunResult.outcome_fields_are_consistent
ResultOK(result) ==
  /\ (result.stage = "context_assembly") <=> (result.context = Failed)
  /\ result.stage # "context_assembly" => result.timed

\* a result the contract refuses ends the run: nothing catches it
Append1(result) ==
  /\ IF ResultOK(result)
     THEN results' = Append(results, result) /\ step' = step
     ELSE results' = results /\ step' = "lost"
  /\ UNCHANGED <<input, clockBack>>

Due == step = "running" /\ Len(results) < Planned

AssemblyFails ==
  /\ Due
  /\ LET cell == Cell(Len(results) + 1)
     IN  /\ ContextOf(cell) = Failed
         /\ Append1(Result(cell, Failed, "context_assembly", FALSE))

\* generate answers (None), raises, or returns something else
ModelStages == {None, "model_invocation", "output_capture"}

CallModel(stage) ==
  /\ Due
  /\ LET cell == Cell(Len(results) + 1)
     IN  /\ ContextOf(cell) # Failed
         /\ Append1(Result(cell, ContextOf(cell), stage, TRUE))

\* RunArtifact refuses completed_at < started_at, and the results go with it
Finish ==
  /\ step = "running"
  /\ Len(results) = Planned
  /\ \E back \in BOOLEAN :
       /\ clockBack' = back
       /\ step' = IF back THEN "lost" ELSE "done"
  /\ UNCHANGED <<input, results>>

Next ==
  \/ Refuse \/ Begin
  \/ AssemblyFails
  \/ \E stage \in ModelStages : CallModel(stage)
  \/ Finish

Spec == Init /\ [][Next]_vars

---------------------------------------------------------------------------
(* Properties *)

QueryOf(result) == CHOOSE q \in ToSet(doc.queries) : q.id = result.query

Assembled(condition) ==
  {r \in ToSet(results) : r.condition = condition /\ r.context # Failed}

\* Every context is within the budget, and recent history is what it says:
\* the newest messages before the query with no gap between them, and as many
\* of them as fit (newest-complete-contiguous-suffix; replay.py:163-191).
ContextsFit ==
  /\ \A r \in ToSet(results) : r.context # Failed => r.context.tokens <= plan.budget
  /\ \A r \in Assembled("B1") :
       LET history == History(doc.timeline, QueryOf(r))
           n == Len(history) - Len(r.context.ids)
       IN  /\ \A i \in DOMAIN r.context.ids : r.context.ids[i] = history[n + i].event
           /\ n > 0 => r.context.tokens + history[n].size
                          + (IF r.context.ids = <<>> THEN Header ELSE 0) > plan.budget

\* A memory that live B3 shows the model is in force at the query and in its
\* scope, no other memory shown is of its rule, and no eligible memory of its
\* rule is narrower or says otherwise as narrowly (retrieval.py:41-120).
MemoriesInForce ==
  ~plan.frozen => \A result \in Assembled("B3") :
    LET q == QueryOf(result)
        now == Latest(doc.records)
        shown == {r \in now : r.id \in ToSet(result.context.ids)}
        usable == {r \in now : ScopeReason(r.scope, q.scope) = None /\ ActiveAt(r, q.at)}
    IN  \A r \in shown :
          /\ r \in usable
          /\ \A o \in shown : o.rule = r.rule => o = r
          /\ \A o \in usable : o.rule = r.rule =>
               \/ Specificity(o.scope) < Specificity(r.scope)
               \/ Specificity(o.scope) = Specificity(r.scope) /\ o.statement = r.statement

\* Once a scenario is accepted its contexts fail to assemble only where the
\* contract is weaker than the replay: B2 when the newest summary is over the
\* budget, live B3 when a lineage has two active versions, frozen B3 when a
\* recorded selection is no longer active or is out of scope.
AssemblyFailuresExplained ==
  \A r \in ToSet(results) : r.context = Failed =>
    LET q == QueryOf(r)
        due == {s \in ToSet(doc.summaries) : s.through <= q.after}
    IN  \/ /\ r.condition = "B2"
           /\ \E s \in due : /\ \A o \in due : o.through <= s.through
                             /\ Header + s.size > plan.budget
        \/ /\ r.condition = "B3" /\ ~plan.frozen
           /\ \E a, b \in doc.records :
                a # b /\ a.id = b.id /\ a.status = "active" /\ b.status = "active"
        \/ /\ r.condition = "B3" /\ plan.frozen
           /\ \E d \in Selected(doc, q), m \in Latest(doc.records) :
                /\ d.memory = m.id
                /\ m.status # "active" \/ ScopeReason(m.scope, q.scope) # None

\* The two ways to replay a query live (replay.py:37 and the runner's
\* replay.py:64) assemble the same contexts, except that the first refuses
\* the query when one condition fails or a forbidden memory is retrieved.
EntryPointsAgree ==
  step = "running" /\ results = <<>> => \A q \in ToSet(doc.queries) :
    LET alone == [c \in Conditions |-> Replayed(doc, q, c, text, plan.budget, FALSE)]
        forbidden == {d \in Retrieved(doc, q, text) :
                        d.decision = "selected" /\ d.memory \in q.forbidden}
    IN  LiveContexts(doc, q, text, plan.budget) =
          IF forbidden # {} \/ \E c \in Conditions : alone[c] = Failed
          THEN Failed ELSE alone

\* A run that ends well holds one result for each query, repeat and condition,
\* the conditions of a repeat in its order and with the same seed, whatever
\* failed on the way; it ends without an artifact only if the wall clock went
\* back (runner.py:103-140, models.py:556-575).
PlanCarriedOut ==
  /\ step = "done" =>
       \A q \in ToSet(doc.queries), repeat \in 1 .. plan.repeats :
         LET own == {i \in DOMAIN results :
                       results[i].query = q.id /\ results[i].repeat = repeat}
             place(i) == Cardinality({j \in own : j <= i})
         IN  /\ Cardinality(own) = 4
             /\ \A i \in own :
                  /\ results[i].condition = plan.order[repeat][place(i)]
                  /\ results[i].seed = plan.seed + repeat - 1
  /\ step = "lost" => clockBack
=============================================================================
