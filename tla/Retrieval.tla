------------------------------ MODULE Retrieval ------------------------------
(***************************************************************************)
(* What the retriever decides about each record (retrieval.py and          *)
(* reranking.py), as operators: the filters before ranking, the order of   *)
(* the candidates, and one decision per record.                            *)
(*                                                                         *)
(* A record has an id, a scope, a rule key, a statement, a status and a    *)
(* validity window.  Text matching is outside: match.lexical and           *)
(* match.semantic are the scores, in whole numbers, of the ids the query   *)
(* matches (FTS5 and the embedding product); a lower lexical score is a    *)
(* better one.                                                             *)
(***************************************************************************)
EXTENDS Integers, Sequences, FiniteSets, SequencesExt

NoTime == 0       \* a NULL valid_until
None == "none"    \* a NULL project or task of a scope, and no scope mismatch

\* _scope_filter_reason
ScopeReason(scope, wanted) ==
  IF scope.user # wanted.user THEN "user-scope-mismatch"
  ELSE IF scope.project \notin {None, wanted.project} THEN "project-scope-mismatch"
  ELSE IF scope.task \notin {None, wanted.task} THEN "task-scope-mismatch"
  ELSE None

\* The defect of excluding a record from the very instant it becomes valid
ActiveAfter(record, at) ==
  /\ record.status = "active"
  /\ record.from < at
  /\ record.until = NoTime \/ at < record.until

\* _active_at
ActiveAt(record, at) ==
  /\ record.status = "active"
  /\ record.from <= at
  /\ record.until = NoTime \/ at < record.until

StateReason(record) ==
  CASE record.status = "deleted" -> "deleted-record"
    [] record.status = "superseded" -> "superseded-record"
    [] OTHER -> "outside-validity-window"

Specificity(scope) ==
  1 + Cardinality({part \in {"project", "task"} : scope[part] # None})

---------------------------------------------------------------------------
(* Filters before ranking *)

Eligible(records, scope, at) ==
  {r \in records : ScopeReason(r.scope, scope) = None /\ ActiveAt(r, at)}

SameRule(records, r) == {o \in records : o.rule = r.rule}

\* The defect of looking for narrower rules among all the records
NarrowestOfAll(eligible, r) == \A o \in eligible : Specificity(o.scope) <= Specificity(r.scope)

\* most_specific
Narrowest(eligible, r) ==
  \A o \in SameRule(eligible, r) : Specificity(o.scope) <= Specificity(r.scope)

\* specific_records of a rule
Specific(eligible, r) == {o \in SameRule(eligible, r) : Narrowest(eligible, o)}

Conflicting(eligible, r) ==
  Cardinality({o.statement : o \in Specific(eligible, r)}) > 1

\* The defect of ranking all of several equal records
RankableEach(eligible) ==
  {r \in eligible : Narrowest(eligible, r) /\ ~Conflicting(eligible, r)}

\* the one of several equal records that is ranked
Rankable(eligible) ==
  {r \in eligible :
     /\ Narrowest(eligible, r)
     /\ ~Conflicting(eligible, r)
     /\ \A o \in Specific(eligible, r) : r.id <= o.id}

---------------------------------------------------------------------------
(* Ranking *)

Candidates(rankable, match) ==
  {r \in rankable : r.id \in DOMAIN match.lexical \cup DOMAIN match.semantic}

\* _candidate_score
Score(r, match) ==
  IF r.id \in DOMAIN match.lexical THEN match.lexical[r.id] ELSE -match.semantic[r.id]

\* _candidate_reason
MatchReason(r, match) ==
  CASE r.id \in DOMAIN match.lexical \cap DOMAIN match.semantic -> "hybrid-score"
    [] r.id \notin DOMAIN match.lexical -> "semantic-score"
    [] OTHER -> "highest-lexical-score"

\* _lexical_order_key
OrderKey(r, match) ==
  <<IF r.id \in DOMAIN match.lexical THEN 0 ELSE 1,
    Score(r, match),
    IF r.id \in DOMAIN match.semantic THEN -match.semantic[r.id] ELSE 0,
    -Specificity(r.scope), -r.from, r.id>>

KeyBefore(k, l) ==
  \E i \in DOMAIN k : k[i] < l[i] /\ \A j \in 1 .. i - 1 : k[j] = l[j]

\* LexicalScoreReranker.rerank: where a candidate is once they are sorted
Place(candidates, r, match) ==
  1 + Cardinality({o \in candidates : KeyBefore(OrderKey(o, match), OrderKey(r, match))})

---------------------------------------------------------------------------
(* LexicalRetriever.retrieve *)

Decision(eligible, decision, reason, position) ==
  [eligible |-> eligible, decision |-> decision, reason |-> reason, position |-> position]

\* the decision on one record, where position 0 is None
DecisionOn(r, records, scope, at, match, limit) ==
  LET eligible == Eligible(records, scope, at)
      rankable == Rankable(eligible)
      candidates == Candidates(rankable, match)
      place == Place(candidates, r, match)
  IN  CASE ScopeReason(r.scope, scope) # None ->
             Decision(FALSE, "scope_filtered", ScopeReason(r.scope, scope), 0)
        [] ScopeReason(r.scope, scope) = None /\ ~ActiveAt(r, at) ->
             Decision(FALSE, "state_filtered", StateReason(r), 0)
        [] r \in eligible /\ ~Narrowest(eligible, r) ->
             Decision(TRUE, "specificity_filtered", "narrower-rule-match", 0)
        [] r \in eligible /\ Narrowest(eligible, r) /\ Conflicting(eligible, r) ->
             Decision(TRUE, "conflict_filtered", "equal-scope-conflict", 0)
        [] r \in eligible \ rankable /\ Narrowest(eligible, r) /\ ~Conflicting(eligible, r) ->
             Decision(TRUE, "conflict_filtered", "duplicate-rule-collapsed", 0)
        [] r \in rankable \ candidates ->
             Decision(TRUE, "lexical_filtered", "no-hybrid-match", 0)
        [] r \in candidates ->
             IF place <= limit THEN Decision(TRUE, "selected", MatchReason(r, match), place)
                               ELSE Decision(TRUE, "budget_filtered", "result-limit", 0)

\* decisions[record.id]
Decide(records, scope, at, match, limit) ==
  [id \in {r.id : r \in records} |->
     DecisionOn(CHOOSE r \in records : r.id = id, records, scope, at, match, limit)]
=============================================================================
