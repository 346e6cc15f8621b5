------------------------------ MODULE MCReplay ------------------------------
EXTENDS Replay

Scope(project) == [user |-> "u1", project |-> project, task |-> None]

Message(event, sequence, size) ==
  [event |-> event, sequence |-> sequence, kind |-> "message", size |-> size]

Approval(event, sequence) == [event |-> event, sequence |-> sequence, kind |-> "approval", size |-> 0]

Record(id, version, status, project, statement, from, until, evidence) ==
  [id |-> id, version |-> version, status |-> status, scope |-> Scope(project),
   rule |-> "tabs", statement |-> statement, from |-> from, until |-> until,
   evidence |-> {evidence}, size |-> 2]

\* the versions a lineage may have: in force, narrower, another statement, to
\* come, over, corrected, deleted, and two active at once
Lineages(id, evidence) ==
  LET active == Record(id, 1, "active", None, "yes", 1, NoTime, evidence)
  IN  {{active},
       {[active EXCEPT !.scope = Scope("p1")]},
       {[active EXCEPT !.scope = Scope("p2")]},
       {[active EXCEPT !.statement = "no"]},
       {[active EXCEPT !.rule = "names"]},
       {[active EXCEPT !.from = 3]},
       {[active EXCEPT !.until = 2]},
       {[active EXCEPT !.status = "superseded", !.until = 2],
        [active EXCEPT !.version = 2, !.from = 2]},
       {[active EXCEPT !.status = "deleted", !.statement = None]},
       {active, [active EXCEPT !.version = 2]}}

Query(id, after, forbidden) ==
  [id |-> id, after |-> after, at |-> 2, scope |-> Scope("p1"), forbidden |-> forbidden]

Chosen(memory, position) ==
  [query |-> "q1", memory |-> memory, eligible |-> TRUE, decision |-> "selected",
   position |-> position, scored |-> TRUE]

Dropped(memory) ==
  [query |-> "q1", memory |-> memory, eligible |-> TRUE, decision |-> "lexical_filtered",
   position |-> 0, scored |-> FALSE]

Base ==
  [id |-> "s1",
   timeline |-> <<Message(11, 1, 1), Message(12, 2, 3), Approval(13, 3), Message(14, 5, 1)>>,
   summaries |-> <<[id |-> 22, through |-> 2, size |-> 2], [id |-> 25, through |-> 5, size |-> 4]>>,
   evidence |-> [e \in {"ev1"} |-> "present"],
   records |-> {Record(1, 1, "active", None, "yes", 1, NoTime, "ev1")},
   revisions |-> {[memory |-> 1, evidence |-> {"ev1"}]},
   decisions |-> {Chosen(1, 1)},
   queries |-> <<Query("q1", 5, {})>>]

Histories ==
  {[Base EXCEPT !.timeline = <<Message(11, 1, a), Message(12, second, b),
                               Approval(13, 3), Message(14, 5, c)>>,
                !.queries = <<Query("q1", after, {})>>] :
     second \in {1, 2}, a \in {1, 3}, b \in {1, 4}, c \in {1, 3}, after \in {3, 5, 6}}

Memories ==
  {[Base EXCEPT !.records = one \cup two, !.decisions = recorded,
                !.evidence = [e \in {"ev1", "ev2"} |->
                  IF \E r \in one \cup two : r.status = "deleted" /\ e \in r.evidence
                  THEN "erased" ELSE "present"],
                !.queries = <<Query("q1", 5, forbidden)>>] :
     one \in Lineages(1, "ev1"), two \in Lineages(2, "ev2") \cup Lineages(2, "ev1"),
     recorded \in {{Chosen(1, 1)}, {Chosen(2, 1), Chosen(1, 2)}, {Chosen(1, 2), Dropped(2)}},
     forbidden \in {{}, {2}}}

TwoQueries == [Base EXCEPT !.queries = <<Query("q1", 2, {}), Query("q2", 5, {})>>]

Order == <<"B0", "B1", "B2", "B3">>
Shuffled == <<"B3", "B0", "B2", "B1">>

Plan(repeats, frozen, budget) ==
  [scenarios |-> {"s1"}, recorded |-> Configuration, repeats |-> repeats, seed |-> 7,
   order |-> IF repeats = 1 THEN <<Order>> ELSE <<Order, Shuffled>>,
   frozen |-> frozen, budget |-> budget]

Matches(lexical, semantic) ==
  [lexical |-> [id \in lexical |-> -id], semantic |-> [id \in semantic |-> id]]

MCInputs ==
  [doc : Histories, plan : {Plan(1, FALSE, b) : b \in {4, 5, 7}}, text : {Matches({1}, {})}]
    \cup [doc : Memories, plan : {Plan(1, FALSE, 5), Plan(1, FALSE, 6), Plan(1, TRUE, 6)},
          text : {Matches({1, 2}, {}), Matches({1}, {2})}]
    \cup [doc : {Base}, plan : {Plan(2, FALSE, 4)}, text : {Matches({}, {})}]
    \cup [doc : {TwoQueries}, plan : {Plan(1, TRUE, 4)}, text : {Matches({1}, {1})}]
    \cup [doc : {Base}, text : {Matches({1}, {})},
          plan : {[Plan(1, TRUE, 5) EXCEPT !.scenarios = {}],
                  [Plan(1, TRUE, 5) EXCEPT !.recorded = "other"],
                  [Plan(1, TRUE, 5) EXCEPT !.order = <<<<"B0", "B1", "B1", "B3">>>>]}]
=============================================================================
