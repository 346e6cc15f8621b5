-------------------------------- MODULE Pilot --------------------------------
(***************************************************************************)
(* The pilot experiment (pilot-workflow.md): run-study fills a directory   *)
(* with artifacts (Study), blind-study makes a packet of their responses   *)
(* and a key, review-study has a model rate the packet in batches and      *)
(* keeps a checkpoint, and analyze-study joins ratings, key and artifacts. *)
(*                                                                         *)
(* The commands share only files, all written in place, and any of them    *)
(* may be run again, while a study still runs or after a crash, with the   *)
(* same packet id and seed.  A scenario has one result, so one item of a   *)
(* packet; a response is known by its scenario and the study that made it. *)
(***************************************************************************)
EXTENDS Study

CONSTANTS
  BatchSize,     \* items of a batch
  MaxAttempts,   \* calls of the model for a batch (3)
  MaxBlinds,     \* bound on the runs of blind-study
  MaxReviews,    \* bound on the runs of review-study
  MaxAtOnce      \* bound on the commands that run at the same time

ASSUME PilotAssumption ==
  /\ BatchSize \in Nat \ {0} /\ MaxAttempts \in Nat \ {0}
  /\ MaxBlinds \in Nat /\ MaxReviews \in Nat /\ MaxAtOnce \in Nat

VARIABLES
  packet,       \* the packet file: rows, one per response, in shuffled order
  key,          \* the blinding key file
  blind,        \* the blind-study command: what it has still to write
  review,       \* the review-study command
  checkpoint,   \* its output file
  runs          \* how many times blind-study and review-study were run

pilotVars == <<packet, key, blind, review, checkpoint, runs>>
vars == <<studyVars, crashes, pilotVars>>

Holding(contents) == [state |-> "whole", rows |-> contents]

Response(s) == <<s, files[s].by>>

IdsOf(rows) == {r.id : r \in rows}

\* batch gives each group of items out for rating the number of its attempt
Resting == [pc |-> "idle", rows |-> {}, rated |-> {}, batch |-> <<>>]
Done == [pc |-> "idle", rows |-> {}]

Init ==
  /\ StudyInit
  /\ packet = NoFile
  /\ key = NoFile
  /\ blind = Done
  /\ review = Resting
  /\ checkpoint = NoFile
  /\ runs = [blind |-> 0, review |-> 0]

---------------------------------------------------------------------------
(* blind-study *)

\* the artifacts can all be loaded, and there is one (_load_artifacts)
Loadable ==
  /\ \E s \in Scenario : Exists(files[s])
  /\ \A s \in Scenario : Exists(files[s]) => IsWhole(files[s])

\* the scenarios with a completed result; an empty response is refused
Answered == {s \in Scenario : IsWhole(files[s]) /\ files[s].outcome = "response"}
EmptyAnswer == \E s \in Scenario : IsWhole(files[s]) /\ files[s].outcome = "empty"

\* The defect of numbering the items of a packet
ItemNumber(s, listed) == Cardinality({o \in listed : o <= s})

\* _item_id: a hash of the scenario, query, repeat and condition
ItemId(s, listed) == s

\* read the artifacts and open the packet for writing
ReadArtifacts ==
  /\ blind.pc = "idle"
  /\ runs.blind < MaxBlinds
  /\ Loadable /\ ~EmptyAnswer /\ Answered # {}
  /\ blind' = [pc |-> "packet",
                rows |-> {[id |-> ItemId(s, Answered), scenario |-> s, response |-> Response(s)] :
                            s \in Answered}]
  /\ packet' = Torn
  /\ runs' = [runs EXCEPT !.blind = @ + 1]
  /\ UNCHANGED <<studyVars, crashes, key, review, checkpoint>>

WritePacket ==
  /\ blind.pc = "packet"
  /\ packet' = Holding(blind.rows)
  /\ key' = Torn
  /\ blind' = [blind EXCEPT !.pc = "key"]
  /\ UNCHANGED <<studyVars, crashes, review, checkpoint, runs>>

WriteKey ==
  /\ blind.pc = "key"
  /\ key' = Holding(blind.rows)
  /\ blind' = Done
  /\ UNCHANGED <<studyVars, crashes, packet, review, checkpoint, runs>>

BlindDies ==
  /\ blind.pc # "idle"
  /\ crashes < MaxCrashes
  /\ crashes' = crashes + 1
  /\ blind' = Done
  /\ UNCHANGED <<studyVars, packet, key, review, checkpoint, runs>>

---------------------------------------------------------------------------
(* review-study *)

\* pending[offset : offset + batch_size], of items in the packet's order, which
\* is any
Batchings(pending) ==
  {groups \in SUBSET (SUBSET pending \ {{}}) :
     /\ UNION groups = pending
     /\ \A g, h \in groups : g = h \/ g \cap h = {}
     /\ \A g \in groups : Cardinality(g) <= BatchSize
     /\ Cardinality({g \in groups : Cardinality(g) < BatchSize}) <= 1}

\* The defect of rating every item again on --resume
RatedNone(file) == {}

\* the ratings of the existing review
RatedBefore(file) == IF IsWhole(file) THEN file.rows ELSE {}

\* an output that exists needs --resume, and has to be a whole review
StartReview(resume) ==
  /\ review.pc = "idle"
  /\ runs.review < MaxReviews
  /\ IsWhole(packet)
  /\ Exists(checkpoint) => resume /\ IsWhole(checkpoint)
  /\ LET rated == RatedBefore(checkpoint)
         pending == {r \in packet.rows : r.id \notin IdsOf(rated)}
     IN  \E groups \in Batchings(pending) :
           review' = [pc |-> "collect", rows |-> packet.rows, rated |-> rated,
                      batch |-> [g \in groups |-> 1]]
  /\ runs' = [runs EXCEPT !.review = @ + 1]
  /\ UNCHANGED <<studyVars, crashes, packet, key, blind, checkpoint>>

Asked(group) == review.pc = "collect" /\ group \in DOMAIN review.batch

\* the item ids of a reply: all the items, one twice, or one left out
Replies(group) ==
  LET ids == IdsOf(group)
      n == Cardinality(group)
  IN  [ids : {ids}, length : {n, n + 1}] \cup [ids : {ids \ {i} : i \in ids}, length : {n - 1}]

\* The defect of accepting a reply about some of the items
RepliedSome(group, reply) == reply.ids \subseteq IdsOf(group)

\* exactly one rating per item
Replied(group, reply) == reply.ids = IdsOf(group) /\ reply.length = Cardinality(group)

\* The defect of asking the model until its reply is exact
NeverLast(attempt) == FALSE

LastAttempt(attempt) == attempt = MaxAttempts

\* _review_batch: a reply that is not exact is asked for again
AskAgain(group) ==
  /\ Asked(group)
  /\ \E reply \in Replies(group) : ~Replied(group, reply)
  /\ ~LastAttempt(review.batch[group])
  /\ review' = [review EXCEPT !.batch[group] = (@ % MaxAttempts) + 1]
  /\ UNCHANGED <<studyVars, crashes, packet, key, blind, checkpoint, runs>>

\* the ratings of an exact reply join the others, as far as the packet has
\* their items; the checkpoint is opened, which empties it
CollectBatch(group) ==
  /\ Asked(group)
  /\ \E reply \in Replies(group) :
       LET new == {[id |-> r.id, response |-> r.response] : r \in {q \in group : q.id \in reply.ids}}
       IN  /\ Replied(group, reply)
           /\ review' = [review EXCEPT
                !.pc = "write",
                !.batch = [g \in (DOMAIN @) \ {group} |-> @[g]],
                !.rated = {x \in @ \cup new : x.id \in IdsOf(review.rows)}]
  /\ checkpoint' = Torn
  /\ UNCHANGED <<studyVars, crashes, packet, key, blind, runs>>

\* generate has raised, or the last reply was not exact: that ends the loop;
\* the pool's exit waits for the other batches, whose ratings are dropped
BatchRaises(group) ==
  /\ Asked(group)
  /\ review' = [Resting EXCEPT !.pc = "drain"]
  /\ UNCHANGED <<studyVars, crashes, packet, key, blind, checkpoint, runs>>

EndReview ==
  /\ review.pc = "drain"
  /\ review' = Resting
  /\ UNCHANGED <<studyVars, crashes, packet, key, blind, checkpoint, runs>>

\* the command writes the review once more when every batch is in
FinishReview ==
  /\ review.pc = "collect"
  /\ DOMAIN review.batch = {}
  /\ review' = [review EXCEPT !.pc = "final"]
  /\ checkpoint' = Torn
  /\ UNCHANGED <<studyVars, crashes, packet, key, blind, runs>>

WriteCheckpoint ==
  /\ review.pc \in {"write", "final"}
  /\ checkpoint' = Holding(review.rated)
  /\ review' = IF review.pc = "write" THEN [review EXCEPT !.pc = "collect"]
                                      ELSE Resting
  /\ UNCHANGED <<studyVars, crashes, packet, key, blind, runs>>

ReviewDies ==
  /\ review.pc # "idle"
  /\ crashes < MaxCrashes
  /\ crashes' = crashes + 1
  /\ review' = Resting
  /\ UNCHANGED <<studyVars, packet, key, blind, checkpoint, runs>>

\* the operator deletes a checkpoint that --resume refuses, and its ratings
RemoveCheckpoint ==
  /\ checkpoint = Torn
  /\ review.pc = "idle"
  /\ checkpoint' = NoFile
  /\ UNCHANGED <<studyVars, crashes, packet, key, blind, review, runs>>

---------------------------------------------------------------------------
(* analyze-study: the review has to cover the key exactly, and every item of *)
(* the key is looked up among the artifacts                                  *)

Analyzable ==
  /\ IsWhole(key) /\ IsWhole(checkpoint) /\ Loadable
  /\ IdsOf(checkpoint.rows) = IdsOf(key.rows)
  /\ \A r \in key.rows : IsWhole(files[r.scenario])

\* the response rated and the response scored of each item
AnalysisRows ==
  {[scenario |-> r.scenario, used |-> Response(r.scenario),
    rated |-> (CHOOSE x \in checkpoint.rows : x.id = r.id).response] : r \in key.rows}

---------------------------------------------------------------------------
BlindStep == WritePacket \/ WriteKey

ReviewStep ==
  \/ \E group \in DOMAIN review.batch :
       AskAgain(group) \/ CollectBatch(group) \/ BatchRaises(group)
  \/ FinishReview \/ WriteCheckpoint \/ EndReview

Running ==
  Cardinality({p \in Study : Alive(p)}) + Cardinality({c \in {blind, review} : c.pc # "idle"})

Next ==
  /\ \/ StudyNext /\ UNCHANGED pilotVars
     \/ ReadArtifacts \/ BlindStep \/ BlindDies
     \/ \E resume \in BOOLEAN : StartReview(resume)
     \/ ReviewStep \/ ReviewDies \/ RemoveCheckpoint
  /\ Running' <= MaxAtOnce

Spec == Init /\ [][Next]_vars

\* A process that is not killed goes on, and every call of a model returns or
\* raises: both adapters have a timeout.
FairSpec ==
  /\ Spec
  /\ \A p \in Study : WF_vars(StudyStep(p) /\ UNCHANGED pilotVars)
  /\ WF_vars(BlindStep)
  /\ WF_vars(ReviewStep)

---------------------------------------------------------------------------
(* Properties *)

\* A study overwrites an artifact only of another study that has run at the
\* same time, with or without --resume: what an earlier invocation has saved is
\* final (cli.py:308-317 looks once, before the runs).
SavedIsFinal ==
  [][\A s \in Scenario : IsWhole(files[s]) /\ files'[s] # files[s] =>
       \E p \in Study : /\ s \in study[p].pending \cup {study[p].writing}
                       /\ files[s].by \in study[p].beside]_vars

\* When the checkpoint is emptied to be rewritten, the review command holds
\* every rating that was in it, whatever batches failed and however often the
\* review was resumed, over a packet made again meanwhile too: ratings are
\* lost only if the process dies before it has written them, or when the
\* artifact of their item has been overwritten (model_reviewer.py:62-89).
RatingsKept ==
  [][IsWhole(checkpoint) /\ checkpoint' # checkpoint =>
       /\ checkpoint' = Torn
       /\ \A x \in checkpoint.rows : x \in review'.rated \/ x.response[1] \in replaced]_vars

\* A review that is about to be returned has one rating for each item of its
\* packet, of the response in the packet, and another only of an item that was
\* in the packet before its artifact was overwritten.
ReviewIsExact ==
  review.pc = "final" =>
    /\ \A r \in review.rows : \E x \in review.rated :
         x.id = r.id /\ (x.response = r.response \/ r.scenario \in replaced)
    /\ \A x, y \in review.rated : x.id = y.id => x = y
    /\ \A x \in review.rated : x.id \in IdsOf(review.rows) \/ x.response[1] \in replaced

\* Each row of an analysis scores the response that was rated, although
\* packet, key, checkpoint and artifacts may be of different moments, unless
\* a second study has overwritten that artifact.
RatedIsAnalysed ==
  Analyzable => \A row \in AnalysisRows : row.scenario \notin replaced => row.rated = row.used

\* Every command comes to an end (if it is not killed, by itself): whatever
\* fails in a pool, and however often the model replies with a wrong batch.
CommandsEnd ==
  /\ \A p \in Study : Alive(p) ~> ~Alive(p)
  /\ blind.pc # "idle" ~> blind.pc = "idle"
  /\ review.pc # "idle" ~> review.pc = "idle"
=============================================================================
