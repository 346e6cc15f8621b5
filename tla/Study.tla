-------------------------------- MODULE Study --------------------------------
(***************************************************************************)
(* The run-study command (cli.py): it looks at the artifact file of every  *)
(* scenario in the manifest's order, runs the scenarios without one in a   *)
(* pool of threads, and writes each artifact in place as its run finishes. *)
(*                                                                         *)
(* A study is one invocation.  Two may overlap: a second one is started    *)
(* while the first still runs.  A process may die between two steps.  An   *)
(* artifact is known by the study that made it and by what its run gave:   *)
(* a response, an empty response, or a failure of the model.               *)
(***************************************************************************)
EXTENDS Integers, FiniteSets

CONSTANTS
  Study,        \* invocations of run-study, 1 .. n in the order of their start
  Scenario,     \* 1 .. n, in the order of the manifest
  Outcomes,     \* what a run gives: among "response", "empty" and "failed"
  MaxCrashes    \* bound on the processes that die

ASSUME StudyAssumption ==
  /\ Study \subseteq Nat /\ Scenario \subseteq Nat \ {0}
  /\ MaxCrashes \in Nat

VARIABLES
  files,      \* the artifact file of each scenario
  study,      \* the state of each study
  replaced,   \* history: the scenarios whose whole artifact was overwritten
  crashes     \* how many processes have died

studyVars == <<files, study, replaced>>

NoFile == [state |-> "none"]
Torn == [state |-> "torn"]          \* opened for writing, not yet written
Artifact(p, outcome) == [state |-> "whole", by |-> p, outcome |-> outcome]

Exists(file) == file.state # "none"
IsWhole(file) == file.state = "whole"

\* pending are the scenarios handed to the pool and not collected; writing is
\* the file being written and made what goes there; beside is history, the
\* other studies that have run at the same time
Blank ==
  [pc |-> "idle", resume |-> FALSE, next |-> 1, pending |-> {}, beside |-> {},
   writing |-> 0, made |-> "none"]

StudyInit ==
  /\ files = [s \in Scenario |-> NoFile]
  /\ study = [p \in Study |-> Blank]
  /\ replaced = {}
  /\ crashes = 0

Alive(p) == study[p].pc \notin {"idle", "ended"}

Ended == [Blank EXCEPT !.pc = "ended"]

StartStudy(p, resume) ==
  /\ study[p].pc = "idle"
  /\ \A o \in Study : o < p => study[o].pc # "idle"
  /\ study' = [o \in Study |->
       CASE o = p -> [Blank EXCEPT !.pc = "scan", !.resume = resume, !.beside = {q \in Study : Alive(q)}]
         [] o # p /\ Alive(o) -> [study[o] EXCEPT !.beside = @ \cup {p}]
         [] o # p /\ ~Alive(o) -> study[o]]
  /\ UNCHANGED <<files, replaced, crashes>>

\* The defect of running again a scenario whose saved artifact is a failure
VerdictRetrying(file, resume) ==
  CASE ~Exists(file) -> "take"
    [] IsWhole(file) /\ resume -> IF file.outcome = "failed" THEN "take" ELSE "skip"
    [] OTHER -> "refuse"

\* an artifact that exists is validated and kept (--resume) or refused
Verdict(file, resume) ==
  CASE ~Exists(file) -> "take"
    [] IsWhole(file) /\ resume -> "skip"
    [] OTHER -> "refuse"

Scan(p) ==
  LET s == study[p].next
      verdict == Verdict(files[s], study[p].resume)
      scanned == [study[p] EXCEPT !.next = @ + 1,
                                  !.pending = IF verdict = "take" THEN @ \cup {s} ELSE @]
  IN  /\ study[p].pc = "scan"
      /\ s \in Scenario
      /\ study' = [study EXCEPT ![p] = IF verdict = "refuse" THEN Ended ELSE scanned]
      /\ UNCHANGED <<files, replaced, crashes>>

Submit(p) ==
  /\ study[p].pc = "scan"
  /\ study[p].next \notin Scenario
  /\ study' = [study EXCEPT ![p].pc = "collect", ![p].next = 1, ![p].resume = FALSE]
  /\ UNCHANGED <<files, replaced, crashes>>

\* run_scenario has returned an artifact in a thread of the pool; write_text
\* opens its file, which empties it ...
OpenArtifact(p, s, outcome) ==
  /\ study[p].pc = "collect"
  /\ s \in study[p].pending
  /\ files' = [files EXCEPT ![s] = Torn]
  /\ replaced' = IF IsWhole(files[s]) THEN replaced \cup {s} ELSE replaced
  /\ study' = [study EXCEPT ![p].pc = "write", ![p].pending = @ \ {s},
                            ![p].writing = s, ![p].made = outcome]
  /\ UNCHANGED crashes

\* ... and writes it; two studies writing one file may leave a mixture
WriteArtifact(p) ==
  LET s == study[p].writing
      shared == \E o \in Study \ {p} : study[o].writing = s
  IN  /\ study[p].pc = "write"
      /\ \E file \in {Artifact(p, study[p].made)} \cup (IF shared THEN {Torn} ELSE {}) :
           files' = [files EXCEPT ![s] = file]
      /\ study' = [study EXCEPT ![p].pc = "collect", ![p].writing = 0, ![p].made = "none"]
      /\ replaced' = IF IsWhole(files[s]) THEN replaced \cup {s} ELSE replaced
      /\ UNCHANGED crashes

\* run_scenario has raised in a thread of the pool, which ends the loop; the
\* pool's exit waits for the runs still pending, whose artifacts are dropped
RunRaises(p, s) ==
  /\ study[p].pc = "collect"
  /\ s \in study[p].pending
  /\ study' = [study EXCEPT ![p] = [Ended EXCEPT !.pc = "drain"]]
  /\ UNCHANGED <<files, replaced, crashes>>

EndStudy(p) ==
  /\ \/ study[p].pc = "collect" /\ study[p].pending = {}
     \/ study[p].pc = "drain"
  /\ study' = [study EXCEPT ![p] = Ended]
  /\ UNCHANGED <<files, replaced, crashes>>

StudyDies(p) ==
  /\ Alive(p)
  /\ crashes < MaxCrashes
  /\ crashes' = crashes + 1
  /\ study' = [study EXCEPT ![p] = Ended]
  /\ UNCHANGED <<files, replaced>>

\* the operator deletes an artifact that --resume refuses
RemoveTorn(s) ==
  /\ files[s] = Torn
  /\ \A p \in Study : study[p].writing # s
  /\ files' = [files EXCEPT ![s] = NoFile]
  /\ UNCHANGED <<study, replaced, crashes>>

StudyStep(p) ==
  \/ Scan(p) \/ Submit(p)
  \/ \E s \in Scenario :
       \/ \E outcome \in Outcomes : OpenArtifact(p, s, outcome)
       \/ RunRaises(p, s)
  \/ WriteArtifact(p)
  \/ EndStudy(p)

StudyNext ==
  \/ \E p \in Study :
       \/ \E resume \in BOOLEAN : StartStudy(p, resume)
       \/ StudyStep(p)
       \/ StudyDies(p)
  \/ \E s \in Scenario : RemoveTorn(s)
=============================================================================
