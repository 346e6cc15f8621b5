----------------------------- MODULE Onboarding -----------------------------
(***************************************************************************)
(* The onboard command (onboarding.py): it registers the server with a     *)
(* host through the host's own command line, puts a marked block into the  *)
(* project's instruction file, and asks the host for the registration.     *)
(*                                                                         *)
(* There is no lock and nothing is undone.  Two runs may overlap, the user *)
(* edits the instruction file, a command of the host fails, a run dies.    *)
(* What the host has registered is known by the run that added it, whose   *)
(* user, project and database it carries.                                  *)
(***************************************************************************)
EXTENDS Naturals

CONSTANTS
  Run,        \* invocations of the command
  Project,
  Slot,       \* where a host keeps one registration of the server's name
  SlotOf,     \* of a project: Codex has one for all, Claude Code one for each
  Text,       \* what users write around the block
  Nothing,    \* no text
  Manual,     \* a registration made by hand
  None,
  MaxFaults,  \* bound: host commands that fail without cause, runs that die
  MaxEdits    \* bound: edits of instruction files

ASSUME OnboardingAssumption ==
  /\ SlotOf \in [Project -> Slot]
  /\ Nothing \notin Text /\ Manual \notin Run /\ None \notin Run \cup {Manual}
  /\ MaxFaults \in Nat /\ MaxEdits \in Nat

VARIABLES
  registered,  \* what each slot has: the run that added it, Manual or None
  had,         \* history: the slots that ever had a registration
  file,        \* the instruction file of each project
  wrote,       \* history: the text the user last gave it
  raced,       \* history: projects whose file was read or edited between the
               \* reading and the writing of a run, or left by one that died
  run,         \* the state of each run
  faults, edits

vars == <<registered, had, file, wrote, raced, run, faults, edits>>

\* A file is its text and the block in it, of this release or an older one, or
\* markers that do not match; a missing file reads as an empty one
Content == [text : Text \cup {Nothing}, block : {"none", "current", "old", "broken"}]
Empty == [text |-> Nothing, block |-> "none"]

\* beside and misled are history: other runs at the same time, and that the
\* host's get failed although there was a registration
Unbegun ==
  [pc |-> "idle", project |-> None, replace |-> FALSE, result |-> "none",
   seen |-> Empty, beside |-> {}, misled |-> FALSE]

SlotOfRun(r) == SlotOf[run[r].project]
Running(r) == run[r].pc \notin {"idle", "done", "failed"}
At(r, label) == run[r].pc = label
Holds(r, p) == run[r].project = p /\ run[r].pc \in {"open", "write"}

Init ==
  /\ registered \in [Slot -> {Manual, None}]
  /\ had = {s \in Slot : registered[s] # None}
  /\ file \in [Project -> {Empty} \cup [text : Text, block : {"none", "old"}]]
  /\ wrote = [p \in Project |-> file[p].text]
  /\ raced = {}
  /\ run = [r \in Run |-> Unbegun]
  /\ faults = 0 /\ edits = 0

Goto(r, label) == run' = [run EXCEPT ![r].pc = label]

\* An ended run leaves what it reported and nothing else
End(r, label) == run' = [run EXCEPT ![r] =
  [Unbegun EXCEPT !.pc = label, !.project = run[r].project, !.result = run[r].result]]
Raise(r) == End(r, "failed") /\ UNCHANGED <<registered, had, file, wrote, raced, edits>>
Faulty == faults < MaxFaults /\ faults' = faults + 1

\* The values are valid, the executables found, and it is no --dry-run: any of
\* these ends the command before it has done anything
Start(r, p, replace) ==
  /\ At(r, "idle")
  /\ run' = [o \in Run |->
       IF o = r
       THEN [Unbegun EXCEPT !.pc = "look", !.project = p, !.replace = replace,
                            !.beside = {q \in Run : Running(q)}]
       ELSE [run[o] EXCEPT !.beside = IF Running(o) THEN @ \cup {r} ELSE @]]
  /\ UNCHANGED <<registered, had, file, wrote, raced, faults, edits>>

---------------------------------------------------------------------------
(* The registration *)

\* The defect of replacing whatever is there
AlwaysReplaces(r) == TRUE
Replaces(r) == run[r].replace

\* _registration_exists: any failure of the host's get is taken for no
Look(r) ==
  /\ At(r, "look")
  /\ \E answer \in BOOLEAN :
       LET exists == registered[SlotOfRun(r)] # None
           next == IF ~answer THEN "add" ELSE IF Replaces(r) THEN "remove" ELSE "read"
       IN  /\ answer => exists
           /\ IF answer = exists THEN UNCHANGED faults ELSE Faulty
           /\ run' = [run EXCEPT ![r].pc = next, ![r].misled = answer # exists,
                                 ![r].result = IF answer THEN "existing" ELSE "added"]
  /\ UNCHANGED <<registered, had, file, wrote, raced, edits>>

\* the host refuses to remove what is not there
Remove(r) ==
  /\ At(r, "remove")
  /\ registered[SlotOfRun(r)] # None
  /\ registered' = [registered EXCEPT ![SlotOfRun(r)] = None]
  /\ run' = [run EXCEPT ![r].pc = "add", ![r].result = "replaced"]
  /\ UNCHANGED <<had, file, wrote, raced, faults, edits>>

\* a host may overwrite the registration that is there, or refuse
Add(r) ==
  /\ At(r, "add")
  /\ registered' = [registered EXCEPT ![SlotOfRun(r)] = r]
  /\ had' = had \cup {SlotOfRun(r)}
  /\ Goto(r, "read")
  /\ UNCHANGED <<file, wrote, raced, faults, edits>>

Refused(r) ==
  /\ \/ At(r, "remove") /\ registered[SlotOfRun(r)] = None
     \/ At(r, "add") /\ registered[SlotOfRun(r)] # None
  /\ Raise(r)
  /\ UNCHANGED faults

---------------------------------------------------------------------------
(* _upsert_instruction_block *)

ReadFile(r) ==
  LET p == run[r].project
  IN  /\ At(r, "read")
      /\ IF file[p].block = "broken"
         THEN End(r, "failed")
         ELSE run' = [run EXCEPT ![r].pc = "open", ![r].seen = file[p]]
      /\ raced' = IF \E o \in Run : Holds(o, p) /\ At(o, "write") THEN raced \cup {p} ELSE raced
      /\ UNCHANGED <<registered, had, file, wrote, faults, edits>>

\* write_text empties the file ...
OpenFile(r) ==
  /\ At(r, "open")
  /\ file' = [file EXCEPT ![run[r].project] = Empty]
  /\ Goto(r, "write")
  /\ UNCHANGED <<registered, had, wrote, raced, faults, edits>>

\* The defect of writing the block and nothing else
BlockAlone(content) == [text |-> Nothing, block |-> "current"]

\* the block is put in place of the one that is there, or at the end
Updated(content) == [content EXCEPT !.block = "current"]

\* ... and then writes it
WriteFile(r) ==
  /\ At(r, "write")
  /\ file' = [file EXCEPT ![run[r].project] = Updated(run[r].seen)]
  /\ run' = [run EXCEPT ![r].pc = "verify", ![r].seen = Empty]
  /\ UNCHANGED <<registered, had, wrote, raced, faults, edits>>

---------------------------------------------------------------------------
\* The defect of not looking at what the last get said
Unverified(r) == TRUE
Verified(r) == registered[SlotOfRun(r)] # None

Verify(r) ==
  /\ At(r, "verify")
  /\ End(r, IF Verified(r) THEN "done" ELSE "failed")
  /\ UNCHANGED <<registered, had, file, wrote, raced, faults, edits>>

\* a command of the host fails and leaves its configuration alone
HostFails(r) ==
  /\ run[r].pc \in {"remove", "add", "verify"}
  /\ Faulty
  /\ Raise(r)

Die(r) ==
  /\ Running(r)
  /\ Faulty
  /\ End(r, "failed")
  /\ raced' = IF At(r, "write") THEN raced \cup {run[r].project} ELSE raced
  /\ UNCHANGED <<registered, had, file, wrote, edits>>

\* a user saves the instruction file, with the block or without it
Edit(p) ==
  /\ edits < MaxEdits
  /\ edits' = edits + 1
  /\ \E content \in [text : Text, block : {"none", "broken", file[p].block}] :
       /\ file' = [file EXCEPT ![p] = content]
       /\ wrote' = [wrote EXCEPT ![p] = content.text]
  /\ raced' = IF \E r \in Run : Holds(r, p) \/ (At(r, "verify") /\ run[r].project = p)
              THEN raced \cup {p} ELSE raced
  /\ UNCHANGED <<registered, had, run, faults>>

Next ==
  \/ \E r \in Run :
       \/ \E p \in Project, replace \in BOOLEAN : Start(r, p, replace)
       \/ Look(r) \/ Remove(r) \/ Add(r) \/ Refused(r)
       \/ ReadFile(r) \/ OpenFile(r) \/ WriteFile(r)
       \/ Verify(r) \/ HostFails(r) \/ Die(r)
  \/ \E p \in Project : Edit(p)

Spec == Init /\ [][Next]_vars

---------------------------------------------------------------------------
(* Properties *)

\* design/codex-mcp.md 74: the block is added without replacing the project's
\* other instructions, by however many runs, overlapping or failing; unless the
\* file is read or edited while a run is rewriting it, or one dies just then.
InstructionsKept ==
  \A p \in Project :
    \/ file[p].text = wrote[p]
    \/ \E r \in Run : Holds(r, p) /\ At(r, "write")
    \/ p \in raced

\* codex-mcp.md 42: an existing registration is preserved without --replace.
\* A run changes it only with that option, or when the host did not show it the
\* registration or another run has made it since; and there is none any more
\* only between the two commands of a replacement, or if that failed.
RegistrationKept ==
  /\ [][\A s \in Slot : registered[s] # None /\ registered'[s] # registered[s] =>
         \E r \in Run :
           /\ Running(r) /\ SlotOfRun(r) = s
           /\ \/ run[r].replace
              \/ run[r].misled
              \/ registered[s] \in run[r].beside]_vars
  /\ [](\A s \in had : registered[s] = None =>
         \E r \in Run : /\ run[r].result = "replaced" /\ SlotOfRun(r) = s
                        /\ run[r].pc \in {"add", "failed"})

\* A run that reports success leaves a registration, of its own if it says it
\* added or replaced one, or of a run that overlapped; and its project has the
\* block, unless another one is rewriting the file or it was edited meanwhile.
SuccessIsUsable ==
  [][\A r \in Run : ~At(r, "done") /\ At(r, "done")' =>
       LET p == run[r].project
           entry == registered[SlotOfRun(r)]
       IN  /\ entry # None
           /\ run[r].result # "existing" => entry = r \/ entry \in run[r].beside
           /\ \/ file[p].block = "current"
              \/ \E o \in Run : Holds(o, p) /\ At(o, "write")
              \/ p \in raced]_vars
=============================================================================
