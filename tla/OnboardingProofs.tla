-------------------------- MODULE OnboardingProofs --------------------------
(***************************************************************************)
(* Proofs about Onboarding, for any number of runs, projects and slots,    *)
(* faults and edits: the instructions of a project survive, a registration *)
(* is replaced only when that was asked for, or could not be known, and    *)
(* what a successful run reports is there.                                 *)
(***************************************************************************)
EXTENDS Onboarding, TLAPS

Labels ==
  {"idle", "look", "remove", "add", "read", "open", "write", "verify", "done", "failed"}

RunState ==
  [pc : Labels, project : Project \cup {None}, replace : BOOLEAN,
   result : {"none", "existing", "added", "replaced"}, seen : Content,
   beside : SUBSET Run, misled : BOOLEAN]

TypeOK ==
  /\ registered \in [Slot -> Run \cup {Manual, None}]
  /\ had \subseteq Slot
  /\ file \in [Project -> Content]
  /\ wrote \in [Project -> Text \cup {Nothing}]
  /\ raced \subseteq Project
  /\ run \in [Run -> RunState]
  /\ \A r \in Run : Running(r) => run[r].project \in Project

\* Runs that overlap know of each other
Met ==
  \A r, o \in Run : r # o /\ Running(r) /\ Running(o) => o \in run[r].beside

\* What a run learnt of the registration, or made of it, is still so unless
\* another run changed it meanwhile
Entry(r) == registered[SlotOfRun(r)]
Known(r) ==
  /\ At(r, "remove") => run[r].replace
  /\ At(r, "add") => run[r].replace \/ run[r].misled \/ Entry(r) \in {None} \cup run[r].beside
  /\ run[r].pc \in {"read", "open", "write", "verify"} /\ run[r].result # "existing" =>
       Entry(r) \in {r, None} \cup run[r].beside
RegistrationsKnown == \A r \in Run : Known(r)

\* A slot that had a registration and has none is in the middle of a
\* replacement, or of one that failed
Replacing(r) == run[r].result = "replaced" /\ run[r].pc \in {"add", "failed"}
LossExplained ==
  \A s \in had : registered[s] = None => \E r \in Run : Replacing(r) /\ SlotOfRun(r) = s

\* What a run is going to write is what the user last wrote
TextHeld ==
  \A r \in Run : run[r].pc \in {"open", "write"} =>
    run[r].seen.text = wrote[run[r].project] \/ run[r].project \in raced

\* The block a run has written stays where it is
BlockThere ==
  \A r \in Run : At(r, "verify") =>
    LET p == run[r].project
    IN  \/ file[p].block = "current"
        \/ \E o \in Run : Holds(o, p) /\ At(o, "write")
        \/ p \in raced

IInv ==
  /\ TypeOK /\ Met /\ RegistrationsKnown /\ LossExplained
  /\ TextHeld /\ InstructionsKept /\ BlockThere

---------------------------------------------------------------------------
(* What the steps do to the runs *)

\* The state of a run in another step of it; End(r, label) makes it Ended
Others(r) == \A o \in Run \ {r} : run'[o] = run[o]
Ended(r, label) ==
  [Unbegun EXCEPT !.pc = label, !.project = run[r].project, !.result = run[r].result]

LEMMA UnbegunFacts ==
  /\ Empty \in Content
  /\ Unbegun \in RunState /\ Unbegun.pc = "idle"
BY DEF Empty, Content, Unbegun, RunState, Labels

LEMMA Replaced ==
  ASSUME TypeOK, NEW r \in Run, NEW st \in RunState, run' = [run EXCEPT ![r] = st]
  PROVE  /\ run'[r] = st /\ Others(r)
         /\ run' \in [Run -> RunState]
BY DEF TypeOK, Others

LEMMA GoneTo ==
  ASSUME TypeOK, NEW r \in Run, NEW label \in Labels, Goto(r, label)
  PROVE  /\ run'[r].pc = label /\ run'[r].project = run[r].project
         /\ run'[r].replace = run[r].replace /\ run'[r].misled = run[r].misled
         /\ run'[r].result = run[r].result /\ run'[r].seen = run[r].seen
         /\ run'[r].beside = run[r].beside
         /\ Others(r) /\ run' \in [Run -> RunState]
<1> DEFINE st == [run[r] EXCEPT !.pc = label]
<1>1. run[r] \in RunState
  BY DEF TypeOK
<1>2. /\ st \in RunState /\ st.pc = label /\ st.project = run[r].project
      /\ st.replace = run[r].replace /\ st.misled = run[r].misled
      /\ st.result = run[r].result /\ st.seen = run[r].seen /\ st.beside = run[r].beside
  BY <1>1 DEF RunState
<1>3. run' = [run EXCEPT ![r] = st]
  BY DEF Goto
<1> HIDE DEF st
<1>4. QED
  BY <1>2, <1>3, Replaced

LEMMA HasEnded ==
  ASSUME TypeOK, NEW r \in Run, NEW label \in {"done", "failed"}, End(r, label)
  PROVE  /\ run'[r].pc = label /\ run'[r].project = run[r].project
         /\ run'[r].result = run[r].result
         /\ Others(r) /\ run' \in [Run -> RunState]
<1>1. run[r] \in RunState
  BY DEF TypeOK
<1>2. /\ Ended(r, label) \in RunState /\ Ended(r, label).pc = label
      /\ Ended(r, label).project = run[r].project /\ Ended(r, label).result = run[r].result
  BY <1>1, UnbegunFacts DEF Ended, RunState, Labels
<1>3. run' = [run EXCEPT ![r] = Ended(r, label)]
  BY DEF End, Ended
<1>4. QED
  BY <1>2, <1>3, Replaced

LEMMA HasLooked ==
  ASSUME TypeOK, NEW r \in Run, Look(r)
  PROVE  /\ run'[r].pc \in {"add", "remove", "read"} /\ run'[r].project = run[r].project
         /\ run'[r].replace = run[r].replace /\ run'[r].beside = run[r].beside
         /\ run'[r].pc = "remove" => run[r].replace
         /\ run'[r].pc = "read" => run'[r].result = "existing"
         /\ run'[r].pc = "add" => run'[r].misled \/ Entry(r) = None
         /\ Others(r) /\ run' \in [Run -> RunState]
<1> DEFINE st(label, misled, said) ==
             [run[r] EXCEPT !.pc = label, !.misled = misled, !.result = said]
<1>1. PICK answer \in BOOLEAN :
        run' = [run EXCEPT ![r] =
          st(IF ~answer THEN "add" ELSE IF Replaces(r) THEN "remove" ELSE "read",
             answer # (Entry(r) # None), IF answer THEN "existing" ELSE "added")]
  BY DEF Look, Entry
<1>2. PICK misled \in BOOLEAN : misled = (answer # (Entry(r) # None))
  OBVIOUS
<1>3. PICK label \in {"add", "remove", "read"} :
        label = IF ~answer THEN "add" ELSE IF Replaces(r) THEN "remove" ELSE "read"
  OBVIOUS
<1>4. PICK said \in {"existing", "added"} : said = IF answer THEN "existing" ELSE "added"
  OBVIOUS
<1>5. run' = [run EXCEPT ![r] = st(label, misled, said)]
  BY <1>1, <1>2, <1>3, <1>4, Zenon
<1>6. run[r] \in RunState
  BY DEF TypeOK
<1>7. \A l \in Labels, m \in BOOLEAN, s \in {"existing", "added"} :
        /\ st(l, m, s) \in RunState /\ st(l, m, s).pc = l
        /\ st(l, m, s).project = run[r].project /\ st(l, m, s).replace = run[r].replace
        /\ st(l, m, s).beside = run[r].beside
        /\ st(l, m, s).result = s /\ st(l, m, s).misled = m
  BY <1>6 DEF RunState
<1> HIDE DEF st
<1>8. label \in Labels
  BY DEF Labels
<1>9. /\ run'[r] = st(label, misled, said)
      /\ Others(r) /\ run' \in [Run -> RunState]
  BY <1>5, <1>7, <1>8, Replaced
<1>10. /\ run'[r].pc = label /\ run'[r].project = run[r].project
       /\ run'[r].replace = run[r].replace /\ run'[r].beside = run[r].beside
       /\ run'[r].result = said /\ run'[r].misled = misled
  BY <1>7, <1>8, <1>9
<1>11. /\ label = "add" => misled \/ Entry(r) = None
       /\ label = "read" => said = "existing"
       /\ label = "remove" => run[r].replace
  BY <1>2, <1>3, <1>4 DEF Replaces
<1>12. QED
  BY <1>9, <1>10, <1>11

\* A run that starts knows the ones that run, and they know it
LEMMA HasStarted ==
  ASSUME TypeOK, NEW r \in Run, NEW p \in Project, NEW replace \in BOOLEAN, Start(r, p, replace)
  PROVE  /\ run'[r].pc = "look" /\ run'[r].project = p
         /\ run'[r].beside = {q \in Run : Running(q)}
         /\ \A o \in Run \ {r} :
              /\ run'[o].pc = run[o].pc /\ run'[o].project = run[o].project
              /\ run'[o].replace = run[o].replace /\ run'[o].misled = run[o].misled
              /\ run'[o].result = run[o].result /\ run'[o].seen = run[o].seen
              /\ run[o].beside \subseteq run'[o].beside
              /\ Running(o) => r \in run'[o].beside
         /\ run' \in [Run -> RunState]
<1> DEFINE new == [Unbegun EXCEPT !.pc = "look", !.project = p, !.replace = replace,
                                  !.beside = {q \in Run : Running(q)}]
           met(o) == [run[o] EXCEPT !.beside = IF Running(o) THEN @ \cup {r} ELSE @]
<1>1. run' = [o \in Run |-> IF o = r THEN new ELSE met(o)]
  BY DEF Start
<1>2. /\ new \in RunState /\ new.pc = "look" /\ new.project = p
      /\ new.beside = {q \in Run : Running(q)}
  BY UnbegunFacts DEF RunState, Labels
<1>3. ASSUME NEW o \in Run
      PROVE  /\ met(o) \in RunState
             /\ met(o).pc = run[o].pc /\ met(o).project = run[o].project
             /\ met(o).replace = run[o].replace /\ met(o).misled = run[o].misled
             /\ met(o).result = run[o].result /\ met(o).seen = run[o].seen
             /\ run[o].beside \subseteq met(o).beside
             /\ Running(o) => r \in met(o).beside
  <2>1. run[o] \in RunState
    BY DEF TypeOK
  <2>2. CASE Running(o)
    BY <2>1, <2>2 DEF RunState
  <2>3. CASE ~Running(o)
    BY <2>1, <2>3 DEF RunState
  <2>4. QED
    BY <2>2, <2>3
<1> HIDE DEF new, met
<1>4. QED
  BY <1>1, <1>2, <1>3

LEMMA HasRemoved ==
  ASSUME TypeOK, NEW r \in Run, Remove(r)
  PROVE  /\ run'[r].pc = "add" /\ run'[r].project = run[r].project
         /\ run'[r].replace = run[r].replace /\ run'[r].beside = run[r].beside
         /\ run'[r].result = "replaced"
         /\ Others(r) /\ run' \in [Run -> RunState]
<1> DEFINE st == [run[r] EXCEPT !.pc = "add", !.result = "replaced"]
<1>1. run[r] \in RunState
  BY DEF TypeOK
<1>2. /\ st \in RunState /\ st.pc = "add" /\ st.project = run[r].project
      /\ st.replace = run[r].replace /\ st.beside = run[r].beside /\ st.result = "replaced"
  BY <1>1 DEF RunState, Labels
<1>3. run' = [run EXCEPT ![r] = st]
  BY DEF Remove
<1> HIDE DEF st
<1>4. QED
  BY <1>2, <1>3, Replaced

LEMMA HasSeen ==
  ASSUME TypeOK, NEW r \in Run, NEW label \in Labels, NEW content \in Content,
         run' = [run EXCEPT ![r].pc = label, ![r].seen = content]
  PROVE  /\ run'[r].pc = label /\ run'[r].project = run[r].project
         /\ run'[r].replace = run[r].replace /\ run'[r].beside = run[r].beside
         /\ run'[r].result = run[r].result /\ run'[r].seen = content
         /\ Others(r) /\ run' \in [Run -> RunState]
<1> DEFINE st == [run[r] EXCEPT !.pc = label, !.seen = content]
<1>1. run[r] \in RunState
  BY DEF TypeOK
<1>2. /\ st \in RunState /\ st.pc = label /\ st.project = run[r].project
      /\ st.replace = run[r].replace /\ st.beside = run[r].beside
      /\ st.result = run[r].result /\ st.seen = content
  BY <1>1 DEF RunState
<1>3. run' = [run EXCEPT ![r] = st]
  OBVIOUS
<1> HIDE DEF st
<1>4. QED
  BY <1>2, <1>3, Replaced

\* Reading the file ends the run when its markers do not match
LEMMA HasRead ==
  ASSUME TypeOK, NEW r \in Run, ReadFile(r), run[r].project \in Project
  PROVE  \/ /\ run'[r].pc = "open" /\ run'[r].project = run[r].project
            /\ run'[r].replace = run[r].replace /\ run'[r].beside = run[r].beside
            /\ run'[r].result = run[r].result /\ run'[r].seen = file[run[r].project]
            /\ Others(r) /\ run' \in [Run -> RunState]
         \/ End(r, "failed")
<1>1. CASE file[run[r].project].block = "broken"
  BY <1>1 DEF ReadFile
<1>2. CASE file[run[r].project].block # "broken"
  <2>1. run' = [run EXCEPT ![r].pc = "open", ![r].seen = file[run[r].project]]
    BY <1>2 DEF ReadFile
  <2>2. file[run[r].project] \in Content
    BY DEF TypeOK
  <2>3. "open" \in Labels
    BY DEF Labels
  <2>4. QED
    BY <2>1, <2>2, <2>3, HasSeen
<1>3. QED
  BY <1>1, <1>2

LEMMA HasWritten ==
  ASSUME TypeOK, NEW r \in Run, WriteFile(r)
  PROVE  /\ run'[r].pc = "verify" /\ run'[r].project = run[r].project
         /\ run'[r].replace = run[r].replace /\ run'[r].beside = run[r].beside
         /\ run'[r].result = run[r].result
         /\ Others(r) /\ run' \in [Run -> RunState]
<1>1. run' = [run EXCEPT ![r].pc = "verify", ![r].seen = Empty]
  BY DEF WriteFile
<1>2. "verify" \in Labels
  BY DEF Labels
<1>3. QED
  BY <1>1, <1>2, UnbegunFacts, HasSeen

\* A run that ends
Ends(r) == End(r, "done") \/ End(r, "failed")

\* A step of a run that has begun: it stays for its project, and knows and
\* wants what it did
Advance(r) ==
  /\ Running(r) /\ run'[r].project = run[r].project
  /\ Running(r)' =>
       run'[r].replace = run[r].replace /\ run'[r].beside = run[r].beside
  /\ Others(r) /\ run' \in [Run -> RunState]

Step(r) ==
  \/ Look(r) \/ Remove(r) \/ Add(r) \/ Refused(r)
  \/ ReadFile(r) \/ OpenFile(r) \/ WriteFile(r)
  \/ Verify(r) \/ HostFails(r) \/ Die(r)

LEMMA Advances ==
  ASSUME TypeOK, NEW r \in Run, Step(r)
  PROVE  Advance(r)
<1>1. Running(r)
  BY DEF Step, Look, Remove, Add, Refused, ReadFile, OpenFile, WriteFile, Verify, HostFails, Die,
         Running, At
<1>2. CASE Ends(r)
  BY <1>1, <1>2, HasEnded DEF Ends, Advance, Running
<1>3. CASE Look(r)
  BY <1>1, <1>3, HasLooked DEF Advance
<1>4. CASE Remove(r)
  BY <1>1, <1>4, HasRemoved DEF Advance
<1>5. CASE \E label \in Labels : Goto(r, label)
  BY <1>1, <1>5, GoneTo DEF Advance
<1>6. CASE ReadFile(r)
  <2>1. run[r].project \in Project
    BY <1>1 DEF TypeOK
  <2>2. QED
    BY <1>1, <1>2, <1>6, <2>1, HasRead DEF Advance, Ends
<1>7. CASE WriteFile(r)
  BY <1>1, <1>7, HasWritten DEF Advance
<1>8. QED
  <2>1. Refused(r) \/ HostFails(r) \/ Die(r) \/ Verify(r) => Ends(r)
    BY DEF Refused, HostFails, Die, Verify, Raise, Ends
  <2>2. Add(r) \/ OpenFile(r) => \E label \in Labels : Goto(r, label)
    BY DEF Add, OpenFile, Labels
  <2>3. QED
    BY <1>2, <1>3, <1>4, <1>5, <1>6, <1>7, <2>1, <2>2 DEF Step

\* What a step does not do: only Remove and Add change a registration, only
\* OpenFile, WriteFile and a user change a file
LEMMA Spared ==
  ASSUME TypeOK, NEW r \in Run, Step(r)
  PROVE  /\ wrote' = wrote /\ raced \subseteq raced'
         /\ ~Remove(r) /\ ~Add(r) => registered' = registered
         /\ ~Add(r) => had' = had
         /\ ~OpenFile(r) /\ ~WriteFile(r) => file' = file
BY DEF Step, Look, Remove, Add, Refused, ReadFile, OpenFile, WriteFile, Verify, HostFails, Die,
       Raise

---------------------------------------------------------------------------
(* Typing *)

LEMMA TypeInit == Init => TypeOK
BY OnboardingAssumption, UnbegunFacts
   DEF Init, TypeOK, OnboardingAssumption, Content, Empty, Running

LEMMA TypeStep == TypeOK /\ [Next]_vars => TypeOK'
<1> SUFFICES ASSUME TypeOK, [Next]_vars PROVE TypeOK'
  OBVIOUS
<1>1. CASE UNCHANGED vars
  BY <1>1 DEF TypeOK, vars, Running
<1>2. ASSUME NEW r \in Run, NEW p \in Project, NEW replace \in BOOLEAN, Start(r, p, replace)
      PROVE  TypeOK'
  <2>1. UNCHANGED <<registered, had, file, wrote, raced>>
    BY <1>2 DEF Start
  <2>2. \A o \in Run : Running(o)' => run'[o].project \in Project
    BY <1>2, HasStarted DEF TypeOK, Running
  <2>3. QED
    BY <1>2, <2>1, <2>2, HasStarted DEF TypeOK
<1>3. ASSUME NEW r \in Run, Step(r) PROVE TypeOK'
  <2>1. Advance(r)
    BY <1>3, Advances
  <2>2. run[r].project \in Project /\ SlotOfRun(r) \in Slot
    BY <2>1, OnboardingAssumption DEF Advance, TypeOK, OnboardingAssumption, SlotOfRun
  <2>3. /\ run' \in [Run -> RunState]
        /\ \A o \in Run : Running(o)' => run'[o].project \in Project
    BY <2>1 DEF Advance, Others, TypeOK, Running
  <2>4. registered' \in [Slot -> Run \cup {Manual, None}]
    <3>1. CASE Remove(r)
      BY <2>2, <3>1 DEF Remove, TypeOK
    <3>2. CASE Add(r)
      BY <2>2, <3>2 DEF Add, TypeOK
    <3>3. QED
      BY <1>3, <3>1, <3>2, Spared DEF TypeOK
  <2>5. had' \subseteq Slot
    <3>1. CASE Add(r)
      BY <2>2, <3>1 DEF Add, TypeOK
    <3>2. QED
      BY <1>3, <3>1, Spared DEF TypeOK
  <2>6. file' \in [Project -> Content]
    <3>1. CASE OpenFile(r)
      BY <2>2, <3>1, UnbegunFacts DEF OpenFile, TypeOK
    <3>2. CASE WriteFile(r)
      <4>1. run[r].seen \in Content
        BY DEF TypeOK, RunState
      <4>2. Updated(run[r].seen) \in Content
        BY <4>1 DEF Updated, Content
      <4>3. QED
        BY <2>2, <3>2, <4>2 DEF WriteFile, TypeOK
    <3>3. QED
      BY <1>3, <3>1, <3>2, Spared DEF TypeOK
  <2>7. raced' \subseteq Project
    BY <1>3, <2>2 DEF TypeOK, Step, Look, Remove, Add, Refused, ReadFile, OpenFile, WriteFile,
       Verify, HostFails, Die, Raise
  <2>8. QED
    BY <1>3, <2>3, <2>4, <2>5, <2>6, <2>7, Spared DEF TypeOK
<1>4. ASSUME NEW p \in Project, Edit(p) PROVE TypeOK'
  <2>1. PICK content \in [text : Text, block : {"none", "broken", file[p].block}] :
          file' = [file EXCEPT ![p] = content] /\ wrote' = [wrote EXCEPT ![p] = content.text]
    BY <1>4 DEF Edit
  <2>2. file[p] \in Content
    BY DEF TypeOK
  <2>3. content \in Content /\ content.text \in Text
    BY <2>2 DEF Content
  <2>4. UNCHANGED <<registered, had, run>> /\ raced' \subseteq Project
    BY <1>4 DEF Edit, TypeOK
  <2>5. QED
    BY <2>1, <2>3, <2>4 DEF TypeOK, Running
<1>5. QED
  BY <1>1, <1>2, <1>3, <1>4 DEF Next, Step

---------------------------------------------------------------------------
(* Runs beside each other, and the registration *)

LEMMA MetStep == TypeOK /\ Met /\ [Next]_vars => Met'
<1> SUFFICES ASSUME TypeOK, Met, [Next]_vars PROVE Met'
  OBVIOUS
<1>1. CASE UNCHANGED vars \/ \E p \in Project : Edit(p)
  BY <1>1 DEF Met, vars, Running, Edit
<1>2. ASSUME NEW r \in Run, NEW p \in Project, NEW replace \in BOOLEAN, Start(r, p, replace)
      PROVE  Met'
  BY <1>2, HasStarted DEF Met, Running
<1>3. ASSUME NEW r \in Run, Step(r) PROVE Met'
  BY <1>3, Advances DEF Advance, Others, Met, Running
<1>4. QED
  BY <1>1, <1>2, <1>3 DEF Next, Step

\* What a run knows of a registration outlives every step of another one
LEMMA KnownBeside ==
  ASSUME TypeOK, Met, RegistrationsKnown, NEW r \in Run, Step(r), NEW o \in Run, o # r
  PROVE  Known(o)'
<1>1. run'[o] = run[o] /\ Known(o)
  BY Advances DEF Advance, Others, RegistrationsKnown
<1>2. CASE ~Running(o)
  BY <1>1, <1>2 DEF Known, Running, At
<1>3. CASE Running(o)
  <2>1. SlotOfRun(o) \in Slot /\ SlotOfRun(o)' = SlotOfRun(o)
    BY <1>1, <1>3, OnboardingAssumption DEF TypeOK, OnboardingAssumption, SlotOfRun
  <2>2. r \in run[o].beside
    BY <1>3, Advances DEF Met, Advance
  <2>3. Entry(o)' \in {Entry(o), None, r}
    <3>1. CASE Remove(r)
      BY <2>1, <3>1 DEF Remove, Entry, TypeOK
    <3>2. CASE Add(r)
      BY <2>1, <3>2 DEF Add, Entry, TypeOK
    <3>3. QED
      BY <2>1, <3>1, <3>2, Spared DEF Entry
  <2>4. QED
    BY <1>1, <2>2, <2>3 DEF Known, At
<1>4. QED
  BY <1>2, <1>3

LEMMA KnownStep == TypeOK /\ Met /\ RegistrationsKnown /\ [Next]_vars => RegistrationsKnown'
<1> SUFFICES ASSUME TypeOK, Met, RegistrationsKnown, [Next]_vars PROVE RegistrationsKnown'
  OBVIOUS
<1>1. CASE UNCHANGED vars \/ \E p \in Project : Edit(p)
  BY <1>1 DEF RegistrationsKnown, Known, Entry, SlotOfRun, At, vars, Edit
<1>2. ASSUME NEW r \in Run, NEW p \in Project, NEW replace \in BOOLEAN, Start(r, p, replace)
      PROVE  RegistrationsKnown'
  <2>1. registered' = registered
    BY <1>2 DEF Start
  <2>2. Known(r)'
    BY <1>2, HasStarted DEF Known, At
  <2>3. ASSUME NEW o \in Run, o # r PROVE Known(o)'
    <3>1. Known(o)
      BY DEF RegistrationsKnown
    <3>2. /\ run'[o].pc = run[o].pc /\ run'[o].project = run[o].project
          /\ run'[o].replace = run[o].replace /\ run'[o].misled = run[o].misled
          /\ run'[o].result = run[o].result /\ run[o].beside \subseteq run'[o].beside
      BY <1>2, <2>3, HasStarted
    <3>3. QED
      BY <2>1, <3>1, <3>2 DEF Known, Entry, SlotOfRun, At
  <2>4. QED
    BY <2>2, <2>3 DEF RegistrationsKnown
<1>3. ASSUME NEW r \in Run, Step(r) PROVE RegistrationsKnown'
  <2>1. Advance(r) /\ Known(r)
    BY <1>3, Advances DEF RegistrationsKnown
  <2>2. SlotOfRun(r) \in Slot /\ SlotOfRun(r)' = SlotOfRun(r)
    BY <2>1, OnboardingAssumption DEF Advance, TypeOK, OnboardingAssumption, SlotOfRun
  <2>3. Known(r)'
    <3>1. CASE ~Running(r)'
      BY <3>1 DEF Known, Running, At
    <3>2. CASE Look(r)
      <4>1. Entry(r)' = Entry(r)
        BY <2>2, <3>2 DEF Look, Entry
      <4>2. QED
        BY <3>2, <4>1, HasLooked DEF Known, At
    <3>3. CASE Remove(r)
      <4>1. Entry(r)' = None
        BY <2>2, <3>3 DEF Remove, Entry, TypeOK
      <4>2. QED
        BY <3>3, <4>1, HasRemoved DEF Known, At
    <3>4. CASE Add(r)
      <4>1. Entry(r)' = r
        BY <2>2, <3>4 DEF Add, Entry, TypeOK
      <4>2. run'[r].pc = "read"
        BY <3>4, GoneTo DEF Add, Labels
      <4>3. QED
        BY <4>1, <4>2 DEF Known, At
    <3>5. CASE (ReadFile(r) \/ OpenFile(r) \/ WriteFile(r)) /\ Running(r)'
      <4>1. Entry(r)' = Entry(r)
        BY <2>2, <3>5 DEF ReadFile, OpenFile, WriteFile, Entry
      <4>2. run[r].pc \in {"read", "open", "write"}
        BY <3>5 DEF ReadFile, OpenFile, WriteFile, At
      <4>3. /\ run'[r].pc \in {"open", "write", "verify"}
            /\ run'[r].result = run[r].result /\ run'[r].beside = run[r].beside
        <5>1. CASE OpenFile(r)
          BY <5>1, GoneTo DEF OpenFile, Labels
        <5>2. CASE WriteFile(r)
          BY <5>2, HasWritten
        <5>3. CASE ReadFile(r)
          <6>1. run[r].project \in Project
            BY <2>1 DEF Advance, TypeOK
          <6>2. ~End(r, "failed")
            BY <3>5, HasEnded DEF Running
          <6>3. QED
            BY <5>3, <6>1, <6>2, HasRead
        <5>4. QED
          BY <3>5, <5>1, <5>2, <5>3
      <4>4. QED
        BY <2>1, <4>1, <4>2, <4>3 DEF Known, At
    <3>6. Refused(r) \/ Verify(r) \/ HostFails(r) \/ Die(r) => ~Running(r)'
      <4>1. Refused(r) \/ Verify(r) \/ HostFails(r) \/ Die(r) => Ends(r)
        BY DEF Refused, Verify, HostFails, Die, Raise, Ends
      <4>2. QED
        BY <4>1, HasEnded DEF Ends, Running
    <3>7. QED
      BY <1>3, <3>1, <3>2, <3>3, <3>4, <3>5, <3>6 DEF Step
  <2>4. QED
    BY <1>3, <2>3, KnownBeside DEF RegistrationsKnown
<1>4. QED
  BY <1>1, <1>2, <1>3 DEF Next, Step

\* A run that has removed a registration says so to its end
LEMMA LossStep == TypeOK /\ LossExplained /\ [Next]_vars => LossExplained'
<1> SUFFICES ASSUME TypeOK, LossExplained, [Next]_vars PROVE LossExplained'
  OBVIOUS
<1>1. CASE UNCHANGED vars \/ \E p \in Project : Edit(p)
  BY <1>1 DEF LossExplained, Replacing, SlotOfRun, vars, Edit
<1>2. ASSUME NEW r \in Run, NEW p \in Project, NEW replace \in BOOLEAN, Start(r, p, replace)
      PROVE  LossExplained'
  <2>1. UNCHANGED <<registered, had>> /\ run[r].pc = "idle"
    BY <1>2 DEF Start, At
  <2>2. ASSUME NEW o \in Run, Replacing(o)
        PROVE  Replacing(o)' /\ SlotOfRun(o)' = SlotOfRun(o)
    <3>1. o # r
      BY <2>1, <2>2 DEF Replacing
    <3>2. /\ run'[o].pc = run[o].pc /\ run'[o].project = run[o].project
          /\ run'[o].result = run[o].result
      BY <1>2, <3>1, HasStarted
    <3>3. QED
      BY <2>2, <3>2 DEF Replacing, SlotOfRun
  <2>3. QED
    BY <2>1, <2>2 DEF LossExplained
<1>3. ASSUME NEW r \in Run, Step(r) PROVE LossExplained'
  <2>1. Advance(r)
    BY <1>3, Advances
  <2>2. SlotOfRun(r) \in Slot /\ SlotOfRun(r)' = SlotOfRun(r)
    BY <2>1, OnboardingAssumption DEF Advance, TypeOK, OnboardingAssumption, SlotOfRun
  <2>3. ASSUME NEW o \in Run, Replacing(o), o # r
        PROVE  Replacing(o)' /\ SlotOfRun(o)' = SlotOfRun(o)
    BY <2>1, <2>3 DEF Advance, Others, Replacing, SlotOfRun
  <2>4. Replacing(r) /\ ~Add(r) => Replacing(r)'
    <3>1. ASSUME Replacing(r), ~Add(r) PROVE Replacing(r)'
      <4>1. run[r].pc = "add"
        BY <2>1, <3>1 DEF Replacing, Advance, Running
      <4>2. End(r, "failed")
        BY <1>3, <3>1, <4>1 DEF Step, Look, Remove, Refused, ReadFile, OpenFile, WriteFile,
           Verify, HostFails, Die, Raise, At
      <4>3. QED
        BY <3>1, <4>2, HasEnded DEF Replacing
    <3>2. QED
      BY <3>1
  <2>5. ASSUME NEW s \in had', registered'[s] = None
        PROVE  \E o \in Run : Replacing(o)' /\ SlotOfRun(o)' = s
    <3>1. CASE Add(r)
      <4>1. s # SlotOfRun(r)
        BY <2>2, <2>5, <3>1, OnboardingAssumption DEF Add, TypeOK, OnboardingAssumption
      <4>2. s \in had /\ registered[s] = None
        BY <2>2, <2>5, <3>1, <4>1 DEF Add, TypeOK
      <4>3. PICK o \in Run : Replacing(o) /\ SlotOfRun(o) = s
        BY <4>2 DEF LossExplained
      <4>4. QED
        BY <2>3, <4>1, <4>3
    <3>2. CASE Remove(r) /\ s = SlotOfRun(r)
      BY <2>2, <3>2, HasRemoved DEF Replacing
    <3>3. CASE ~Add(r) /\ ~(Remove(r) /\ s = SlotOfRun(r))
      <4>1. s \in had /\ registered[s] = None
        <5>1. had' = had
          BY <1>3, <3>3, Spared
        <5>2. CASE Remove(r)
          BY <2>2, <2>5, <3>3, <5>1, <5>2 DEF Remove, TypeOK
        <5>3. CASE ~Remove(r)
          BY <1>3, <2>5, <3>3, <5>1, <5>3, Spared
        <5>4. QED
          BY <5>2, <5>3
      <4>2. PICK o \in Run : Replacing(o) /\ SlotOfRun(o) = s
        BY <4>1 DEF LossExplained
      <4>3. QED
        BY <2>2, <2>3, <2>4, <3>3, <4>2
    <3>4. QED
      BY <3>1, <3>2, <3>3
  <2>6. QED
    BY <2>5 DEF LossExplained
<1>4. QED
  BY <1>1, <1>2, <1>3 DEF Next, Step

---------------------------------------------------------------------------
(* The instruction files *)

Writing(p) == \E o \in Run : Holds(o, p) /\ At(o, "write")

\* A run whose step does not write leaves a file that another one is writing
LEMMA StillWriting ==
  ASSUME TypeOK, NEW r \in Run, Step(r), NEW p \in Project, Writing(p)
  PROVE  \/ Writing(p)' \/ p \in raced'
         \/ WriteFile(r) /\ run[r].project = p
<1>1. PICK o \in Run : run[o].project = p /\ run[o].pc = "write"
  BY DEF Writing, Holds, At
<1>2. CASE o # r
  BY <1>1, <1>2, Advances DEF Advance, Others, Writing, Holds, At
<1>3. CASE o = r
  BY <1>1, <1>3 DEF Step, Look, Remove, Add, Refused, ReadFile, OpenFile, WriteFile, Verify,
     HostFails, Die, At
<1>4. QED
  BY <1>2, <1>3

\* The cases of a step that matter to the files
LEMMA FileCases ==
  ASSUME TypeOK, NEW r \in Run, Step(r)
  PROVE  LET p == run[r].project
         IN  /\ p \in Project
             /\ \/ /\ OpenFile(r) /\ file' = [file EXCEPT ![p] = Empty]
                   /\ run'[r].pc = "write" /\ run'[r].seen = run[r].seen /\ run'[r].project = p
                \/ /\ WriteFile(r) /\ file' = [file EXCEPT ![p] = Updated(run[r].seen)]
                   /\ run'[r].pc = "verify" /\ run'[r].project = p
                \/ /\ ReadFile(r) /\ file' = file
                   /\ run'[r].pc = "open" /\ run'[r].seen = file[p] /\ run'[r].project = p
                \/ file' = file /\ run'[r].pc \notin {"open", "write", "verify"}
<1>1. run[r].project \in Project
  BY Advances DEF Advance, TypeOK
<1>2. CASE OpenFile(r)
  BY <1>1, <1>2, GoneTo DEF OpenFile, Labels
<1>3. CASE WriteFile(r)
  BY <1>1, <1>3, HasWritten DEF WriteFile
<1>4. CASE ReadFile(r)
  BY <1>1, <1>4, HasRead, HasEnded DEF ReadFile
<1>5. CASE Look(r) \/ Remove(r) \/ Add(r)
  <2>1. file' = file
    BY <1>5 DEF Look, Remove, Add
  <2>2. CASE Look(r)
    BY <1>1, <2>1, <2>2, HasLooked
  <2>3. CASE Remove(r)
    BY <1>1, <2>1, <2>3, HasRemoved
  <2>4. CASE Add(r)
    BY <1>1, <2>1, <2>4, GoneTo DEF Add, Labels
  <2>5. QED
    BY <1>5, <2>2, <2>3, <2>4
<1>6. CASE Refused(r) \/ Verify(r) \/ HostFails(r) \/ Die(r)
  <2>1. Ends(r) /\ file' = file
    BY <1>6 DEF Refused, Verify, HostFails, Die, Raise, Ends
  <2>2. QED
    BY <1>1, <2>1, HasEnded DEF Ends
<1>7. QED
  BY <1>2, <1>3, <1>4, <1>5, <1>6 DEF Step

FilesKept == TextHeld /\ InstructionsKept /\ BlockThere

\* A step that leaves the files alone, and of the runs only what they know of
\* each other
LEMMA FilesAlone ==
  ASSUME TypeOK, FilesKept, UNCHANGED <<file, wrote, raced>>,
         \A o \in Run : run'[o].pc \in {"open", "write", "verify"} \/ run[o].pc = "write" =>
           /\ run'[o].pc = run[o].pc /\ run'[o].project = run[o].project
           /\ run'[o].seen = run[o].seen
  PROVE  FilesKept'
<1>1. TextHeld'
  BY DEF FilesKept, TextHeld
<1>2. InstructionsKept'
  BY DEF FilesKept, InstructionsKept, Holds, At
<1>3. BlockThere'
  BY DEF FilesKept, BlockThere, Holds, At
<1>4. QED
  BY <1>1, <1>2, <1>3 DEF FilesKept

LEMMA FilesStep == TypeOK /\ FilesKept /\ [Next]_vars => FilesKept'
<1> SUFFICES ASSUME TypeOK, FilesKept, [Next]_vars PROVE FilesKept'
  OBVIOUS
<1>1. CASE UNCHANGED vars
  BY <1>1, FilesAlone DEF vars
<1>2. ASSUME NEW r \in Run, NEW p \in Project, NEW replace \in BOOLEAN, Start(r, p, replace)
      PROVE  FilesKept'
  <2>1. UNCHANGED <<file, wrote, raced>> /\ run[r].pc = "idle"
    BY <1>2 DEF Start, At
  <2>2. run'[r].pc = "look"
    BY <1>2, HasStarted
  <2>3. QED
    BY <1>2, <2>1, <2>2, HasStarted, FilesAlone
<1>3. ASSUME NEW r \in Run, Step(r) PROVE FilesKept'
  <2> DEFINE p == run[r].project
  <2>1. p \in Project /\ Others(r) /\ wrote' = wrote /\ raced \subseteq raced'
    BY <1>3, FileCases, Advances, Spared DEF Advance
  <2>2. TextHeld'
    <3>1. ASSUME NEW o \in Run, run'[o].pc \in {"open", "write"}
          PROVE  run'[o].seen.text = wrote'[run'[o].project] \/ run'[o].project \in raced'
      <4>1. CASE o # r
        BY <2>1, <3>1, <4>1 DEF Others, FilesKept, TextHeld
      <4>2. CASE o = r /\ OpenFile(r)
        <5>1. run'[r].seen = run[r].seen /\ run'[r].project = p /\ run[r].pc = "open"
          BY <1>3, <4>2, FileCases, GoneTo DEF OpenFile, Labels, At
        <5>2. QED
          BY <2>1, <4>2, <5>1 DEF FilesKept, TextHeld
      <4>3. CASE o = r /\ ReadFile(r)
        <5>1. run'[r].seen = file[p] /\ run'[r].project = p
          BY <2>1, <3>1, <4>3, HasRead, HasEnded
        <5>2. raced' = IF Writing(p) THEN raced \cup {p} ELSE raced
          BY <4>3 DEF ReadFile, Writing
        <5>3. file[p].text = wrote[p] \/ Writing(p) \/ p \in raced
          BY <2>1 DEF FilesKept, InstructionsKept, Writing
        <5>4. QED
          BY <2>1, <4>3, <5>1, <5>2, <5>3
      <4>4. QED
        BY <1>3, <3>1, <4>1, <4>2, <4>3, FileCases
    <3>2. QED
      BY <3>1 DEF TextHeld
  <2>3. ASSUME NEW q \in Project
        PROVE  file'[q].text = wrote'[q] \/ Writing(q)' \/ q \in raced'
    <3>1. CASE OpenFile(r) /\ q = p
      BY <1>3, <3>1, GoneTo DEF OpenFile, Labels, Writing, Holds, At
    <3>2. CASE WriteFile(r) /\ q = p
      <4>1. run[r].pc = "write" /\ file'[q] = Updated(run[r].seen)
        BY <2>1, <3>2 DEF WriteFile, At, TypeOK
      <4>2. run[r].seen \in Content
        BY DEF TypeOK, RunState
      <4>3. Updated(run[r].seen).text = run[r].seen.text
        BY <4>2 DEF Updated, Content
      <4>4. QED
        BY <2>1, <3>2, <4>1, <4>3 DEF FilesKept, TextHeld
    <3>3. CASE q # p \/ ~(OpenFile(r) \/ WriteFile(r))
      <4>1. file'[q] = file[q]
        BY <1>3, <2>1, <3>3, FileCases DEF TypeOK
      <4>2. file[q].text = wrote[q] \/ Writing(q) \/ q \in raced
        BY DEF FilesKept, InstructionsKept, Writing
      <4>3. Writing(q) => Writing(q)' \/ q \in raced'
        BY <1>3, <3>3, StillWriting
      <4>4. QED
        BY <2>1, <4>1, <4>2, <4>3
    <3>4. QED
      BY <3>1, <3>2, <3>3
  <2>4. ASSUME NEW o \in Run, run'[o].pc = "verify",
               NEW q \in Project, run'[o].project = q
        PROVE  file'[q].block = "current" \/ Writing(q)' \/ q \in raced'
    <3>1. CASE WriteFile(r) /\ q = p
      <4>1. file'[q] = Updated(run[r].seen) /\ run[r].seen \in Content
        BY <2>1, <3>1 DEF WriteFile, TypeOK, RunState
      <4>2. QED
        BY <4>1 DEF Updated, Content
    <3>2. CASE OpenFile(r) /\ q = p
      BY <1>3, <3>2, GoneTo DEF OpenFile, Labels, Writing, Holds, At
    <3>3. CASE ~(WriteFile(r) /\ q = p) /\ ~(OpenFile(r) /\ q = p)
      <4>1. o # r /\ run'[o] = run[o]
        BY <1>3, <2>1, <2>4, <3>3, FileCases DEF Others
      <4>2. run[o].project = q /\ run[o].pc = "verify"
        BY <2>4, <4>1
      <4>3. file'[q] = file[q]
        BY <1>3, <2>1, <3>3, <4>2, FileCases DEF TypeOK
      <4>4. file[q].block = "current" \/ Writing(q) \/ q \in raced
        BY <4>2 DEF FilesKept, BlockThere, Writing, At
      <4>5. Writing(q) => Writing(q)' \/ q \in raced'
        BY <1>3, <3>3, <4>2, StillWriting
      <4>6. QED
        BY <2>1, <4>3, <4>4, <4>5
    <3>4. QED
      BY <3>1, <3>2, <3>3
  <2>5. \A o \in Run : run'[o].pc = "verify" => run'[o].project \in Project
    BY TypeStep DEF TypeOK, Running
  <2>6. BlockThere'
    BY <2>4, <2>5 DEF BlockThere, Writing, At
  <2>7. QED
    BY <2>2, <2>3, <2>6 DEF FilesKept, InstructionsKept, Writing
<1>4. ASSUME NEW p \in Project, Edit(p) PROVE FilesKept'
  <2>1. PICK content \in [text : Text, block : {"none", "broken", file[p].block}] :
          file' = [file EXCEPT ![p] = content] /\ wrote' = [wrote EXCEPT ![p] = content.text]
    BY <1>4 DEF Edit
  <2>2. /\ file'[p].text = wrote'[p]
        /\ \A q \in Project \ {p} : file'[q] = file[q] /\ wrote'[q] = wrote[q]
    BY <2>1 DEF TypeOK
  <2>3. run' = run /\ raced \subseteq raced'
    BY <1>4 DEF Edit
  <2>4. \A r \in Run : run[r].project = p /\ run[r].pc \in {"open", "write", "verify"} =>
          p \in raced'
    BY <1>4 DEF Edit, Holds, At
  <2>5. \A r \in Run : run[r].pc \in {"open", "write", "verify"} => run[r].project \in Project
    BY DEF TypeOK, Running
  <2>6. TextHeld'
    BY <2>2, <2>3, <2>4, <2>5 DEF FilesKept, TextHeld
  <2>7. InstructionsKept'
    BY <2>2, <2>3 DEF FilesKept, InstructionsKept, Holds, At
  <2>8. BlockThere'
    BY <2>2, <2>3, <2>4, <2>5 DEF FilesKept, BlockThere, Holds, At
  <2>9. QED
    BY <2>6, <2>7, <2>8 DEF FilesKept
<1>5. QED
  BY <1>1, <1>2, <1>3, <1>4 DEF Next, Step

---------------------------------------------------------------------------
(* The theorems *)

LEMMA IInvInit == Init => IInv
<1> SUFFICES ASSUME Init PROVE IInv
  OBVIOUS
<1>1. \A r \in Run : run[r].pc = "idle"
  BY UnbegunFacts DEF Init
<1>2. Met /\ RegistrationsKnown /\ TextHeld /\ BlockThere
  BY <1>1 DEF Met, RegistrationsKnown, Known, TextHeld, BlockThere, Running, At
<1>3. LossExplained
  BY DEF Init, LossExplained
<1>4. InstructionsKept
  BY DEF Init, InstructionsKept
<1>5. QED
  BY <1>2, <1>3, <1>4, TypeInit DEF IInv

LEMMA IInvStep == IInv /\ [Next]_vars => IInv'
BY TypeStep, MetStep, KnownStep, LossStep, FilesStep DEF IInv, FilesKept

\* The strengthening holds of every behaviour: overlapping runs know of each
\* other, and what a run has learnt, read or written is still so unless another
\* run or the user changed it beside it.
THEOREM Invariance == Spec => []IInv
BY IInvInit, IInvStep, PTL DEF Spec

\* design/codex-mcp.md 74: what the user last wrote into an instruction file is
\* there, however many runs rewrite it, fail or overlap, unless one of them is
\* writing it at the moment or it was read or edited in the middle of a rewrite
\* (_upsert_instruction_block, onboarding.py).
THEOREM InstructionsAreKept == Spec => []InstructionsKept
BY Invariance, PTL DEF IInv

LEMMA ReplacementStep ==
  ASSUME IInv, [Next]_vars, NEW s \in Slot, registered[s] # None, registered'[s] # registered[s]
  PROVE  \E r \in Run :
           /\ Running(r) /\ SlotOfRun(r) = s
           /\ \/ run[r].replace
              \/ run[r].misled
              \/ registered[s] \in run[r].beside
<1>1. PICK r \in Run : Remove(r) \/ Add(r)
  BY Spared DEF IInv, Next, Step, vars, Start, Edit
<1>2. Running(r) /\ SlotOfRun(r) = s
  BY <1>1 DEF Remove, Add, Running, At, IInv, TypeOK
<1>3. Known(r) /\ (At(r, "remove") \/ At(r, "add"))
  BY <1>1 DEF IInv, RegistrationsKnown, Remove, Add
<1>4. QED
  BY <1>2, <1>3 DEF Known, Entry

\* codex-mcp.md 42: a run takes a registration away or overwrites it only with
\* --replace, or when the host did not show it the registration or a run beside
\* it has made it since; and a slot that once had one lacks it only between the
\* two commands of a replacement, or after one that failed
\* (onboard_host, onboarding.py 87-98).
THEOREM RegistrationsKept == Spec => RegistrationKept
<1>1. IInv /\ [Next]_vars =>
        [\A s \in Slot : registered[s] # None /\ registered'[s] # registered[s] =>
           \E r \in Run :
             /\ Running(r) /\ SlotOfRun(r) = s
             /\ \/ run[r].replace
                \/ run[r].misled
                \/ registered[s] \in run[r].beside]_vars
  BY ReplacementStep
<1>2. IInv => \A s \in had : registered[s] = None =>
        \E r \in Run : /\ run[r].result = "replaced" /\ SlotOfRun(r) = s
                       /\ run[r].pc \in {"add", "failed"}
  BY DEF IInv, LossExplained, Replacing
<1>3. QED
  BY <1>1, <1>2, Invariance, PTL DEF Spec, RegistrationKept

LEMMA SuccessStep ==
  ASSUME IInv, [Next]_vars, NEW r \in Run, ~At(r, "done"), At(r, "done")'
  PROVE  LET p == run[r].project
             entry == registered[SlotOfRun(r)]
         IN  /\ entry # None
             /\ run[r].result # "existing" => entry = r \/ entry \in run[r].beside
             /\ \/ file[p].block = "current"
                \/ \E o \in Run : Holds(o, p) /\ At(o, "write")
                \/ p \in raced
<1>1. Verify(r) /\ Verified(r)
  <2>1. TypeOK
    BY DEF IInv
  <2>2. CASE UNCHANGED vars \/ \E p \in Project : Edit(p)
    BY <2>2 DEF vars, Edit, At
  <2>3. ASSUME NEW o \in Run, NEW p \in Project, NEW replace \in BOOLEAN, Start(o, p, replace)
        PROVE  FALSE
    BY <2>1, <2>3, HasStarted DEF At
  <2>4. ASSUME NEW o \in Run, Step(o) PROVE Verify(r) /\ Verified(r)
    <3>1. o = r
      BY <2>1, <2>4, Advances DEF Advance, Others, At
    <3>2. run'[r].pc = "done"
      BY DEF At
    <3>3. ~End(r, "failed")
      BY <2>1, <3>2, HasEnded
    <3>4. ~Look(r) /\ ~Remove(r) /\ ~Add(r) /\ ~OpenFile(r) /\ ~WriteFile(r)
      BY <2>1, <3>2, HasLooked, HasRemoved, HasWritten, GoneTo DEF Add, OpenFile, Labels
    <3>5. ~ReadFile(r)
      <4>1. run[r].project \in Project
        BY <2>1, <2>4, <3>1, Advances DEF Advance, TypeOK
      <4>2. QED
        BY <2>1, <3>2, <3>3, <4>1, HasRead
    <3>6. QED
      BY <2>4, <3>1, <3>3, <3>4, <3>5 DEF Step, Refused, HostFails, Die, Raise, Verify
  <2>5. QED
    BY <2>2, <2>3, <2>4 DEF Next, Step
<1>2. At(r, "verify") /\ Entry(r) # None
  BY <1>1 DEF Verify, Verified, Entry
<1>3. QED
  BY <1>2 DEF IInv, RegistrationsKnown, Known, Entry, BlockThere, At

\* A run that reports success leaves a registration, its own or that of a run
\* beside it if it says it made one, and its block in the file, unless the file
\* is being rewritten or was edited meanwhile (onboard_host, onboarding.py 100-108).
THEOREM SuccessesAreUsable == Spec => SuccessIsUsable
<1>1. IInv /\ [Next]_vars =>
        [\A r \in Run : ~At(r, "done") /\ At(r, "done")' =>
           LET p == run[r].project
               entry == registered[SlotOfRun(r)]
           IN  /\ entry # None
               /\ run[r].result # "existing" => entry = r \/ entry \in run[r].beside
               /\ \/ file[p].block = "current"
                  \/ \E o \in Run : Holds(o, p) /\ At(o, "write")
                  \/ p \in raced]_vars
  BY SuccessStep
<1>2. QED
  BY <1>1, Invariance, PTL DEF Spec, SuccessIsUsable
=============================================================================
