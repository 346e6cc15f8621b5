----------------------------- MODULE PilotProofs -----------------------------
(***************************************************************************)
(* Proofs about Pilot, for any number of studies, scenarios, blindings,    *)
(* reviews and deaths: what a study has saved is overwritten only by one   *)
(* that runs beside it, ratings are not lost, a review is exact, and an    *)
(* analysis scores what was rated.                                         *)
(***************************************************************************)
EXTENDS Pilot, TLAPS

ArtifactFile ==
  {NoFile, Torn} \cup [state : {"whole"}, by : Study, outcome : Outcomes \cup {"none"}]

StudyState ==
  [pc : {"idle", "scan", "collect", "write", "drain", "ended"}, resume : BOOLEAN, next : Int,
   pending : SUBSET Scenario, beside : SUBSET Study, writing : Scenario \cup {0},
   made : Outcomes \cup {"none"}]

StudiesTyped ==
  /\ files \in [Scenario -> ArtifactFile]
  /\ study \in [Study -> StudyState]
  /\ replaced \subseteq Scenario

Row == [id : Scenario, scenario : Scenario, response : Scenario \X Study]
Rating == [id : Scenario, response : Scenario \X Study]
Groups == UNION {[gs -> Nat] : gs \in SUBSET SUBSET Row}

FilesTyped ==
  /\ packet \in {NoFile, Torn} \cup [state : {"whole"}, rows : SUBSET Row]
  /\ key \in {NoFile, Torn} \cup [state : {"whole"}, rows : SUBSET Row]
  /\ checkpoint \in {NoFile, Torn} \cup [state : {"whole"}, rows : SUBSET Rating]
  /\ blind \in [pc : {"idle", "packet", "key"}, rows : SUBSET Row]
  /\ review \in [pc : {"idle", "collect", "write", "final", "drain"}, rows : SUBSET Row,
                 rated : SUBSET Rating, batch : Groups]

---------------------------------------------------------------------------
(* Studies *)

Busy == {"scan", "collect", "write"}

\* A study holds what it has handed out and what it is writing only while it
\* runs, and each scenario once
ClaimsHeld ==
  \A p \in Study :
    /\ study[p].pc \notin Busy => study[p].pending = {}
    /\ study[p].pc = "write" <=> study[p].writing # 0
    /\ study[p].writing \notin study[p].pending

\* Two studies that run know of each other
KnownBeside ==
  \A p, o \in Study :
    study[p].pc \in Busy /\ Alive(o) /\ o # p => o \in study[p].beside

\* An artifact of a scenario that a study has still to write was made beside it
ClaimsFresh ==
  \A p \in Study, s \in Scenario :
    s \in study[p].pending \cup {study[p].writing} /\ IsWhole(files[s]) =>
      files[s].by \in study[p].beside

StudyInv == StudiesTyped /\ ClaimsHeld /\ KnownBeside /\ ClaimsFresh

\* What files are, so that the proofs need not look into them
LEMMA FileFacts ==
  /\ NoFile \in ArtifactFile /\ Torn \in ArtifactFile
  /\ ~IsWhole(NoFile) /\ ~IsWhole(Torn) /\ ~Exists(NoFile)
  /\ \A f : IsWhole(f) => Exists(f)
  /\ \A p \in Study, outcome \in Outcomes \cup {"none"} :
       /\ Artifact(p, outcome) \in ArtifactFile /\ IsWhole(Artifact(p, outcome))
       /\ Artifact(p, outcome).by = p /\ Artifact(p, outcome).outcome = outcome
  /\ \A f \in ArtifactFile : IsWhole(f) => f.by \in Study
  /\ \A rows : IsWhole(Holding(rows)) /\ Holding(rows).rows = rows
<1>1. NoFile \in ArtifactFile /\ Torn \in ArtifactFile
  BY DEF ArtifactFile
<1>2. ~IsWhole(NoFile) /\ ~IsWhole(Torn) /\ ~Exists(NoFile)
  BY DEF NoFile, Torn, IsWhole, Exists
<1>3. \A f : IsWhole(f) => Exists(f)
  BY DEF IsWhole, Exists
<1>4. ASSUME NEW p \in Study, NEW outcome \in Outcomes \cup {"none"}
      PROVE  /\ Artifact(p, outcome) \in ArtifactFile /\ IsWhole(Artifact(p, outcome))
             /\ Artifact(p, outcome).by = p /\ Artifact(p, outcome).outcome = outcome
  BY DEF ArtifactFile, Artifact, IsWhole
<1>5. ASSUME NEW f \in ArtifactFile, IsWhole(f) PROVE f.by \in Study
  <2>1. f # NoFile /\ f # Torn
    BY <1>2, <1>5
  <2>2. QED
    BY <2>1 DEF ArtifactFile
<1>6. \A rows : IsWhole(Holding(rows)) /\ Holding(rows).rows = rows
  BY DEF IsWhole, Holding
<1>7. QED
  BY <1>1, <1>2, <1>3, <1>4, <1>5, <1>6

\* A study that has not begun or has ended is blank
LEMMA BlankFacts ==
  /\ Blank \in StudyState /\ Ended \in StudyState
  /\ Ended.pc = "ended" /\ Ended.pending = {} /\ Ended.writing = 0
  /\ Blank.pc = "idle" /\ Blank.pending = {} /\ Blank.writing = 0
<1>1. Blank.pc = "idle" /\ Blank.pending = {} /\ Blank.writing = 0
  BY DEF Blank
<1>2. Ended.pc = "ended" /\ Ended.pending = {} /\ Ended.writing = 0
  BY DEF Blank, Ended
<1>3. Blank \in StudyState
  BY DEF Blank, StudyState
<1>4. Ended \in StudyState
  BY <1>3 DEF Ended, StudyState
<1>5. QED
  BY <1>1, <1>2, <1>3, <1>4

\* A study that looks at one scenario more, or begins to run what it has taken
LEMMA LookedFurther ==
  ASSUME NEW st \in StudyState, NEW n \in Int
  PROVE  /\ \A pending \in SUBSET Scenario :
              [st EXCEPT !.next = n, !.pending = pending] \in StudyState
         /\ [st EXCEPT !.pc = "collect", !.next = n, !.resume = FALSE] \in StudyState
<1> DEFINE further == [st EXCEPT !.next = n]
<1>1. further \in StudyState
  BY DEF StudyState
<1> HIDE DEF further
<1>2. /\ \A pending \in SUBSET Scenario : [further EXCEPT !.pending = pending] \in StudyState
      /\ [further EXCEPT !.pc = "collect", !.resume = FALSE] \in StudyState
  BY <1>1 DEF StudyState
<1>3. QED
  BY <1>2 DEF further

\* Before the first study there is no artifact
LEMMA StudyInitial == ASSUME StudyAssumption, StudyInit PROVE StudyInv
BY FileFacts, BlankFacts DEF StudyAssumption, StudyInit, StudyInv, StudiesTyped, ClaimsHeld,
   KnownBeside, ClaimsFresh, Busy

\* A step that changes one study only, and only in what it holds
LEMMA StudyMoves ==
  ASSUME StudyAssumption, StudyInv, NEW p \in Study, NEW st \in StudyState,
         study' = [study EXCEPT ![p] = st], replaced' \subseteq Scenario,
         files' \in [Scenario -> ArtifactFile],
         st.pc \notin Busy => st.pending = {},
         st.pc = "write" <=> st.writing # 0,
         st.writing \notin st.pending,
         Alive(p),
         st.pc \in Busy => st.beside = study[p].beside /\ study[p].pc \in Busy,
         \A s \in Scenario : IsWhole(files'[s]) =>
           \/ files'[s] = files[s]
           \/ files'[s].by = p /\ s \notin st.pending \cup {st.writing},
         \A s \in Scenario : s \in st.pending \cup {st.writing} /\ IsWhole(files'[s]) =>
           s \in study[p].pending \cup {study[p].writing}
  PROVE  StudyInv'
<1>1. study'[p] = st /\ \A q \in Study \ {p} : study'[q] = study[q]
  BY DEF StudyInv, StudiesTyped
<1>2. StudiesTyped'
  BY DEF StudyInv, StudiesTyped
<1>3. ClaimsHeld'
  BY <1>1 DEF StudyInv, ClaimsHeld
<1>4. \A q \in Study : Alive(q)' => Alive(q)
  BY <1>1 DEF Alive
<1>5. KnownBeside'
  BY <1>1, <1>4 DEF StudyInv, KnownBeside
<1>6. ASSUME NEW q \in Study, NEW s \in Scenario,
             s \in study'[q].pending \cup {study'[q].writing}, IsWhole(files'[s])
      PROVE  files'[s].by \in study'[q].beside
  <2>1. CASE q = p
    <3>1. st.pc \in Busy
      BY <1>1, <1>6, <2>1 DEF Busy, StudyAssumption
    <3>2. files'[s] = files[s] /\ s \in study[p].pending \cup {study[p].writing}
      BY <1>1, <1>6, <2>1
    <3>3. QED
      BY <1>1, <1>6, <2>1, <3>1, <3>2 DEF StudyInv, ClaimsFresh
  <2>2. CASE q # p
    <3>1. s \in study[q].pending \cup {study[q].writing} /\ study'[q] = study[q]
      BY <1>1, <1>6, <2>2
    <3>2. study[q].pc \in Busy
      BY <3>1 DEF StudyInv, ClaimsHeld, Busy, StudyAssumption
    <3>3. CASE files'[s] = files[s]
      BY <1>6, <3>1, <3>3 DEF StudyInv, ClaimsFresh
    <3>4. CASE files'[s].by = p
      BY <2>2, <3>1, <3>2, <3>4 DEF StudyInv, KnownBeside
    <3>5. QED
      BY <1>6, <3>3, <3>4
  <2>3. QED
    BY <2>1, <2>2
<1>7. QED
  BY <1>2, <1>3, <1>5, <1>6 DEF StudyInv, ClaimsFresh

\* A study that starts knows the ones that run, and they know it (cli.py 272-307)
LEMMA StudyStarts ==
  ASSUME StudyAssumption, StudyInv, NEW p \in Study, NEW resume \in BOOLEAN, StartStudy(p, resume)
  PROVE  StudyInv'
<1> DEFINE new == [Blank EXCEPT !.pc = "scan", !.resume = resume, !.beside = {q \in Study : Alive(q)}]
<1>1. /\ new \in StudyState /\ new.pc = "scan" /\ new.pending = {} /\ new.writing = 0
      /\ new.beside = {q \in Study : Alive(q)}
  BY BlankFacts DEF StudyState
<1> HIDE DEF new
<1>2. /\ study'[p] = new
      /\ \A q \in Study \ {p} : Alive(q) => study'[q] = [study[q] EXCEPT !.beside = @ \cup {p}]
      /\ \A q \in Study \ {p} : ~Alive(q) => study'[q] = study[q]
      /\ study' = [q \in Study |-> study'[q]]
  BY DEF StartStudy, new
<1>3. \A q \in Study \ {p} :
        /\ study'[q] \in StudyState /\ study'[q].pc = study[q].pc
        /\ study'[q].pending = study[q].pending /\ study'[q].writing = study[q].writing
        /\ study[q].beside \subseteq study'[q].beside
        /\ Alive(q) => p \in study'[q].beside
  <2>1. ASSUME NEW q \in Study \ {p}
        PROVE  /\ study'[q] \in StudyState /\ study'[q].pc = study[q].pc
               /\ study'[q].pending = study[q].pending /\ study'[q].writing = study[q].writing
               /\ study[q].beside \subseteq study'[q].beside
               /\ Alive(q) => p \in study'[q].beside
    <3>1. study[q] \in StudyState
      BY DEF StudyInv, StudiesTyped
    <3>2. CASE Alive(q)
      BY <1>2, <3>1, <3>2 DEF StudyState
    <3>3. CASE ~Alive(q)
      BY <1>2, <3>1, <3>3
    <3>4. QED
      BY <3>2, <3>3
  <2>2. QED
    BY <2>1
<1>4. UNCHANGED <<files, replaced>>
  BY DEF StartStudy
<1>5. StudiesTyped'
  BY <1>1, <1>2, <1>3, <1>4 DEF StudyInv, StudiesTyped
<1>6. ClaimsHeld'
  BY <1>1, <1>2, <1>3 DEF StudyInv, ClaimsHeld
<1>7. \A q \in Study : Alive(q)' => Alive(q) \/ q = p
  BY <1>3 DEF Alive
<1>8. KnownBeside'
  BY <1>1, <1>2, <1>3, <1>7 DEF StudyInv, KnownBeside, Busy, Alive
<1>9. ClaimsFresh'
  BY <1>1, <1>2, <1>3, <1>4, StudyAssumption DEF StudyInv, ClaimsFresh
<1>10. QED
  BY <1>5, <1>6, <1>8, <1>9 DEF StudyInv

\* Every step of every study keeps what it holds, its type and whose artifact
\* it may meet: it takes only scenarios without a file (Verdict)
LEMMA StudyKept == ASSUME StudyAssumption, StudyInv, StudyNext PROVE StudyInv'
<1>1. ASSUME NEW p \in Study, NEW resume \in BOOLEAN, StartStudy(p, resume) PROVE StudyInv'
  BY <1>1, StudyStarts
<1>2. ASSUME NEW s \in Scenario, RemoveTorn(s) PROVE StudyInv'
  <2>1. files' = [files EXCEPT ![s] = NoFile] /\ UNCHANGED <<study, replaced>>
    BY <1>2 DEF RemoveTorn
  <2>2. StudiesTyped'
    BY <2>1, FileFacts DEF StudyInv, StudiesTyped
  <2>3. \A t \in Scenario : IsWhole(files'[t]) => files'[t] = files[t]
    BY <2>1, FileFacts DEF StudyInv, StudiesTyped
  <2>4. QED
    BY <2>1, <2>2, <2>3 DEF StudyInv, ClaimsHeld, KnownBeside, ClaimsFresh, Alive
<1>3. ASSUME NEW p \in Study, StudyStep(p) \/ StudyDies(p) PROVE StudyInv'
  <2>1. study[p] \in StudyState
    BY DEF StudyInv, StudiesTyped
  <2>2. CASE Scan(p)
    <3> DEFINE s == study[p].next
               verdict == Verdict(files[s], study[p].resume)
               scanned == [study[p] EXCEPT !.next = @ + 1,
                                           !.pending = IF verdict = "take" THEN @ \cup {s} ELSE @]
               st == IF verdict = "refuse" THEN Ended ELSE scanned
    <3>1. /\ study[p].pc = "scan" /\ s \in Scenario
          /\ study' = [study EXCEPT ![p] = st]
          /\ UNCHANGED <<files, replaced>>
      BY <2>2 DEF Scan
    <3>2. verdict = "take" => ~IsWhole(files[s])
      BY FileFacts DEF Verdict
    <3>3. /\ scanned \in StudyState /\ scanned.pc = "scan" /\ scanned.writing = study[p].writing
          /\ scanned.beside = study[p].beside
          /\ \A t \in scanned.pending : t \in study[p].pending \/ (t = s /\ verdict = "take")
      <4> HIDE DEF verdict
      <4>1. scanned \in StudyState
        <5> DEFINE pending == IF verdict = "take" THEN study[p].pending \cup {s}
                                                  ELSE study[p].pending
        <5>1. pending \in SUBSET Scenario /\ s + 1 \in Int
          BY <2>1, <3>1 DEF StudyState
        <5>2. [study[p] EXCEPT !.next = s + 1, !.pending = pending] \in StudyState
          <6> HIDE DEF pending
          <6>1. QED
            BY <2>1, <5>1, LookedFurther
        <5>3. QED
          BY <5>2
      <4>2. /\ scanned.pc = "scan" /\ scanned.writing = study[p].writing
            /\ scanned.beside = study[p].beside
        BY <2>1, <3>1 DEF StudyState
      <4>3. scanned.pending = IF verdict = "take" THEN study[p].pending \cup {s} ELSE study[p].pending
        BY <2>1 DEF StudyState
      <4>4. QED
        BY <4>1, <4>2, <4>3
    <3> HIDE DEF scanned, verdict
    <3>4. study[p].writing = 0 /\ 0 \notin Scenario
      BY <3>1 DEF StudyInv, ClaimsHeld, StudyAssumption
    <3>5. CASE st = Ended
      <4> HIDE DEF s
      <4>1. QED
        BY <3>1, <3>4, <3>5, BlankFacts, StudyMoves DEF StudyInv, StudiesTyped, Busy, Alive
    <3>6. CASE st = scanned
      <4>1. scanned.pending \subseteq Scenario
        BY <3>3 DEF StudyState
      <4> HIDE DEF st
      <4>2. QED
        BY <3>1, <3>2, <3>3, <3>4, <3>6, <4>1, StudyMoves DEF StudyInv, StudiesTyped, Busy, Alive
    <3>7. QED
      BY <3>5, <3>6
  <2>3. CASE Submit(p)
    <3> DEFINE st == [study[p] EXCEPT !.pc = "collect", !.next = 1, !.resume = FALSE]
    <3>1. /\ study[p].pc = "scan"
          /\ study' = [study EXCEPT ![p] = st]
          /\ UNCHANGED <<files, replaced>>
      BY <2>1, <2>3 DEF Submit, StudyInv, StudiesTyped, StudyState
    <3>2. /\ st \in StudyState /\ st.pc = "collect" /\ st.pending = study[p].pending
          /\ st.writing = study[p].writing /\ st.beside = study[p].beside
      <4>1. st \in StudyState
        <5>1. 1 \in Int
          OBVIOUS
        <5>2. \A n \in Int :
                [study[p] EXCEPT !.pc = "collect", !.next = n, !.resume = FALSE] \in StudyState
          BY <2>1, LookedFurther, Zenon
        <5>3. QED
          BY <5>1, <5>2, Zenon
      <4>2. QED
        BY <2>1, <4>1 DEF StudyState
    <3> HIDE DEF st
    <3>3. st.writing = 0 /\ st.writing \notin st.pending
      BY <3>1, <3>2 DEF StudyInv, ClaimsHeld
    <3>4. QED
      BY <3>1, <3>2, <3>3, StudyMoves DEF StudyInv, StudiesTyped, Busy, Alive
  <2>4. ASSUME NEW s \in Scenario, NEW outcome \in Outcomes, OpenArtifact(p, s, outcome)
        PROVE  StudyInv'
    <3> DEFINE st == [study[p] EXCEPT !.pc = "write", !.pending = @ \ {s},
                                      !.writing = s, !.made = outcome]
    <3>1. /\ study[p].pc = "collect" /\ s \in study[p].pending
          /\ study' = [study EXCEPT ![p] = st]
          /\ files' = [files EXCEPT ![s] = Torn]
          /\ replaced' \subseteq replaced \cup {s}
      BY <2>1, <2>4 DEF OpenArtifact, StudyInv, StudiesTyped, StudyState
    <3>2. /\ st \in StudyState /\ st.pc = "write" /\ st.pending = study[p].pending \ {s}
          /\ st.writing = s /\ st.beside = study[p].beside
      BY <2>1 DEF StudyState
    <3> HIDE DEF st
    <3>3. /\ files' \in [Scenario -> ArtifactFile]
          /\ \A t \in Scenario : IsWhole(files'[t]) => files'[t] = files[t] /\ t # s
      BY <3>1, FileFacts DEF StudyInv, StudiesTyped
    <3>4. replaced' \subseteq Scenario
      BY <3>1 DEF StudyInv, StudiesTyped
    <3>5. QED
      BY <3>1, <3>2, <3>3, <3>4, StudyMoves DEF Busy, Alive
  <2>5. CASE WriteArtifact(p)
    <3> DEFINE st == [study[p] EXCEPT !.pc = "collect", !.writing = 0, !.made = "none"]
               s == study[p].writing
               made == Artifact(p, study[p].made)
    <3>1. /\ study[p].pc = "write"
          /\ files' = [files EXCEPT ![s] = made] \/ files' = [files EXCEPT ![s] = Torn]
          /\ study' = [study EXCEPT ![p] = st]
          /\ replaced' = replaced \/ (IsWhole(files[s]) /\ replaced' = replaced \cup {s})
      <4>1. \E file \in {made, Torn} : files' = [files EXCEPT ![s] = file]
        BY <2>5 DEF WriteArtifact
      <4>2. QED
        BY <2>1, <2>5, <4>1 DEF WriteArtifact, StudyInv, StudiesTyped, StudyState
    <3>2. /\ st \in StudyState /\ st.pc = "collect" /\ st.pending = study[p].pending
          /\ st.writing = 0 /\ st.beside = study[p].beside
      BY <2>1 DEF StudyState
    <3>3. study[p].made \in Outcomes \cup {"none"} /\ s \in Scenario \cup {0}
      BY <2>1 DEF StudyState
    <3>4. made \in ArtifactFile /\ made.by = p
      BY <3>3, FileFacts
    <3>5. s \notin st.pending /\ 0 \notin Scenario /\ s \in Scenario
      BY <3>1, <3>2, <3>3 DEF StudyInv, ClaimsHeld, StudyAssumption
    <3> HIDE DEF st, s, made
    <3>6. /\ files' \in [Scenario -> ArtifactFile]
          /\ \A t \in Scenario : IsWhole(files'[t]) =>
               files'[t] = files[t] \/ (files'[t].by = p /\ t = s)
      BY <3>1, <3>3, <3>4, FileFacts DEF StudyInv, StudiesTyped
    <3>7. replaced' \subseteq Scenario
      BY <3>1, <3>3, <3>5 DEF StudyInv, StudiesTyped
    <3>8. \A t \in Scenario : t \in st.pending \cup {st.writing} => t \in study[p].pending
      BY <3>2, <3>5
    <3>9. \A t \in Scenario : IsWhole(files'[t]) =>
            files'[t] = files[t] \/ (files'[t].by = p /\ t \notin st.pending \cup {st.writing})
      BY <3>2, <3>5, <3>6
    <3>10. 0 \notin st.pending
      BY <3>2, <3>5 DEF StudyState
    <3>11. QED
      BY <3>1, <3>2, <3>6, <3>7, <3>8, <3>9, <3>10, StudyMoves DEF Busy, Alive
  <2>6. ASSUME NEW s \in Scenario, RunRaises(p, s) PROVE StudyInv'
    <3> DEFINE st == [Ended EXCEPT !.pc = "drain"]
    <3>1. study[p].pc = "collect" /\ study' = [study EXCEPT ![p] = st] /\ UNCHANGED <<files, replaced>>
      BY <2>6 DEF RunRaises
    <3>2. st \in StudyState /\ st.pc = "drain" /\ st.pending = {} /\ st.writing = 0
      BY BlankFacts DEF StudyState
    <3> HIDE DEF st
    <3>3. QED
      BY <3>1, <3>2, StudyMoves DEF StudyInv, StudiesTyped, StudyAssumption, Busy, Alive
  <2>7. CASE EndStudy(p) \/ StudyDies(p)
    <3>1. Alive(p) /\ study' = [study EXCEPT ![p] = Ended] /\ UNCHANGED <<files, replaced>>
      BY <2>7 DEF EndStudy, StudyDies, Alive
    <3>2. QED
      BY <3>1, BlankFacts, StudyMoves DEF StudyInv, StudiesTyped, StudyAssumption, Busy
  <2>8. QED
    BY <1>3, <2>2, <2>3, <2>4, <2>5, <2>6, <2>7 DEF StudyStep
<1>4. QED
  BY <1>1, <1>2, <1>3 DEF StudyNext
\* A whole artifact changes only where a study has it still to write, and then
\* it is known as replaced
LEMMA SavedStays ==
  ASSUME StudyAssumption, StudyInv, StudyNext
  PROVE  /\ replaced \subseteq replaced'
         /\ \A s \in Scenario : IsWhole(files[s]) =>
              \/ files'[s] = files[s]
              \/ /\ s \in replaced'
                 /\ \E p \in Study : s \in study[p].pending \cup {study[p].writing}
<1> DEFINE Goal ==
      /\ replaced \subseteq replaced'
      /\ \A s \in Scenario : IsWhole(files[s]) =>
           \/ files'[s] = files[s]
           \/ /\ s \in replaced'
              /\ \E p \in Study : s \in study[p].pending \cup {study[p].writing}
<1>1. ASSUME UNCHANGED <<files, replaced>> PROVE Goal
  BY <1>1
<1>2. ASSUME NEW s \in Scenario, RemoveTorn(s) PROVE Goal
  BY <1>2, FileFacts DEF RemoveTorn, StudyInv, StudiesTyped
<1>3. ASSUME NEW p \in Study, NEW s \in Scenario, NEW outcome \in Outcomes,
             OpenArtifact(p, s, outcome)
      PROVE  Goal
  <2>1. /\ s \in study[p].pending
        /\ \A t \in Scenario \ {s} : files'[t] = files[t]
        /\ replaced \subseteq replaced'
        /\ IsWhole(files[s]) => s \in replaced'
    BY <1>3 DEF OpenArtifact, StudyInv, StudiesTyped
  <2>2. QED
    BY <2>1
<1>4. ASSUME NEW p \in Study, WriteArtifact(p) PROVE Goal
  <2>1. \E file : files' = [files EXCEPT ![study[p].writing] = file]
    BY <1>4 DEF WriteArtifact
  <2>2. /\ \A t \in Scenario \ {study[p].writing} : files'[t] = files[t]
        /\ replaced \subseteq replaced'
        /\ IsWhole(files[study[p].writing]) => study[p].writing \in replaced'
    BY <1>4, <2>1 DEF WriteArtifact, StudyInv, StudiesTyped
  <2>3. QED
    BY <2>2
<1>5. ASSUME NEW p \in Study,
             \/ \E resume \in BOOLEAN : StartStudy(p, resume)
             \/ Scan(p) \/ Submit(p) \/ EndStudy(p) \/ StudyDies(p)
             \/ \E s \in Scenario : RunRaises(p, s)
      PROVE  Goal
  <2>1. UNCHANGED <<files, replaced>>
    BY <1>5 DEF StartStudy, Scan, Submit, EndStudy, StudyDies, RunRaises
  <2>2. QED
    BY <1>1, <2>1
<1>6. QED
  BY <1>2, <1>3, <1>4, <1>5 DEF StudyNext, StudyStep

---------------------------------------------------------------------------
(* Blinding, reviews and analysis *)

Contents(file) == IF IsWhole(file) THEN file.rows ELSE {}

\* A row or rating is of the artifact that is there, unless that is not the
\* one it was made of
Genuine(x) ==
  /\ x.id \in Scenario /\ x.response[1] = x.id
  /\ x.id \notin replaced => x.id \in Answered /\ x.response = Response(x.id)

Listed == blind.rows \cup Contents(packet) \cup Contents(key) \cup review.rows
Ratings == review.rated \cup Contents(checkpoint)

AllGenuine ==
  /\ \A r \in Listed : Genuine(r) /\ r.scenario = r.id
  /\ \A x \in Ratings : Genuine(x)

Unique(rows) == \A x, y \in rows : x.id = y.id => x = y

AllUnique ==
  /\ Unique(blind.rows) /\ Unique(Contents(packet)) /\ Unique(review.rows)
  /\ Unique(review.rated) /\ Unique(Contents(checkpoint))

Covers(rows, xs) == \A x \in xs : x.id \in replaced \cup IdsOf(rows)

Reviewing == review.pc \in {"collect", "write", "final"}

\* A later packet has every item of an earlier one that was not replaced
PacketsGrow ==
  /\ blind.pc = "packet" => ~IsWhole(packet) /\ Covers(blind.rows, review.rows \cup Ratings)
  /\ IsWhole(packet) => Covers(packet.rows, review.rows \cup Ratings)
  /\ Reviewing => Covers(review.rows, Ratings)

\* What is out for rating is not rated, what is in the checkpoint is, and
\* nothing of the packet is forgotten
ReviewWhole ==
  /\ review.pc \in {"write", "final"} => ~IsWhole(checkpoint)
  /\ review.pc = "collect" =>
       \A x \in Contents(checkpoint) : x \in review.rated \/ x.id \in replaced
  /\ \A g \in DOMAIN review.batch :
       /\ g \subseteq review.rows
       /\ \A r \in g : r.id \notin IdsOf(review.rated)
  /\ \A g, h \in DOMAIN review.batch : g = h \/ g \cap h = {}
  /\ Reviewing => \A r \in review.rows :
       r.id \in IdsOf(review.rated) \/ \E g \in DOMAIN review.batch : r \in g
  /\ review.pc = "final" => DOMAIN review.batch = {}

PilotInv == FilesTyped /\ AllGenuine /\ AllUnique /\ PacketsGrow /\ ReviewWhole

IInv == StudyInv /\ PilotInv

\* A rating or row stays genuine while studies go on
LEMMA StayGenuine ==
  ASSUME StudyAssumption, StudyInv, StudyNext
  PROVE  \A x : Genuine(x) => Genuine(x)'
BY SavedStays DEF Genuine, Answered, Response

\* What the review has is as it was while studies go on
LEMMA PilotOverStudies ==
  ASSUME StudyAssumption, StudyInv, PilotInv, StudyNext, UNCHANGED pilotVars
  PROVE  PilotInv'
<1>1. replaced \subseteq replaced'
  BY SavedStays
<1>2. FilesTyped'
  BY DEF PilotInv, FilesTyped, pilotVars
<1>3. Listed' = Listed /\ Ratings' = Ratings
  BY DEF pilotVars, Listed, Ratings, Contents, IsWhole
<1>4. AllGenuine'
  BY <1>3, StayGenuine DEF PilotInv, AllGenuine
<1>5. AllUnique'
  BY DEF PilotInv, AllUnique, pilotVars, Unique, Contents, IsWhole
<1>6. PacketsGrow'
  BY <1>1, <1>3 DEF PilotInv, PacketsGrow, pilotVars, Covers, Reviewing, IsWhole, IdsOf
<1>7. ReviewWhole'
  BY <1>1 DEF PilotInv, ReviewWhole, pilotVars, Reviewing, Contents, IsWhole, IdsOf
<1>8. QED
  BY <1>2, <1>4, <1>5, <1>6, <1>7 DEF PilotInv
\* The commands that only read artifacts leave the studies as they are
LEMMA StudiesAlone ==
  ASSUME UNCHANGED studyVars
  PROVE  /\ StudyInv => StudyInv'
         /\ \A x : Genuine(x) => Genuine(x)'
         /\ replaced' = replaced
BY DEF studyVars, StudyInv, StudiesTyped, ClaimsHeld, KnownBeside, ClaimsFresh, Alive, IsWhole,
   Genuine, Answered, Response

\* What a file of the pilot holds
LEMMA ContentsFacts ==
  /\ Contents(NoFile) = {} /\ Contents(Torn) = {}
  /\ \A rows : Contents(Holding(rows)) = rows
  /\ \A rows : Holding(rows) \in [state : {"whole"}, rows : {rows}]
BY FileFacts DEF Contents, Holding

\* Nothing is out for rating before a review
LEMMA RestingFacts ==
  /\ Resting.pc = "idle" /\ Resting.rows = {} /\ Resting.rated = {}
  /\ DOMAIN Resting.batch = {} /\ Resting.batch \in [{} -> Nat]
  /\ Done.pc = "idle" /\ Done.rows = {}
BY DEF Resting, Done

\* Before the first command there is nothing but a directory
LEMMA PilotInitial == ASSUME Init PROVE PilotInv
<1>1. Resting \in [pc : {"idle"}, rows : {{}}, rated : {{}}, batch : Groups]
  <2>1. {} \in SUBSET SUBSET Row
    OBVIOUS
  <2>2. [{} -> Nat] \in {[gs -> Nat] : gs \in SUBSET SUBSET Row}
    BY <2>1
  <2>3. Resting.batch \in Groups
    BY <2>2, RestingFacts DEF Groups
  <2>4. QED
    BY <2>3 DEF Resting
<1>2. Contents(packet) = {} /\ Contents(key) = {} /\ Contents(checkpoint) = {}
  BY ContentsFacts DEF Init
<1>3. FilesTyped
  BY <1>1 DEF Init, FilesTyped, Done
<1>4. Listed = {} /\ Ratings = {}
  BY <1>2, RestingFacts DEF Init, Listed, Ratings
<1>5. AllGenuine /\ AllUnique
  BY <1>2, <1>4, RestingFacts DEF Init, AllGenuine, AllUnique, Unique
<1>6. PacketsGrow /\ ReviewWhole
  BY <1>2, <1>4, RestingFacts, FileFacts DEF Init, PacketsGrow, Covers, Reviewing, ReviewWhole
<1>7. QED
  BY <1>3, <1>5, <1>6 DEF PilotInv

---------------------------------------------------------------------------
(* The steps of blind-study *)

\* A new packet has a row for every answer there is (create_blinded_review)
LEMMA PacketRead ==
  ASSUME StudyInv, PilotInv, ReadArtifacts
  PROVE  PilotInv'
<1> DEFINE rows == {[id |-> s, scenario |-> s, response |-> Response(s)] : s \in Answered}
<1>1. /\ blind' = [pc |-> "packet", rows |-> rows] /\ packet' = Torn
      /\ UNCHANGED <<studyVars, key, review, checkpoint>>
  BY DEF ReadArtifacts, ItemId
<1>2. rows \subseteq Row
  BY FileFacts DEF StudyInv, StudiesTyped, Answered, Response, Row
<1>3. /\ \A r \in rows : Genuine(r) /\ r.scenario = r.id
      /\ Unique(rows) /\ IdsOf(rows) = Answered
  <2>1. \A r \in rows : r.id \in Answered /\ r.scenario = r.id /\ r.response = Response(r.id)
    OBVIOUS
  <2>2. \A r \in rows : Genuine(r)
    BY <2>1 DEF Genuine, Answered, Response
  <2>3. Unique(rows)
    BY DEF Unique
  <2>4. IdsOf(rows) = Answered
    <3>1. ASSUME NEW s \in Answered PROVE \E r \in rows : r.id = s
      <4>1. [id |-> s, scenario |-> s, response |-> Response(s)] \in rows
        OBVIOUS
      <4> HIDE DEF rows
      <4>2. QED
        BY <4>1
    <3>2. QED
      BY <2>1, <3>1 DEF IdsOf
  <2>5. QED
    BY <2>1, <2>2, <2>3, <2>4
<1> HIDE DEF rows
<1>4. blind'.pc = "packet" /\ blind'.rows = rows /\ Contents(packet)' = {} /\ ~IsWhole(packet')
  BY <1>1, ContentsFacts, FileFacts DEF Contents, IsWhole
<1>5. FilesTyped'
  BY <1>1, <1>2 DEF PilotInv, FilesTyped
<1>6. Listed' \subseteq Listed \cup rows /\ Ratings' = Ratings /\ review'.rows = review.rows
  BY <1>1, <1>4 DEF Listed, Ratings, Contents, IsWhole
<1>7. AllGenuine'
  BY <1>1, <1>3, <1>6, StudiesAlone DEF PilotInv, AllGenuine
<1>8. AllUnique'
  BY <1>1, <1>3, <1>4 DEF PilotInv, AllUnique, Unique, Contents, IsWhole
<1>9. \A x \in review.rows \cup Ratings : x.id \in replaced \cup Answered
  BY DEF PilotInv, AllGenuine, Listed, Genuine
<1>10. PacketsGrow'
  BY <1>1, <1>3, <1>4, <1>6, <1>9, StudiesAlone
     DEF PilotInv, PacketsGrow, Covers, Reviewing, IsWhole, IdsOf
<1>11. ReviewWhole'
  BY <1>1, StudiesAlone DEF PilotInv, ReviewWhole, Reviewing, Contents, IsWhole, IdsOf
<1>12. QED
  BY <1>5, <1>7, <1>8, <1>10, <1>11 DEF PilotInv

\* Writing the packet and the key, or dying before, loses no row
LEMMA BlindingKept ==
  ASSUME StudyInv, PilotInv, BlindStep \/ BlindDies
  PROVE  PilotInv'
<1>1. CASE WritePacket
  <2>1. /\ blind.pc = "packet" /\ packet' = Holding(blind.rows) /\ key' = Torn
        /\ blind' = [blind EXCEPT !.pc = "key"]
        /\ UNCHANGED <<studyVars, review, checkpoint>>
    BY <1>1 DEF WritePacket
  <2>2. blind'.pc = "key" /\ blind'.rows = blind.rows /\ FilesTyped'
    BY <2>1, ContentsFacts DEF PilotInv, FilesTyped
  <2>3. /\ Contents(packet)' = blind.rows /\ IsWhole(packet') /\ packet'.rows = blind.rows
        /\ Contents(key)' = {}
    BY <2>1, ContentsFacts, FileFacts DEF Contents, IsWhole
  <2>4. Listed' \subseteq Listed /\ Ratings' = Ratings
    BY <2>1, <2>2, <2>3 DEF Listed, Ratings, Contents, IsWhole
  <2>5. AllGenuine'
    BY <2>1, <2>4, StudiesAlone DEF PilotInv, AllGenuine
  <2>6. AllUnique'
    BY <2>1, <2>2, <2>3 DEF PilotInv, AllUnique, Unique, Contents, IsWhole
  <2>7. PacketsGrow'
    BY <2>1, <2>2, <2>3, <2>4, StudiesAlone
       DEF PilotInv, PacketsGrow, Covers, Reviewing, IdsOf
  <2>8. ReviewWhole'
    BY <2>1, StudiesAlone DEF PilotInv, ReviewWhole, Reviewing, Contents, IsWhole, IdsOf
  <2>9. QED
    BY <2>2, <2>5, <2>6, <2>7, <2>8 DEF PilotInv
<1>2. CASE WriteKey \/ BlindDies
  <2>1. /\ blind' = Done /\ UNCHANGED <<studyVars, packet, review, checkpoint>>
        /\ key' = key \/ key' = Holding(blind.rows)
    BY <1>2 DEF WriteKey, BlindDies
  <2>2. FilesTyped'
    BY <2>1, ContentsFacts DEF PilotInv, FilesTyped, Done
  <2>3. Contents(key)' \subseteq Contents(key) \cup blind.rows
    BY <2>1, ContentsFacts DEF Contents, IsWhole
  <2>4. Listed' \subseteq Listed /\ Ratings' = Ratings
    BY <2>1, <2>3, RestingFacts DEF Listed, Ratings, Contents, IsWhole
  <2>5. AllGenuine'
    BY <2>1, <2>4, StudiesAlone DEF PilotInv, AllGenuine
  <2>6. AllUnique'
    BY <2>1, RestingFacts DEF PilotInv, AllUnique, Unique, Contents, IsWhole
  <2>7. PacketsGrow'
    BY <2>1, <2>4, RestingFacts, StudiesAlone
       DEF PilotInv, PacketsGrow, Covers, Reviewing, IdsOf, IsWhole
  <2>8. ReviewWhole'
    BY <2>1, StudiesAlone DEF PilotInv, ReviewWhole, Reviewing, Contents, IsWhole, IdsOf
  <2>9. QED
    BY <2>2, <2>5, <2>6, <2>7, <2>8 DEF PilotInv
<1>3. QED
  BY <1>1, <1>2 DEF BlindStep
---------------------------------------------------------------------------
(* The steps of review-study *)

\* A review begins with the ratings of its checkpoint and everything else out
\* for rating (review_packet_with_model)
LEMMA ReviewStarted ==
  ASSUME StudyInv, PilotInv, NEW resume \in BOOLEAN, StartReview(resume)
  PROVE  PilotInv'
<1>1. /\ IsWhole(packet)
      /\ RatedBefore(checkpoint) = Contents(checkpoint)
      /\ UNCHANGED <<studyVars, packet, key, blind, checkpoint>>
  BY DEF StartReview, RatedBefore, Contents
<1> DEFINE rated == Contents(checkpoint)
           pending == {r \in packet.rows : r.id \notin IdsOf(rated)}
<1>2. PICK groups \in Batchings(pending) :
        review' = [pc |-> "collect", rows |-> packet.rows, rated |-> rated,
                   batch |-> [g \in groups |-> 1]]
  BY <1>1 DEF StartReview
<1>3. /\ packet.rows = Contents(packet) /\ packet.rows \subseteq Row
      /\ rated \subseteq Rating
  BY <1>1, FileFacts DEF PilotInv, FilesTyped, Contents, IsWhole
<1>4. /\ groups \subseteq SUBSET pending /\ UNION groups = pending
      /\ \A g, h \in groups : g = h \/ g \cap h = {}
  BY DEF Batchings
<1>5. /\ \A g \in groups : g \subseteq packet.rows /\ \A r \in g : r.id \notin IdsOf(rated)
      /\ \A r \in packet.rows : r.id \in IdsOf(rated) \/ \E g \in groups : r \in g
  BY <1>4
<1> HIDE DEF pending, rated
<1>6. /\ review'.pc = "collect" /\ review'.rows = packet.rows /\ review'.rated = rated
      /\ review'.batch = [g \in groups |-> 1] /\ DOMAIN review'.batch = groups
  BY <1>2
<1>7. FilesTyped'
  <2>1. groups \in SUBSET SUBSET Row
    BY <1>3, <1>5
  <2>2. [g \in groups |-> 1] \in [groups -> Nat]
    OBVIOUS
  <2>3. [g \in groups |-> 1] \in Groups
    BY <2>1, <2>2 DEF Groups
  <2>4. QED
    BY <1>1, <1>2, <1>3, <2>3 DEF PilotInv, FilesTyped
<1>8. Listed' \subseteq Listed /\ Ratings' \subseteq Ratings
  BY <1>1, <1>3, <1>6 DEF Listed, Ratings, Contents, IsWhole, rated
<1>9. AllGenuine'
  BY <1>1, <1>8, StudiesAlone DEF PilotInv, AllGenuine
<1>10. AllUnique'
  BY <1>1, <1>3, <1>6 DEF PilotInv, AllUnique, Unique, Contents, IsWhole, rated
<1>11. ~(blind.pc = "packet") /\ Covers(packet.rows, Ratings)
  BY <1>1 DEF PilotInv, PacketsGrow, Covers
<1>12. PacketsGrow'
  <2>1. Covers(packet.rows, packet.rows)
    BY DEF Covers, IdsOf
  <2>2. Covers(packet.rows, packet.rows \cup Ratings')
    BY <1>8, <1>11, <2>1 DEF Covers
  <2>3. QED
    BY <1>1, <1>6, <1>11, <2>2, StudiesAlone DEF PacketsGrow, Covers, IdsOf, IsWhole
<1>13. ReviewWhole'
  BY <1>1, <1>4, <1>5, <1>6 DEF ReviewWhole, Reviewing, Contents, IsWhole, IdsOf, rated
<1>14. QED
  BY <1>7, <1>9, <1>10, <1>12, <1>13 DEF PilotInv

\* An exact reply rates each item of its batch and no other (_review_batch)
LEMMA BatchCollected ==
  ASSUME StudyInv, PilotInv, NEW group \in DOMAIN review.batch, CollectBatch(group)
  PROVE  PilotInv'
<1> DEFINE new == {[id |-> r.id, response |-> r.response] : r \in group}
           left == [g \in (DOMAIN review.batch) \ {group} |-> review.batch[g]]
           rated == {x \in review.rated \cup new : x.id \in IdsOf(review.rows)}
<1>1. /\ review.pc = "collect" /\ checkpoint' = Torn
      /\ UNCHANGED <<studyVars, packet, key, blind>>
  BY DEF CollectBatch, Asked
<1>2. review' = [review EXCEPT !.pc = "write", !.batch = left, !.rated = rated]
  <2>1. PICK reply \in Replies(group) :
          /\ Replied(group, reply)
          /\ review' = [review EXCEPT
               !.pc = "write",
               !.batch = [g \in (DOMAIN @) \ {group} |-> @[g]],
               !.rated = {x \in @ \cup {[id |-> r.id, response |-> r.response] :
                                         r \in {q \in group : q.id \in reply.ids}} :
                           x.id \in IdsOf(review.rows)}]
    BY DEF CollectBatch
  <2>2. {q \in group : q.id \in reply.ids} = group
    BY <2>1 DEF Replied, IdsOf
  <2>3. QED
    BY <2>1, <2>2
<1>3. group \subseteq review.rows /\ \A r \in group : r.id \notin IdsOf(review.rated)
  BY DEF PilotInv, ReviewWhole
<1>4. review.rows \subseteq Row /\ review.rated \subseteq Rating
  BY DEF PilotInv, FilesTyped
<1>5. /\ \A x \in new : \E r \in group : x.id = r.id /\ x.response = r.response
      /\ \A r \in group : \E x \in new : x.id = r.id
      /\ new \subseteq Rating
  <2>1. ASSUME NEW r \in group
        PROVE  \E x \in new : x.id = r.id
    <3>1. [id |-> r.id, response |-> r.response] \in new
      OBVIOUS
    <3> HIDE DEF new
    <3>2. QED
      BY <3>1
  <2>2. new \subseteq Rating
    BY <1>3, <1>4 DEF Row, Rating
  <2>3. QED
    BY <2>1, <2>2
<1>6. \A x, y \in new : x.id = y.id => x = y
  BY <1>3 DEF PilotInv, AllUnique, Unique
<1>7. left \in Groups
  <2>1. PICK gs \in SUBSET SUBSET Row : review.batch \in [gs -> Nat]
    BY DEF PilotInv, FilesTyped, Groups
  <2>2. left \in [gs \ {group} -> Nat]
    BY <2>1
  <2> HIDE DEF left
  <2>3. QED
    BY <2>1, <2>2 DEF Groups
<1>8. DOMAIN left = (DOMAIN review.batch) \ {group}
  OBVIOUS
<1>9. /\ \A x \in rated : x \in review.rated \cup new /\ x.id \in IdsOf(review.rows)
      /\ \A x \in review.rated \cup new : x.id \in IdsOf(review.rows) => x \in rated
      /\ rated \subseteq Rating
  BY <1>4, <1>5
<1> HIDE DEF new, left, rated
<1>10. /\ review'.pc = "write" /\ review'.rows = review.rows /\ review'.rated = rated
       /\ review'.batch = left /\ FilesTyped'
  BY <1>1, <1>2, <1>7, <1>9 DEF PilotInv, FilesTyped
<1>11. Contents(checkpoint)' = {} /\ ~IsWhole(checkpoint')
  BY <1>1, ContentsFacts, FileFacts DEF Contents, IsWhole
<1>12. Listed' \subseteq Listed
  BY <1>1, <1>10 DEF Listed, Contents, IsWhole
<1>13. Ratings' = rated
  BY <1>10, <1>11 DEF Ratings
<1>14. \A x \in new : Genuine(x)
  BY <1>3, <1>5 DEF PilotInv, AllGenuine, Listed, Genuine
<1>15. AllGenuine'
  BY <1>1, <1>9, <1>12, <1>13, <1>14, StudiesAlone DEF PilotInv, AllGenuine, Ratings
<1>16. Unique(rated)
  <2>1. \A x \in review.rated, y \in new : x.id # y.id
    BY <1>3, <1>5 DEF IdsOf
  <2>2. QED
    BY <1>6, <1>9, <2>1 DEF PilotInv, AllUnique, Unique
<1>17. AllUnique'
  BY <1>1, <1>10, <1>11, <1>16 DEF PilotInv, AllUnique, Unique, Contents, IsWhole
<1>18. PacketsGrow'
  <2>1. Covers(review.rows, rated)
    BY <1>9 DEF Covers
  <2>2. \A rows : Covers(rows, review.rows) => Covers(rows, review.rows \cup rated)
    BY <1>9 DEF Covers, IdsOf
  <2>3. /\ blind.pc = "packet" => ~IsWhole(packet) /\ Covers(blind.rows, review.rows)
        /\ IsWhole(packet) => Covers(packet.rows, review.rows)
    BY DEF PilotInv, PacketsGrow, Covers
  <2>4. QED
    BY <1>1, <1>10, <1>13, <2>1, <2>2, <2>3, StudiesAlone
       DEF PacketsGrow, Covers, IdsOf, IsWhole
<1>19. ReviewWhole'
  <2>1. \A g \in DOMAIN left : g \subseteq review.rows /\ \A r \in g : r.id \notin IdsOf(rated)
    <3>1. ASSUME NEW g \in DOMAIN left, NEW r \in g, NEW x \in rated, x.id = r.id PROVE FALSE
      <4>1. g \in DOMAIN review.batch /\ g \cap group = {} /\ r \in review.rows
        BY <1>8 DEF PilotInv, ReviewWhole
      <4>2. x \notin review.rated
        BY <3>1, <4>1 DEF PilotInv, ReviewWhole, IdsOf
      <4>3. PICK q \in group : x.id = q.id
        BY <1>5, <1>9, <4>2
      <4>4. q = r
        BY <1>3, <3>1, <4>1, <4>3 DEF PilotInv, AllUnique, Unique
      <4>5. QED
        BY <4>1, <4>4
    <3>2. QED
      BY <1>8, <3>1 DEF PilotInv, ReviewWhole, IdsOf
  <2>2. \A g, h \in DOMAIN left : g = h \/ g \cap h = {}
    BY <1>8 DEF PilotInv, ReviewWhole
  <2>3. ASSUME NEW r \in review.rows
        PROVE  r.id \in IdsOf(rated) \/ \E g \in DOMAIN left : r \in g
    <3>1. r.id \in IdsOf(review.rows)
      BY DEF IdsOf
    <3>2. CASE r.id \in IdsOf(review.rated)
      BY <1>9, <3>1, <3>2 DEF IdsOf
    <3>3. CASE r \in group
      BY <1>5, <1>9, <3>1, <3>3 DEF IdsOf
    <3>4. QED
      BY <1>1, <1>8, <3>2, <3>3 DEF PilotInv, ReviewWhole, Reviewing
  <2>4. QED
    BY <1>10, <1>11, <2>1, <2>2, <2>3 DEF ReviewWhole, Reviewing, IdsOf, IsWhole
<1>20. QED
  BY <1>10, <1>15, <1>17, <1>18, <1>19 DEF PilotInv
\* A reply that is not exact changes nothing but the number of its attempt
LEMMA AskedAgain ==
  ASSUME PilotAssumption, PilotInv, NEW group \in DOMAIN review.batch, AskAgain(group)
  PROVE  PilotInv'
<1> DEFINE batch == [review.batch EXCEPT ![group] = (@ % MaxAttempts) + 1]
<1>1. /\ review' = [review EXCEPT !.batch = batch]
      /\ UNCHANGED <<studyVars, packet, key, blind, checkpoint>>
  BY DEF AskAgain
<1>2. batch \in Groups
  <2>1. PICK gs \in SUBSET SUBSET Row : review.batch \in [gs -> Nat]
    BY DEF PilotInv, FilesTyped, Groups
  <2>2. group \in gs /\ review.batch[group] \in Nat
    BY <2>1
  <2>3. (review.batch[group] % MaxAttempts) + 1 \in Nat
    BY <2>2 DEF PilotAssumption
  <2>4. batch \in [gs -> Nat]
    BY <2>1, <2>3
  <2> HIDE DEF batch
  <2>5. QED
    BY <2>4 DEF Groups
<1>3. DOMAIN batch = DOMAIN review.batch
  OBVIOUS
<1> HIDE DEF batch
<1>4. /\ review'.pc = review.pc /\ review'.rows = review.rows /\ review'.rated = review.rated
      /\ DOMAIN review'.batch = DOMAIN review.batch /\ FilesTyped'
  BY <1>1, <1>2, <1>3 DEF PilotInv, FilesTyped
<1>5. Listed' = Listed /\ Ratings' = Ratings
  BY <1>1, <1>4 DEF Listed, Ratings, Contents, IsWhole
<1>6. AllGenuine' /\ AllUnique'
  BY <1>1, <1>4, <1>5, StudiesAlone
     DEF PilotInv, AllGenuine, AllUnique, Unique, Contents, IsWhole
<1>7. PacketsGrow'
  BY <1>1, <1>4, <1>5, StudiesAlone
     DEF PilotInv, PacketsGrow, Covers, Reviewing, IdsOf, IsWhole
<1>8. ReviewWhole'
  BY <1>1, <1>4, StudiesAlone DEF PilotInv, ReviewWhole, Reviewing, Contents, IsWhole, IdsOf
<1>9. QED
  BY <1>4, <1>6, <1>7, <1>8 DEF PilotInv

\* A review that has failed or died holds nothing; its checkpoint stays
LEMMA ReviewOver ==
  ASSUME PilotInv, NEW label \in {"idle", "drain"}, review' = [Resting EXCEPT !.pc = label],
         UNCHANGED <<studyVars, packet, key, blind>>,
         checkpoint' = checkpoint \/ checkpoint' = NoFile \/ checkpoint' = Holding(review.rated)
  PROVE  PilotInv'
<1>1. /\ review'.pc = label /\ review'.rows = {} /\ review'.rated = {}
      /\ DOMAIN review'.batch = {} /\ review'.batch \in [{} -> Nat]
  BY RestingFacts DEF Resting
<1>2. FilesTyped'
  <2>1. [{} -> Nat] \in {[gs -> Nat] : gs \in SUBSET SUBSET Row}
    OBVIOUS
  <2>2. review'.batch \in Groups
    BY <1>1, <2>1 DEF Groups
  <2>3. review' \in [pc : {"idle", "drain"}, rows : {{}}, rated : {{}}, batch : Groups]
    BY <1>1, <2>2 DEF Resting
  <2>4. checkpoint' \in {NoFile, Torn} \cup [state : {"whole"}, rows : SUBSET Rating]
    BY ContentsFacts DEF PilotInv, FilesTyped
  <2>5. QED
    BY <2>3, <2>4 DEF PilotInv, FilesTyped
<1>3. \/ Contents(checkpoint)' = Contents(checkpoint) \/ Contents(checkpoint)' = {}
      \/ Contents(checkpoint)' = review.rated
  BY ContentsFacts DEF Contents, IsWhole
<1>4. Listed' \subseteq Listed /\ Ratings' \subseteq Ratings
  BY <1>1, <1>3 DEF Listed, Ratings, Contents, IsWhole
<1>5. AllGenuine'
  BY <1>4, StudiesAlone DEF PilotInv, AllGenuine
<1>6. AllUnique'
  <2>1. Unique({})
    BY DEF Unique
  <2>2. Unique(Contents(checkpoint)')
    BY <1>3, <2>1 DEF PilotInv, AllUnique
  <2>3. QED
    BY <1>1, <2>1, <2>2 DEF PilotInv, AllUnique, Unique, Contents, IsWhole
<1>7. PacketsGrow'
  BY <1>1, <1>4, StudiesAlone DEF PilotInv, PacketsGrow, Covers, Reviewing, IdsOf, IsWhole
<1>8. ReviewWhole'
  BY <1>1 DEF ReviewWhole, Reviewing
<1>9. QED
  BY <1>2, <1>5, <1>6, <1>7, <1>8 DEF PilotInv

\* The checkpoint is emptied for the last time when nothing is left to rate
LEMMA ReviewFinished == ASSUME PilotInv, FinishReview PROVE PilotInv'
<1>1. /\ review.pc = "collect" /\ DOMAIN review.batch = {} /\ checkpoint' = Torn
      /\ review' = [review EXCEPT !.pc = "final"]
      /\ UNCHANGED <<studyVars, packet, key, blind>>
  BY DEF FinishReview
<1>2. /\ review'.pc = "final" /\ review'.rows = review.rows /\ review'.rated = review.rated
      /\ review'.batch = review.batch /\ FilesTyped'
  BY <1>1 DEF PilotInv, FilesTyped
<1>3. Contents(checkpoint)' = {} /\ ~IsWhole(checkpoint')
  BY <1>1, ContentsFacts, FileFacts DEF Contents, IsWhole
<1>4. Listed' \subseteq Listed /\ Ratings' \subseteq Ratings
  BY <1>1, <1>2, <1>3 DEF Listed, Ratings, Contents, IsWhole
<1>5. AllGenuine'
  BY <1>1, <1>4, StudiesAlone DEF PilotInv, AllGenuine
<1>6. AllUnique'
  BY <1>1, <1>2, <1>3 DEF PilotInv, AllUnique, Unique, Contents, IsWhole
<1>7. PacketsGrow'
  BY <1>1, <1>2, <1>4, StudiesAlone
     DEF PilotInv, PacketsGrow, Covers, Reviewing, IdsOf, IsWhole
<1>8. ReviewWhole'
  BY <1>1, <1>2, <1>3 DEF PilotInv, ReviewWhole, Reviewing, IdsOf, IsWhole
<1>9. QED
  BY <1>2, <1>5, <1>6, <1>7, <1>8 DEF PilotInv

\* The checkpoint holds what the review has after each batch
LEMMA CheckpointWritten ==
  ASSUME PilotInv, WriteCheckpoint, review.pc = "write"
  PROVE  PilotInv'
<1>1. /\ checkpoint' = Holding(review.rated) /\ review' = [review EXCEPT !.pc = "collect"]
      /\ UNCHANGED <<studyVars, packet, key, blind>>
  BY DEF WriteCheckpoint
<1>2. /\ review'.pc = "collect" /\ review'.rows = review.rows /\ review'.rated = review.rated
      /\ review'.batch = review.batch /\ FilesTyped'
  BY <1>1, ContentsFacts DEF PilotInv, FilesTyped
<1>3. Contents(checkpoint)' = review.rated
  BY <1>1, ContentsFacts DEF Contents, IsWhole
<1>4. Listed' \subseteq Listed /\ Ratings' \subseteq Ratings
  BY <1>1, <1>2, <1>3 DEF Listed, Ratings, Contents, IsWhole
<1>5. AllGenuine'
  BY <1>1, <1>4, StudiesAlone DEF PilotInv, AllGenuine
<1>6. AllUnique'
  BY <1>1, <1>2, <1>3 DEF PilotInv, AllUnique, Unique, Contents, IsWhole
<1>7. PacketsGrow'
  BY <1>1, <1>2, <1>4, StudiesAlone
     DEF PilotInv, PacketsGrow, Covers, Reviewing, IdsOf, IsWhole
<1>8. ReviewWhole'
  BY <1>2, <1>3 DEF PilotInv, ReviewWhole, Reviewing, IdsOf
<1>9. QED
  BY <1>2, <1>5, <1>6, <1>7, <1>8 DEF PilotInv

---------------------------------------------------------------------------
(* The theorems *)

\* Every step of the experiment keeps the invariant: a step is one of a study
\* or one of a command that only reads artifacts.
LEMMA StepKept ==
  ASSUME StudyAssumption, PilotAssumption, IInv, [Next]_vars
  PROVE  IInv'
<1>1. CASE StudyNext /\ UNCHANGED pilotVars
  BY <1>1, StudyKept, PilotOverStudies DEF IInv
<1>2. ASSUME UNCHANGED studyVars, PilotInv' PROVE IInv'
  BY <1>2, StudiesAlone DEF IInv
<1>3. CASE ReadArtifacts \/ BlindStep \/ BlindDies
  <2>1. UNCHANGED studyVars
    BY <1>3 DEF ReadArtifacts, BlindStep, WritePacket, WriteKey, BlindDies
  <2>2. QED
    BY <1>2, <1>3, <2>1, PacketRead, BlindingKept DEF IInv
<1>4. ASSUME NEW resume \in BOOLEAN, StartReview(resume) PROVE IInv'
  <2>1. UNCHANGED studyVars
    BY <1>4 DEF StartReview
  <2>2. QED
    BY <1>2, <1>4, <2>1, ReviewStarted DEF IInv
<1>5. ASSUME NEW group \in DOMAIN review.batch,
             AskAgain(group) \/ CollectBatch(group) \/ BatchRaises(group)
      PROVE  IInv'
  <2>1. UNCHANGED studyVars
    BY <1>5 DEF AskAgain, CollectBatch, BatchRaises
  <2>2. CASE BatchRaises(group)
    BY <1>2, <2>1, <2>2, ReviewOver DEF IInv, BatchRaises
  <2>3. QED
    BY <1>2, <1>5, <2>1, <2>2, AskedAgain, BatchCollected DEF IInv
<1>6. CASE FinishReview
  BY <1>2, <1>6, ReviewFinished DEF IInv, FinishReview
<1>7. Resting = [Resting EXCEPT !.pc = "idle"]
  BY DEF Resting
<1>8. CASE WriteCheckpoint
  <2>1. UNCHANGED studyVars
    BY <1>8 DEF WriteCheckpoint
  <2>2. CASE review.pc = "write"
    BY <1>2, <1>8, <2>1, <2>2, CheckpointWritten DEF IInv
  <2>3. CASE review.pc # "write"
    BY <1>2, <1>7, <1>8, <2>1, <2>3, ReviewOver DEF IInv, WriteCheckpoint
  <2>4. QED
    BY <2>2, <2>3
<1>9. CASE EndReview \/ ReviewDies
  <2>1. review' = Resting /\ UNCHANGED <<studyVars, packet, key, blind, checkpoint>>
    BY <1>9 DEF EndReview, ReviewDies
  <2>2. QED
    BY <1>2, <1>7, <2>1, ReviewOver DEF IInv
<1>10. CASE RemoveCheckpoint
  <2>1. /\ review' = review /\ checkpoint' = NoFile /\ ~IsWhole(checkpoint)
        /\ review.pc = "idle" /\ UNCHANGED <<studyVars, packet, key, blind>>
    BY <1>10, FileFacts DEF RemoveCheckpoint
  <2>2. Contents(checkpoint)' = {} /\ Contents(checkpoint) = {} /\ ~IsWhole(checkpoint')
    BY <2>1, ContentsFacts, FileFacts DEF Contents, IsWhole
  <2>3. Listed' = Listed /\ Ratings' = Ratings
    BY <2>1, <2>2 DEF Listed, Ratings, Contents, IsWhole
  <2>4. FilesTyped' /\ AllGenuine' /\ AllUnique'
    BY <2>1, <2>2, <2>3, StudiesAlone
       DEF IInv, PilotInv, FilesTyped, AllGenuine, AllUnique, Unique, Contents, IsWhole
  <2>5. PacketsGrow' /\ ReviewWhole'
    BY <2>1, <2>2, <2>3, StudiesAlone
       DEF IInv, PilotInv, PacketsGrow, ReviewWhole, Covers, Reviewing, IdsOf, IsWhole
  <2>6. QED
    BY <1>2, <2>1, <2>4, <2>5 DEF PilotInv
<1>11. CASE UNCHANGED vars
  <2>1. UNCHANGED studyVars /\ UNCHANGED <<packet, key, blind, review, checkpoint>>
    BY <1>11 DEF vars, pilotVars
  <2>2. Listed' = Listed /\ Ratings' = Ratings
    BY <2>1 DEF Listed, Ratings, Contents, IsWhole
  <2>3. FilesTyped' /\ AllGenuine' /\ AllUnique'
    BY <2>1, <2>2, StudiesAlone
       DEF IInv, PilotInv, FilesTyped, AllGenuine, AllUnique, Unique, Contents, IsWhole
  <2>4. PacketsGrow' /\ ReviewWhole'
    BY <2>1, <2>2, StudiesAlone
       DEF IInv, PilotInv, PacketsGrow, ReviewWhole, Covers, Reviewing, IdsOf, IsWhole, Contents
  <2>5. QED
    BY <1>2, <2>1, <2>3, <2>4 DEF PilotInv
<1>12. QED
  BY <1>1, <1>3, <1>4, <1>5, <1>6, <1>8, <1>9, <1>10, <1>11 DEF Next, ReviewStep

\* The strengthening holds of every behaviour: whose artifacts a study may
\* meet, that rows and ratings are of the artifacts that are there, and that a
\* later packet and a review have what the earlier ones had.
THEOREM Invariance == ASSUME StudyAssumption, PilotAssumption PROVE Spec => []IInv
<1>1. Init => IInv
  BY StudyInitial, PilotInitial DEF Init, IInv
<1>2. IInv /\ [Next]_vars => IInv'
  BY StepKept
<1>3. QED
  BY <1>1, <1>2, PTL DEF Spec

\* run-study overwrites a whole artifact only if a study that ran at the same
\* time wrote it (cli.py 308-333).
THEOREM SavedFinal == ASSUME StudyAssumption, PilotAssumption PROVE Spec => SavedIsFinal
<1>1. ASSUME IInv, [Next]_vars, NEW s \in Scenario, IsWhole(files[s]), files'[s] # files[s]
      PROVE  \E p \in Study : /\ s \in study[p].pending \cup {study[p].writing}
                              /\ files[s].by \in study[p].beside
  <2>1. StudyNext
    <3>1. files' # files
      BY <1>1
    <3>2. QED
      BY <1>1, <3>1 DEF Next, vars, studyVars, ReadArtifacts, BlindStep, WritePacket, WriteKey,
         BlindDies, StartReview, ReviewStep, AskAgain, CollectBatch, BatchRaises, EndReview,
         FinishReview, WriteCheckpoint, ReviewDies, RemoveCheckpoint
  <2>2. PICK p \in Study : s \in study[p].pending \cup {study[p].writing}
    BY <1>1, <2>1, SavedStays DEF IInv
  <2>3. QED
    BY <1>1, <2>2 DEF IInv, StudyInv, ClaimsFresh
<1>2. IInv /\ [Next]_vars =>
        [\A s \in Scenario : IsWhole(files[s]) /\ files'[s] # files[s] =>
           \E p \in Study : /\ s \in study[p].pending \cup {study[p].writing}
                           /\ files[s].by \in study[p].beside]_vars
  BY <1>1
<1>3. QED
  BY <1>2, Invariance, PTL DEF Spec, SavedIsFinal

\* Whenever review-study empties its checkpoint it holds every rating that was
\* in it, but for items whose artifact was overwritten (model_reviewer.py 81-89).
THEOREM RatingsSafe == ASSUME StudyAssumption, PilotAssumption PROVE Spec => RatingsKept
<1>1. ASSUME IInv, [Next]_vars, IsWhole(checkpoint), checkpoint' # checkpoint
      PROVE  /\ checkpoint' = Torn
             /\ \A x \in checkpoint.rows : x \in review'.rated \/ x.response[1] \in replaced
  <2>1. review.pc = "collect" =>
          \A x \in checkpoint.rows : /\ x \in review.rated \/ x.id \in replaced
                                     /\ x.id \in replaced \cup IdsOf(review.rows)
                                     /\ x.response[1] = x.id
    BY <1>1 DEF IInv, PilotInv, ReviewWhole, PacketsGrow, Covers, Reviewing, Contents,
       AllGenuine, Genuine, Ratings
  <2>2. review.pc \notin {"write", "final"} /\ checkpoint # Torn
    BY <1>1, FileFacts DEF IInv, PilotInv, ReviewWhole
  <2>3. \/ FinishReview \/ \E group \in DOMAIN review.batch : CollectBatch(group)
    BY <1>1, <2>2 DEF Next, vars, pilotVars, ReadArtifacts, BlindStep, WritePacket, WriteKey,
       BlindDies, StartReview, ReviewStep, AskAgain, BatchRaises, EndReview, WriteCheckpoint,
       ReviewDies, RemoveCheckpoint
  <2>4. CASE FinishReview
    <3>1. review.pc = "collect" /\ checkpoint' = Torn /\ review'.rated = review.rated
      BY <1>1, <2>4 DEF FinishReview, IInv, PilotInv, FilesTyped
    <3>2. QED
      BY <2>1, <3>1
  <2>5. ASSUME NEW group \in DOMAIN review.batch, CollectBatch(group)
        PROVE  /\ checkpoint' = Torn
               /\ \A x \in checkpoint.rows : x \in review'.rated \/ x.response[1] \in replaced
    <3>1. /\ review.pc = "collect" /\ checkpoint' = Torn
          /\ \A x \in review.rated : x.id \in IdsOf(review.rows) => x \in review'.rated
      BY <1>1, <2>5 DEF CollectBatch, Asked, IInv, PilotInv, FilesTyped
    <3>2. QED
      BY <2>1, <3>1
  <2>6. QED
    BY <2>3, <2>4, <2>5
<1>2. IInv /\ [Next]_vars =>
        [IsWhole(checkpoint) /\ checkpoint' # checkpoint =>
           /\ checkpoint' = Torn
           /\ \A x \in checkpoint.rows : x \in review'.rated \/ x.response[1] \in replaced]_vars
  BY <1>1
<1>3. QED
  BY <1>2, Invariance, PTL DEF Spec, RatingsKept

\* A review that is about to be returned rates each item of its packet once,
\* whatever replies and failures came before (review_packet_with_model).
THEOREM ReviewsExact == ASSUME StudyAssumption, PilotAssumption PROVE Spec => []ReviewIsExact
<1>1. ASSUME IInv, review.pc = "final" PROVE ReviewIsExact
  <2>1. /\ \A r \in review.rows : r.id \in IdsOf(review.rated)
        /\ \A r \in review.rows : Genuine(r) /\ r.scenario = r.id
        /\ \A x \in review.rated : Genuine(x) /\ x.id \in replaced \cup IdsOf(review.rows)
        /\ Unique(review.rated)
    BY <1>1 DEF IInv, PilotInv, ReviewWhole, Reviewing, AllGenuine, Listed, Ratings,
       PacketsGrow, Covers, AllUnique
  <2>2. ASSUME NEW r \in review.rows
        PROVE  \E x \in review.rated :
                 x.id = r.id /\ (x.response = r.response \/ r.scenario \in replaced)
    <3>1. PICK x \in review.rated : x.id = r.id
      BY <2>1 DEF IdsOf
    <3>2. QED
      BY <2>1, <3>1 DEF Genuine
  <2>3. QED
    BY <2>1, <2>2 DEF ReviewIsExact, Unique, Genuine
<1>2. IInv => ReviewIsExact
  BY <1>1 DEF ReviewIsExact
<1>3. QED
  BY <1>2, Invariance, PTL

\* analyze-study scores the response that was rated, although packet, key,
\* review and artifacts may be of different moments (analyze_pilot), unless an
\* overlapping study has overwritten the artifact.
THEOREM AnalysisOfRated == ASSUME StudyAssumption, PilotAssumption PROVE Spec => []RatedIsAnalysed
<1>1. ASSUME IInv, Analyzable, NEW row \in AnalysisRows, row.scenario \notin replaced
      PROVE  row.rated = row.used
  <2>1. PICK r \in key.rows :
          /\ row.scenario = r.scenario /\ row.used = Response(r.scenario)
          /\ row.rated = (CHOOSE x \in checkpoint.rows : x.id = r.id).response
    BY <1>1 DEF AnalysisRows
  <2>2. r \in Listed /\ Contents(checkpoint) = checkpoint.rows
    BY <1>1 DEF Analyzable, Listed, Contents
  <2>3. Genuine(r) /\ r.scenario = r.id
    BY <1>1, <2>2 DEF IInv, PilotInv, AllGenuine
  <2>4. \E x \in checkpoint.rows : x.id = r.id
    BY <1>1 DEF Analyzable, IdsOf
  <2>5. PICK x \in checkpoint.rows : x.id = r.id /\ row.rated = x.response
    BY <2>1, <2>4
  <2>6. Genuine(x)
    BY <1>1, <2>2, <2>5 DEF IInv, PilotInv, AllGenuine, Ratings
  <2>7. QED
    BY <1>1, <2>1, <2>3, <2>5, <2>6 DEF Genuine
<1>2. IInv => RatedIsAnalysed
  BY <1>1 DEF RatedIsAnalysed
<1>3. QED
  BY <1>2, Invariance, PTL
=============================================================================
