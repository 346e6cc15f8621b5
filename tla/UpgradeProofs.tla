--------------------------- MODULE UpgradeProofs ---------------------------
(***************************************************************************)
(* Proofs about Upgrade, for any number of processes and releases: a       *)
(* migration is committed only beside a backup of what it changes, the     *)
(* doctor says what an opening would find, and schema and data change as   *)
(* SchemaLife says.                                                        *)
(***************************************************************************)
EXTENDS Upgrade, TLAPS

Spoiled == Content("spoiled", 0, {})

\* A file that nobody is writing and no journal spoiled: migrations are in it
\* exactly when it has pages
Settled(content) ==
  /\ content.state \in {"absent", "empty", "sound"}
  /\ content.state = "absent" => content = Absent
  /\ content.schema # 0 <=> content.state = "sound"

\* A torn file has its journal, and what journals, backups and drafts hold is
\* settled
FilesSettled ==
  /\ Settled(file) \/ file.state = "torn" \/ file = Spoiled
  /\ file.state = "torn" => journal # Absent
  /\ Settled(journal)
  /\ \A b \in backups : Settled(b.file)
  /\ \A p \in Process : Settled(draft[p])

Held == {"locked", "copying", "applying"}

\* Whoever is between BEGIN IMMEDIATE and COMMIT has the lock, and the file
\* stays as it was found
WritersExclude ==
  /\ \A p \in Process : pc[p] \in Held \cup {"commit"} => holder = p
  /\ \A p \in Process : pc[p] \in Held =>
       Settled(file) /\ file # Absent /\ journal = Absent
  /\ \A p, q \in Process : pc[p] = "restoring" /\ q # p => pc[q] = "stopped"

SavedAsItIs == \E b \in backups : b.whole /\ b.file = file

UpgradesSaved ==
  \A p \in Process : pc[p] = "applying" /\ existed[p] => SavedAsItIs

IInv == TypeOK /\ FilesSettled /\ WritersExclude /\ UpgradesSaved

---------------------------------------------------------------------------
(* Types *)

\* The contents the actions build are files
LEMMA ContentsTyped ==
  /\ Absent \in File /\ Empty \in File /\ Spoiled \in File
  /\ \A f \in File : [f EXCEPT !.state = "torn"] \in File
  /\ \A f \in File, w \in Write : [f EXCEPT !.data = @ \cup {w}] \in File
BY DEF File, Absent, Empty, Spoiled, Content

\* What a connection finds is a file
LEMMA OpenedTyped ==
  ASSUME TypeOK
  PROVE  Recovered \in File /\ Opened \in File
BY ContentsTyped DEF TypeOK, Recovered, Opened, Spoiled

\* What _backup_database and backup_database leave is a backup
LEMMA BackupsTyped ==
  ASSUME TypeOK
  PROVE  Partial \in Backup /\ Complete \in Backup /\ \A f \in File : Manual(f) \in Backup
BY ContentsTyped DEF TypeOK, Backup, Partial, Complete, Manual

\* A database nobody has opened is well typed
LEMMA InitTyped == Init => TypeOK
<1>1. Absent \in File
  BY ContentsTyped
<1>2. QED
  BY <1>1 DEF Init, TypeOK

\* Every step of every process keeps the types
LEMMA StepTyped == ASSUME TypeOK, UpgradeAssumption, [Next]_vars PROVE TypeOK'
<1>1. Recovered \in File /\ Opened \in File
  BY OpenedTyped
<1>2. CASE UNCHANGED vars
  BY <1>2 DEF TypeOK, vars
<1>3. CASE MoveAway
  BY <1>3, ContentsTyped DEF TypeOK, MoveAway
<1>4. ASSUME NEW p \in Process,
             \/ Open(p) \/ Opening(p) \/ MigrationFails(p)
             \/ \E w \in Write : Change(p, w)
             \/ Close(p) \/ Crash(p) \/ Maintain(p)
      PROVE  TypeOK'
  <2>1. CASE Open(p)
    BY <2>1 DEF TypeOK, Open, Goto
  <2>2. CASE Lock(p)
    <3>1. file' \in File /\ journal' \in File
      BY <2>2, <1>1, ContentsTyped DEF Lock, Recover
    <3>2. holder' \in Process \cup {Nobody}
      BY <2>2 DEF TypeOK, Lock
    <3>3. draft' \in [Process -> File]
      BY <2>2, <1>1 DEF TypeOK, Lock, Keep
    <3>4. \E label \in {"stopped", "ready", "locked", "applying"} : pc' = [pc EXCEPT ![p] = label]
      BY <2>2, Zenon DEF Lock, Goto
    <3>5. backups' = backups /\ existed' = existed
      BY <2>2 DEF Lock
    <3>6. QED
      BY <3>1, <3>2, <3>3, <3>4, <3>5 DEF TypeOK
  <2>3. CASE BackupBegin(p)
    BY <2>3, BackupsTyped DEF TypeOK, BackupBegin, Goto
  <2>4. CASE BackupEnd(p)
    <3>1. backups' \subseteq backups \cup {Complete}
      BY <2>4 DEF BackupEnd
    <3>2. QED
      BY <2>4, <3>1, BackupsTyped DEF TypeOK, BackupEnd, Goto
  <2>5. CASE Apply(p)
    <3>1. Content("sound", draft[p].schema + 1, draft[p].data) \in File
      BY DEF TypeOK, File, Content
    <3>2. QED
      BY <2>5, <3>1 DEF TypeOK, Apply, Keep
  <2>6. CASE CommitBegin(p)
    BY <2>6, ContentsTyped DEF TypeOK, CommitBegin, Goto
  <2>7. CASE CommitEnd(p)
    BY <2>7, ContentsTyped DEF TypeOK, CommitEnd, Goto, Keep
  <2>8. CASE MigrationFails(p)
    BY <2>8, ContentsTyped DEF TypeOK, MigrationFails, RolledBack, Goto, Keep
  <2>9. ASSUME NEW w \in Write, Change(p, w) PROVE TypeOK'
    BY <2>9, <1>1, ContentsTyped DEF TypeOK, Change, Goto, Keep
  <2>10. CASE Close(p)
    BY <2>10 DEF TypeOK, Close, Goto
  <2>11. CASE Crash(p)
    BY <2>11, ContentsTyped DEF TypeOK, Crash, Goto, Keep
  <2>12. CASE CopyBegin(p)
    BY <2>12, <1>1, ContentsTyped DEF TypeOK, CopyBegin, Recover, Goto, Keep
  <2>13. CASE CopyEnd(p)
    <3>1. Manual(draft[p]) \in Backup
      BY BackupsTyped DEF TypeOK
    <3>2. QED
      BY <2>13, <3>1, ContentsTyped DEF TypeOK, CopyEnd, Goto, Keep
  <2>14. CASE RestoreEnd(p)
    BY <2>14, ContentsTyped DEF TypeOK, RestoreEnd, Goto, Keep
  <2>15. ASSUME NEW backup \in backups, RestoreBegin(p, backup) PROVE TypeOK'
    <3>1. backups' \subseteq Backup
      BY <2>15, <1>1, BackupsTyped DEF TypeOK, RestoreBegin, Healthy
    <3>2. file' \in File /\ journal' \in File
      BY <2>15, <1>1, ContentsTyped DEF TypeOK, RestoreBegin, Recover
    <3>3. backup.file \in File
      BY DEF TypeOK, Backup
    <3>4. draft' \in [Process -> File]
      BY <2>15, <3>3 DEF TypeOK, RestoreBegin, Keep
    <3>5. \E label \in {"stopped", "restoring"} : pc' = [pc EXCEPT ![p] = label]
      BY <2>15 DEF TypeOK, RestoreBegin, Goto
    <3>6. QED
      BY <2>15, <3>1, <3>2, <3>4, <3>5 DEF TypeOK, RestoreBegin
  <2>16. QED
    BY <1>4, <2>1, <2>2, <2>3, <2>4, <2>5, <2>6, <2>7, <2>8, <2>9, <2>10, <2>11, <2>12,
       <2>13, <2>14, <2>15 DEF Opening, Maintain
<1>5. QED
  BY <1>2, <1>3, <1>4 DEF Next

\* The state of the file, its journal, the backups and the processes stays
\* in its types through any openings, crashes, backups and restores
THEOREM TypeCorrect == ASSUME UpgradeAssumption PROVE Spec => []TypeOK
<1>1. Init => TypeOK
  BY InitTyped
<1>2. TypeOK /\ [Next]_vars => TypeOK'
  BY StepTyped
<1>3. QED
  BY <1>1, <1>2, PTL DEF Spec

---------------------------------------------------------------------------
(* What a connection finds *)

\* No file and an empty one are settled and differ
LEMMA Constants ==
  /\ Settled(Absent) /\ Settled(Empty) /\ Empty # Absent
  /\ Absent.state = "absent" /\ Empty.state = "empty" /\ Spoiled.state = "spoiled"
BY DEF Settled, Absent, Empty, Spoiled, Content

\* connect() finds a settled file or one that a stray journal spoiled
LEMMA OpenedSettled ==
  ASSUME FilesSettled
  PROVE  /\ Opened # Absent
         /\ Settled(Opened) \/ Opened = Spoiled
         /\ Opened.state \in {"empty", "sound", "spoiled"}
         /\ Opened.state \in {"empty", "sound"} => Settled(Opened)
<1>1. Settled(Recovered) \/ Recovered = Spoiled
  BY Constants DEF FilesSettled, Recovered, Spoiled, Settled
<1>2. Settled(Opened) \/ Opened = Spoiled
  BY <1>1, Constants DEF Opened
<1>3. Opened # Absent
  BY Constants DEF Opened
<1>4. QED
  BY <1>2, <1>3, Constants DEF Settled

\* Looking at a file that is settled changes nothing
LEMMA OpenedSame ==
  ASSUME journal = Absent, file # Absent
  PROVE  Opened = file
BY DEF Opened, Recovered

---------------------------------------------------------------------------
(* FilesSettled *)

\* There is nothing torn before the first opening
LEMMA SettledInit == Init => FilesSettled
BY Constants DEF Init, FilesSettled

\* Once a hot journal is dealt with there is no torn file and no journal
LEMMA RecoverSettles ==
  ASSUME FilesSettled, Recover
  PROVE  /\ Settled(file') \/ file' = Spoiled
         /\ Settled(journal') /\ journal' = Absent
         /\ file'.state # "torn"
BY OpenedSettled, Constants DEF Recover

\* A process that keeps a settled draft leaves all drafts settled
LEMMA KeptSettled ==
  ASSUME TypeOK, FilesSettled, NEW p \in Process, NEW content, Settled(content),
         Keep(p, content) \/ UNCHANGED draft
  PROVE  \A q \in Process : Settled(draft'[q])
BY DEF TypeOK, FilesSettled, Keep

\* Every step keeps the files settled: a transaction is written over the
\* file only with the journal beside it (commit())
LEMMA StepSettled ==
  ASSUME TypeOK, FilesSettled, WritersExclude, UpgradeAssumption, [Next]_vars
  PROVE  FilesSettled'
<1>1. CASE UNCHANGED vars
  BY <1>1 DEF FilesSettled, vars, Settled
<1>2. CASE MoveAway
  BY <1>2, Constants DEF FilesSettled, MoveAway, Settled
<1>3. ASSUME NEW p \in Process,
             \/ Open(p) \/ Opening(p) \/ MigrationFails(p)
             \/ \E w \in Write : Change(p, w)
             \/ Close(p) \/ Crash(p) \/ Maintain(p)
      PROVE  FilesSettled'
  <2>1. CASE UNCHANGED <<file, journal, backups, draft>>
    BY <2>1 DEF FilesSettled, Settled
  <2>2. CASE Open(p) \/ Close(p)
    BY <2>1, <2>2 DEF Open, Close
  <2>3. CASE Lock(p)
    <3>1. Settled(Opened) \/ UNCHANGED draft
      BY <2>3, OpenedSettled DEF Lock, Spoiled, Content
    <3>2. \A q \in Process : Settled(draft'[q])
      BY <2>3, <3>1, KeptSettled, Constants DEF Lock
    <3>3. QED
      BY <2>3, <3>2, RecoverSettles DEF Lock, FilesSettled
  <2>4. CASE BackupBegin(p)
    <3>1. Settled(Partial.file)
      BY Constants DEF Partial
    <3>2. QED
      BY <2>4, <3>1 DEF BackupBegin, FilesSettled
  <2>5. CASE BackupEnd(p)
    <3>1. Settled(Complete.file)
      BY <2>5 DEF BackupEnd, WritersExclude, Held, Complete
    <3>2. backups' \subseteq backups \cup {Complete}
      BY <2>5 DEF BackupEnd
    <3>3. QED
      BY <2>5, <3>1, <3>2 DEF BackupEnd, FilesSettled
  <2>6. CASE Apply(p)
    <3>1. Settled(Content("sound", draft[p].schema + 1, draft[p].data))
      BY DEF Settled, Content, TypeOK, File
    <3>2. \A q \in Process : Settled(draft'[q])
      BY <2>6, <3>1, KeptSettled DEF Apply
    <3>3. QED
      BY <2>6, <3>2 DEF Apply, FilesSettled
  <2>7. CASE CommitBegin(p)
    <3>1. Settled(file) /\ file # Absent
      BY <2>7 DEF CommitBegin, WritersExclude, Held
    <3>2. file'.state = "torn" /\ journal' = file
      BY <2>7 DEF CommitBegin, TypeOK, File
    <3>3. QED
      BY <2>7, <3>1, <3>2 DEF CommitBegin, FilesSettled
  <2>8. CASE CommitEnd(p)
    <3>1. \A q \in Process : Settled(draft'[q])
      BY <2>8, KeptSettled, Constants DEF CommitEnd
    <3>2. Settled(file') /\ journal' = Absent /\ file'.state # "torn"
      BY <2>8 DEF CommitEnd, FilesSettled, Settled
    <3>3. QED
      BY <2>8, <3>1, <3>2, Constants DEF CommitEnd, FilesSettled
  <2>9. CASE MigrationFails(p)
    <3>1. \A q \in Process : Settled(draft'[q])
      BY <2>9, KeptSettled, Constants DEF MigrationFails
    <3>2. QED
      BY <2>9, <3>1 DEF MigrationFails, FilesSettled
  <2>10. ASSUME NEW w \in Write, Change(p, w) PROVE FilesSettled'
    <3>1. Settled(Opened) /\ Opened # Absent /\ Opened \in File
      BY <2>10, OpenedSettled, OpenedTyped DEF Change
    <3>2. Settled([Opened EXCEPT !.data = @ \cup {w}])
      BY <2>10, <3>1 DEF Change, Settled, File
    <3>3. \A q \in Process : Settled(draft'[q])
      BY <2>10, <3>2, KeptSettled DEF Change
    <3>4. file'.state = "torn" /\ journal' = Opened
      BY <2>10, <3>1 DEF Change, File
    <3>5. QED
      BY <2>10, <3>1, <3>3, <3>4 DEF Change, FilesSettled
  <2>11. CASE Crash(p)
    <3>1. \A q \in Process : Settled(draft'[q])
      BY <2>11, KeptSettled, Constants DEF Crash
    <3>2. QED
      BY <2>11, <3>1 DEF Crash, FilesSettled
  <2>12. CASE CopyBegin(p)
    <3>1. Settled(Opened) \/ UNCHANGED draft
      BY <2>12, OpenedSettled DEF CopyBegin, Spoiled, Content
    <3>2. \A q \in Process : Settled(draft'[q])
      BY <2>12, <3>1, KeptSettled, Constants DEF CopyBegin
    <3>3. QED
      BY <2>12, <3>2, RecoverSettles DEF CopyBegin, FilesSettled
  <2>13. CASE CopyEnd(p)
    <3>1. Settled(Manual(draft[p]).file)
      BY DEF FilesSettled, Manual
    <3>2. \A q \in Process : Settled(draft'[q])
      BY <2>13, KeptSettled, Constants DEF CopyEnd
    <3>3. QED
      BY <2>13, <3>1, <3>2 DEF CopyEnd, FilesSettled
  <2>14. CASE RestoreEnd(p)
    <3>1. \A q \in Process : Settled(draft'[q])
      BY <2>14, KeptSettled, Constants DEF RestoreEnd
    <3>2. Settled(file') /\ file'.state # "torn"
      BY <2>14 DEF RestoreEnd, FilesSettled, Settled
    <3>3. QED
      BY <2>14, <3>1, <3>2 DEF RestoreEnd, FilesSettled
  <2>15. ASSUME NEW backup \in backups, RestoreBegin(p, backup) PROVE FilesSettled'
    <3>1. \A q \in Process : Settled(draft'[q])
      BY <2>15, KeptSettled DEF RestoreBegin, FilesSettled
    <3>2. \A c \in Healthy(Opened) : Settled(Manual(c).file)
      BY OpenedSettled DEF Healthy, Manual, Spoiled
    <3>3. CASE UNCHANGED <<file, journal, backups>>
      BY <3>1, <3>3 DEF FilesSettled, Settled
    <3>4. CASE Recover /\ backups' = backups \cup {Manual(c) : c \in Healthy(Opened)}
      <4>1. \A b \in backups' : Settled(b.file)
        BY <3>2, <3>4 DEF FilesSettled
      <4>2. QED
        BY <3>1, <3>4, <4>1, RecoverSettles DEF FilesSettled
    <3>5. QED
      BY <2>15, <3>3, <3>4 DEF RestoreBegin
  <2>16. QED
    BY <1>3, <2>2, <2>3, <2>4, <2>5, <2>6, <2>7, <2>8, <2>9, <2>10, <2>11, <2>12, <2>13,
       <2>14, <2>15 DEF Opening, Maintain
<1>4. QED
  BY <1>1, <1>2, <1>3 DEF Next

---------------------------------------------------------------------------
(* WritersExclude and UpgradesSaved *)

\* Nobody holds the lock at first
LEMMA ExcludeInit == Init => WritersExclude /\ UpgradesSaved
BY DEF Init, WritersExclude, UpgradesSaved, Held

\* What every other process that holds the lock sees of a step of p: nothing
Undisturbed(p) ==
  \A q \in Process \ {p} :
    /\ pc'[q] = pc[q] /\ existed'[q] = existed[q]
    /\ pc[q] \in Held \cup {"commit"} => holder' = holder
    /\ pc[q] \in Held => file' = file /\ journal' = journal
    /\ pc[q] \in Held =>
         \A b \in backups : b.whole => b \in backups'

\* An invariant of p itself after its step, and of the others if undisturbed
LEMMA OthersKept ==
  ASSUME TypeOK, WritersExclude, UpgradesSaved, NEW p \in Process, Undisturbed(p),
         pc'[p] \in Held \cup {"commit"} => holder' = p,
         pc'[p] \in Held => Settled(file') /\ file' # Absent /\ journal' = Absent,
         pc'[p] = "restoring" => \A q \in Process \ {p} : pc[q] = "stopped",
         pc'[p] # "stopped" => \A q \in Process \ {p} : pc[q] # "restoring",
         pc'[p] = "applying" /\ existed'[p] => SavedAsItIs'
  PROVE  WritersExclude' /\ UpgradesSaved'
<1>1. \A q \in Process : pc'[q] \in Held \cup {"commit"} => holder' = q
  BY DEF WritersExclude, Undisturbed
<1>2. \A q \in Process : pc'[q] \in Held =>
        Settled(file') /\ file' # Absent /\ journal' = Absent
  BY DEF WritersExclude, Undisturbed, Settled
<1>3. \A q, r \in Process : pc'[q] = "restoring" /\ r # q => pc'[r] = "stopped"
  BY DEF WritersExclude, Undisturbed
<1>4. ASSUME NEW q \in Process, pc'[q] = "applying", existed'[q]
      PROVE  SavedAsItIs'
  <2>1. CASE q = p
    BY <1>4, <2>1
  <2>2. CASE q # p
    BY <1>4, <2>2 DEF UpgradesSaved, Undisturbed, SavedAsItIs, Held
  <2>3. QED
    BY <2>1, <2>2
<1>5. QED
  BY <1>1, <1>2, <1>3, <1>4 DEF WritersExclude, UpgradesSaved

\* Only one process is between BEGIN IMMEDIATE and COMMIT
LEMMA OneHolder ==
  ASSUME TypeOK, WritersExclude, UpgradeAssumption, NEW p \in Process,
         holder = Nobody \/ holder = p
  PROVE  \A q \in Process \ {p} : pc[q] \notin Held \cup {"commit"}
BY DEF WritersExclude, UpgradeAssumption

\* A restore and anything else do not run together: its hosts are stopped
LEMMA NobodyRestores ==
  ASSUME WritersExclude, NEW p \in Process, pc[p] # "stopped"
  PROVE  \A q \in Process \ {p} : pc[q] # "restoring"
BY DEF WritersExclude

\* A step moves its own process only
LEMMA GoneTo ==
  ASSUME TypeOK, NEW p \in Process, NEW label, Goto(p, label)
  PROVE  pc'[p] = label /\ \A q \in Process \ {p} : pc'[q] = pc[q]
BY DEF TypeOK, Goto

\* A step that takes its process out of a transaction, or never in, and leaves
\* what holders look at alone
LEMMA StepOutside ==
  ASSUME TypeOK, WritersExclude, UpgradesSaved, UpgradeAssumption, NEW p \in Process,
         Undisturbed(p),
         pc'[p] \notin Held \cup {"commit", "restoring"},
         pc'[p] # "stopped" => \A q \in Process \ {p} : pc[q] # "restoring"
  PROVE  WritersExclude' /\ UpgradesSaved'
BY OthersKept DEF Held

\* Every step keeps the lock with one process, the file as that process
\* found it, and the backup it made
LEMMA StepExcludes ==
  ASSUME TypeOK, FilesSettled, WritersExclude, UpgradesSaved, UpgradeAssumption, [Next]_vars
  PROVE  WritersExclude' /\ UpgradesSaved'
<1>1. CASE UNCHANGED vars
  BY <1>1 DEF WritersExclude, UpgradesSaved, SavedAsItIs, vars, Settled
<1>2. CASE MoveAway
  BY <1>2 DEF MoveAway, WritersExclude, UpgradesSaved, Held
<1>3. ASSUME NEW p \in Process,
             \/ Open(p) \/ Opening(p) \/ MigrationFails(p)
             \/ \E w \in Write : Change(p, w)
             \/ Close(p) \/ Crash(p) \/ Maintain(p)
      PROVE  WritersExclude' /\ UpgradesSaved'
  <2>1. CASE Open(p)
    <3>1. pc'[p] = "opening" /\ \A q \in Process \ {p} : pc'[q] = pc[q]
      BY <2>1, GoneTo DEF Open
    <3>2. \A q \in Process \ {p} : existed'[q] = existed[q]
      BY <2>1 DEF Open, TypeOK
    <3>3. Undisturbed(p)
      BY <2>1, <3>1, <3>2 DEF Open, Undisturbed
    <3>4. QED
      BY <2>1, <3>1, <3>3, StepOutside DEF Open, NoRestore, Held
  <2>2. CASE Lock(p)
    <3>1. \A q \in Process \ {p} : pc[q] \notin Held \cup {"commit"}
      BY <2>2, OneHolder DEF Lock
    <3>2. PICK label \in {"stopped", "ready", "locked", "applying"} : Goto(p, label)
      BY <2>2, Zenon DEF Lock
    <3>3. pc'[p] = label /\ \A q \in Process \ {p} : pc'[q] = pc[q]
      BY <3>2, GoneTo
    <3>4. Undisturbed(p)
      BY <2>2, <3>1, <3>3 DEF Lock, Undisturbed
    <3>5. \A q \in Process \ {p} : pc[q] # "restoring"
      BY <2>2, NobodyRestores DEF Lock
    <3>6. CASE label \in {"stopped", "ready"}
      BY <3>3, <3>4, <3>5, <3>6, StepOutside DEF Held
    <3>7. CASE label \in {"locked", "applying"}
      <4>1. /\ ~(Opened.state = "spoiled" \/ Unsupported(Opened, ReleaseOf[p]))
            /\ Opened.schema # ReleaseOf[p]
            /\ holder' = p
            /\ Goto(p, IF BackupNeeded(p, Opened) THEN "locked" ELSE "applying")
        BY <2>2, <3>3, <3>7, GoneTo DEF Lock
      <4>2. Settled(file') /\ file' # Absent /\ journal' = Absent
        BY <2>2, <4>1, OpenedSettled, Constants DEF Lock, Recover
      <4>3. pc'[p] = "applying" => ~BackupNeeded(p, Opened)
        BY <4>1, GoneTo
      <4>4. Opened.schema < ReleaseOf[p]
        BY <4>1, OpenedTyped DEF Unsupported, UpgradeAssumption, File
      <4>5. pc'[p] = "applying" => ~existed'[p]
        BY <2>2, <4>3, <4>4 DEF BackupNeeded, Lock
      <4>6. QED
        BY <3>3, <3>4, <3>5, <3>7, <4>1, <4>2, <4>5, OthersKept
    <3>8. QED
      BY <3>6, <3>7
  <2>3. CASE BackupBegin(p)
    <3>1. pc'[p] = "copying" /\ \A q \in Process \ {p} : pc'[q] = pc[q]
      BY <2>3, GoneTo DEF BackupBegin
    <3>2. Undisturbed(p)
      BY <2>3, <3>1 DEF BackupBegin, Undisturbed
    <3>3. holder = p /\ Settled(file) /\ file # Absent /\ journal = Absent
      BY <2>3 DEF BackupBegin, WritersExclude, Held
    <3>4. \A q \in Process \ {p} : pc[q] # "restoring"
      BY <2>3, NobodyRestores DEF BackupBegin
    <3>5. QED
      BY <2>3, <3>1, <3>2, <3>3, <3>4, OthersKept DEF BackupBegin, Settled
  <2>4. CASE BackupEnd(p)
    <3>1. pc'[p] = "applying" /\ \A q \in Process \ {p} : pc'[q] = pc[q]
      BY <2>4, GoneTo DEF BackupEnd
    <3>2. \A b \in backups : b.whole => b \in backups'
      BY <2>4 DEF BackupEnd, Partial
    <3>3. Undisturbed(p)
      BY <2>4, <3>1, <3>2 DEF BackupEnd, Undisturbed
    <3>4. holder = p /\ Settled(file) /\ file # Absent /\ journal = Absent
      BY <2>4 DEF BackupEnd, WritersExclude, Held
    <3>5. \A q \in Process \ {p} : pc[q] # "restoring"
      BY <2>4, NobodyRestores DEF BackupEnd
    <3>6. SavedAsItIs'
      <4>1. Complete \in backups' /\ file' = file
        BY <2>4 DEF BackupEnd
      <4>2. Complete.whole /\ Complete.file = file
        BY DEF Complete
      <4>3. QED
        BY <4>1, <4>2 DEF SavedAsItIs
    <3>7. QED
      BY <2>4, <3>1, <3>3, <3>4, <3>5, <3>6, OthersKept DEF BackupEnd, Settled
  <2>5. CASE Apply(p)
    <3>1. Undisturbed(p)
      BY <2>5 DEF Apply, Undisturbed
    <3>2. holder = p /\ Settled(file) /\ file # Absent /\ journal = Absent
      BY <2>5 DEF Apply, WritersExclude, Held
    <3>3. \A q \in Process \ {p} : pc[q] # "restoring"
      BY <2>5, NobodyRestores DEF Apply
    <3>4. existed[p] => SavedAsItIs'
      BY <2>5 DEF Apply, UpgradesSaved, SavedAsItIs
    <3>5. QED
      BY <2>5, <3>1, <3>2, <3>3, <3>4, OthersKept DEF Apply, Settled
  <2>6. CASE CommitBegin(p)
    <3>1. pc'[p] = "commit" /\ \A q \in Process \ {p} : pc'[q] = pc[q]
      BY <2>6, GoneTo DEF CommitBegin
    <3>2. holder = p
      BY <2>6 DEF CommitBegin, WritersExclude, Held
    <3>3. \A q \in Process \ {p} : pc[q] \notin Held \cup {"commit"}
      BY <3>2, OneHolder
    <3>4. Undisturbed(p)
      BY <2>6, <3>1, <3>3 DEF CommitBegin, Undisturbed
    <3>5. \A q \in Process \ {p} : pc[q] # "restoring"
      BY <2>6, NobodyRestores DEF CommitBegin
    <3>6. QED
      BY <2>6, <3>1, <3>2, <3>4, <3>5, OthersKept DEF CommitBegin, Held
  <2>7. CASE CommitEnd(p)
    <3>1. pc'[p] = "ready" /\ \A q \in Process \ {p} : pc'[q] = pc[q]
      BY <2>7, GoneTo DEF CommitEnd
    <3>2. \A q \in Process \ {p} : pc[q] \notin Held \cup {"commit"}
      BY <2>7, OneHolder DEF CommitEnd, WritersExclude
    <3>3. Undisturbed(p)
      BY <2>7, <3>1, <3>2 DEF CommitEnd, Undisturbed
    <3>4. \A q \in Process \ {p} : pc[q] # "restoring"
      BY <2>7, NobodyRestores DEF CommitEnd
    <3>5. QED
      BY <3>1, <3>3, <3>4, StepOutside DEF Held
  <2>8. CASE MigrationFails(p)
    <3>1. pc'[p] = "stopped" /\ \A q \in Process \ {p} : pc'[q] = pc[q]
      BY <2>8, GoneTo DEF MigrationFails
    <3>2. \A q \in Process \ {p} : pc[q] \notin Held \cup {"commit"}
      BY <2>8, OneHolder DEF MigrationFails, WritersExclude, Held
    <3>3. Undisturbed(p)
      BY <2>8, <3>1, <3>2 DEF MigrationFails, Undisturbed
    <3>4. QED
      BY <3>1, <3>3, StepOutside DEF Held
  <2>9. ASSUME NEW w \in Write, Change(p, w) PROVE WritersExclude' /\ UpgradesSaved'
    <3>1. pc'[p] = "commit" /\ \A q \in Process \ {p} : pc'[q] = pc[q]
      BY <2>9, GoneTo DEF Change
    <3>2. \A q \in Process \ {p} : pc[q] \notin Held \cup {"commit"}
      BY <2>9, OneHolder DEF Change
    <3>3. Undisturbed(p)
      BY <2>9, <3>1, <3>2 DEF Change, Undisturbed
    <3>4. \A q \in Process \ {p} : pc[q] # "restoring"
      BY <2>9, NobodyRestores DEF Change
    <3>5. QED
      BY <2>9, <3>1, <3>3, <3>4, OthersKept DEF Change, Held
  <2>10. CASE Close(p)
    <3>1. pc'[p] = "stopped" /\ \A q \in Process \ {p} : pc'[q] = pc[q]
      BY <2>10, GoneTo DEF Close
    <3>2. Undisturbed(p)
      BY <2>10, <3>1 DEF Close, Undisturbed
    <3>3. QED
      BY <3>1, <3>2, StepOutside DEF Held
  <2>11. CASE Crash(p)
    <3>1. pc'[p] = "stopped" /\ \A q \in Process \ {p} : pc'[q] = pc[q]
      BY <2>11, GoneTo DEF Crash
    <3>2. \A q \in Process \ {p} : pc[q] \in Held \cup {"commit"} => holder' = holder
      BY <2>11 DEF Crash, WritersExclude
    <3>3. Undisturbed(p)
      BY <2>11, <3>1, <3>2 DEF Crash, Undisturbed
    <3>4. QED
      BY <3>1, <3>3, StepOutside DEF Held
  <2>12. CASE CopyBegin(p)
    <3>1. \A q \in Process \ {p} : pc[q] \in Held => file' = file /\ journal' = journal
      BY <2>12, OpenedSame DEF CopyBegin, Recover, WritersExclude
    <3>2. PICK label \in {"stopped", "copied"} : Goto(p, label)
      BY <2>12 DEF CopyBegin, Goto, TypeOK
    <3>3. pc'[p] = label /\ \A q \in Process \ {p} : pc'[q] = pc[q]
      BY <3>2, GoneTo
    <3>4. Undisturbed(p)
      BY <2>12, <3>1, <3>3 DEF CopyBegin, Undisturbed
    <3>5. QED
      BY <2>12, <3>3, <3>4, StepOutside DEF CopyBegin, NoRestore, Held
  <2>13. CASE CopyEnd(p)
    <3>1. pc'[p] = "stopped" /\ \A q \in Process \ {p} : pc'[q] = pc[q]
      BY <2>13, GoneTo DEF CopyEnd
    <3>2. Undisturbed(p)
      BY <2>13, <3>1 DEF CopyEnd, Undisturbed
    <3>3. QED
      BY <3>1, <3>2, StepOutside DEF Held
  <2>14. CASE RestoreEnd(p)
    <3>1. pc'[p] = "opening" /\ \A q \in Process \ {p} : pc'[q] = pc[q]
      BY <2>14, GoneTo DEF RestoreEnd
    <3>2. \A q \in Process \ {p} : pc[q] = "stopped"
      BY <2>14 DEF RestoreEnd, WritersExclude
    <3>3. \A q \in Process \ {p} : existed'[q] = existed[q]
      BY <2>14 DEF RestoreEnd, TypeOK
    <3>4. Undisturbed(p)
      BY <2>14, <3>1, <3>2, <3>3 DEF RestoreEnd, Undisturbed, Held
    <3>5. QED
      BY <3>1, <3>2, <3>4, StepOutside DEF Held
  <2>15. ASSUME NEW backup \in backups, RestoreBegin(p, backup)
         PROVE  WritersExclude' /\ UpgradesSaved'
    <3>1. \A q \in Process \ {p} : pc[q] = "stopped"
      BY <2>15 DEF RestoreBegin, HostsStopped
    <3>2. PICK label \in {"stopped", "restoring"} : Goto(p, label)
      BY <2>15 DEF RestoreBegin, Goto, TypeOK
    <3>3. pc'[p] = label /\ \A q \in Process \ {p} : pc'[q] = pc[q]
      BY <3>2, GoneTo
    <3>4. Undisturbed(p)
      BY <2>15, <3>1, <3>3 DEF RestoreBegin, Undisturbed, Held
    <3>5. QED
      BY <3>1, <3>3, <3>4, OthersKept DEF Held
  <2>16. QED
    BY <1>3, <2>1, <2>2, <2>3, <2>4, <2>5, <2>6, <2>7, <2>8, <2>9, <2>10, <2>11, <2>12,
       <2>13, <2>14, <2>15 DEF Opening, Maintain
<1>4. QED
  BY <1>1, <1>2, <1>3 DEF Next
---------------------------------------------------------------------------
(* The theorems *)

\* The strengthening that TLC checks as an invariant before it is proved: the
\* backup of UpgradesSaved still holds what is committed over because the file
\* is not written by anybody else meanwhile (WritersExclude).
THEOREM Invariance == ASSUME UpgradeAssumption PROVE Spec => []IInv
<1>1. Init => IInv
  BY InitTyped, SettledInit, ExcludeInit DEF IInv
<1>2. IInv /\ [Next]_vars => IInv'
  BY StepTyped, StepSettled, StepExcludes DEF IInv
<1>3. QED
  BY <1>1, <1>2, PTL DEF Spec

\* The commit of a migration replaces a file that its process had seen only if
\* a whole backup holds that file as it is (MemoryStore.migrate and
\* _backup_database), whatever other processes did since.
THEOREM UpgradesBackedUp == ASSUME UpgradeAssumption PROVE Spec => UpgradesAreBackedUp
<1>1. IInv => \A p \in Process :
        pc[p] = "applying" => (\E b \in backups : b.whole /\ b.file = file) \/ ~existed[p]
  BY DEF IInv, UpgradesSaved, SavedAsItIs
<1>2. IInv /\ [Next]_vars =>
        [\A p \in Process :
           pc[p] = "applying" /\ pc'[p] = "commit" /\ file.schema # 0 =>
             \/ \E b \in backups : b.whole /\ b.file = file
             \/ ~existed[p]]_vars
  BY <1>1
<1>3. QED
  BY <1>2, Invariance, PTL DEF Spec, UpgradesAreBackedUp

\* Doctor (diagnose, over a read-only connection) reports an error only where
\* opening would refuse, roll back or create, and otherwise says whether an
\* opening will migrate.
THEOREM DoctorRight == ASSUME UpgradeAssumption PROVE Spec => []DoctorAgrees
<1>1. ASSUME IInv PROVE DoctorAgrees
  <2>1. SUFFICES ASSUME NEW p \in Process
                 PROVE  LET verdict == Diagnosis(ReleaseOf[p])
                        IN  /\ verdict # "error" =>
                                 /\ ~Unsupported(file, ReleaseOf[p])
                                 /\ verdict = "warning" <=>
                                      file.state # "absent" /\ file.schema < ReleaseOf[p]
                            /\ verdict = "error" =>
                                 \/ Unsupported(file, ReleaseOf[p])
                                 \/ file.state # "sound" \/ journal # Absent
    BY DEF DoctorAgrees
  <2>2. ReleaseOf[p] \in Nat /\ ReleaseOf[p] > 0 /\ file.schema \in Nat
    BY <1>1 DEF IInv, TypeOK, File, UpgradeAssumption
  <2>3. CASE file.state = "absent"
    <3>1. Diagnosis(ReleaseOf[p]) = "ok"
      BY <2>3 DEF Diagnosis
    <3>2. file.schema = 0
      BY <1>1, <2>3, Constants DEF IInv, FilesSettled, Settled, Absent, Content
    <3>3. QED
      BY <2>2, <2>3, <3>1, <3>2 DEF Unsupported
  <2>4. CASE file.state # "absent" /\ (file.state \in {"torn", "spoiled"} \/ journal # Absent)
    <3>1. Diagnosis(ReleaseOf[p]) = "error"
      BY <2>4 DEF Diagnosis
    <3>2. QED
      BY <2>4, <3>1
  <2>5. CASE file.state \in {"empty", "sound"} /\ journal = Absent
    <3>1. Diagnosis(ReleaseOf[p]) =
            IF ~Compatible(file, ReleaseOf[p]) THEN "error"
            ELSE IF file.schema < ReleaseOf[p] THEN "warning" ELSE "ok"
      BY <2>5 DEF Diagnosis
    <3>2. file.schema # 0 <=> file.state = "sound"
      BY <1>1, <2>5 DEF IInv, FilesSettled, Settled, Spoiled, Content
    <3>3. QED
      BY <2>2, <2>5, <3>1, <3>2 DEF Compatible, Unsupported
  <2>6. QED
    BY <1>1, <2>3, <2>4, <2>5 DEF IInv, TypeOK, File
<1>2. QED
  BY <1>1, Invariance, PTL

---------------------------------------------------------------------------
(* The database implements SchemaLife.                                     *)

\* What a process that will change the file is going to make of it: a migration
\* the same data under a new schema, a write one more item, a restore a backup.
Migrating(p) ==
  /\ journal.schema < ReleaseOf[p]
  /\ draft[p].schema = ReleaseOf[p] /\ draft[p].data = journal.data
Recording(p) ==
  /\ journal.schema # 0
  /\ \E w \in Write : draft[p] = [journal EXCEPT !.data = @ \cup {w}]

Follows(p) ==
  /\ pc[p] \in Held => draft[p].data = file.data /\ file.schema < ReleaseOf[p]
  /\ pc[p] = "commit" => file.state = "torn" /\ (Migrating(p) \/ Recording(p))
  /\ pc[p] = "restoring" =>
       /\ file.state # "torn"
       /\ \E b \in backups : b.whole /\ b.file = draft[p] /\ b.file.schema # 0

DraftsFollow == \A p \in Process : Follows(p)

\* What every other process that will change the file sees of a step of p
Apart(p) ==
  \A q \in Process \ {p} :
    /\ pc'[q] = pc[q] /\ draft'[q] = draft[q]
    /\ pc[q] \in Held \cup {"commit", "restoring"} =>
         /\ file' = file /\ journal' = journal
         /\ \A b \in backups : b.whole => b \in backups'

LEMMA ApartFollow ==
  ASSUME DraftsFollow, NEW p \in Process, Apart(p), Follows(p)'
  PROVE  DraftsFollow'
<1> SUFFICES ASSUME NEW q \in Process, q # p PROVE Follows(q)'
  BY DEF DraftsFollow
<1>1. Follows(q) /\ pc'[q] = pc[q] /\ draft'[q] = draft[q]
  BY DEF DraftsFollow, Apart
<1>2. CASE pc[q] \notin Held \cup {"commit", "restoring"}
  BY <1>1, <1>2 DEF Follows
<1>3. CASE pc[q] \in Held \cup {"commit", "restoring"}
  <2>1. /\ file' = file /\ journal' = journal
        /\ \A b \in backups : b.whole => b \in backups'
    BY <1>3 DEF Apart
  <2>2. QED
    BY <1>1, <2>1 DEF Follows, Migrating, Recording
<1>4. QED
  BY <1>2, <1>3

LEMMA KeptFor ==
  ASSUME TypeOK, NEW p \in Process, NEW content, Keep(p, content)
  PROVE  draft'[p] = content /\ \A q \in Process \ {p} : draft'[q] = draft[q]
BY DEF TypeOK, Keep

\* A process that is in no transaction and restores nothing has nothing to follow
LEMMA IdleFollows ==
  ASSUME NEW p \in Process, pc'[p] \notin Held \cup {"commit", "restoring"}
  PROVE  Follows(p)'
BY DEF Follows

LEMMA FollowInit == Init => DraftsFollow
BY DEF Init, DraftsFollow, Follows, Held

LEMMA StepFollows ==
  ASSUME TypeOK, FilesSettled, WritersExclude, DraftsFollow, UpgradeAssumption, [Next]_vars
  PROVE  DraftsFollow'
<1>1. CASE UNCHANGED vars
  BY <1>1 DEF vars, DraftsFollow, Follows, Migrating, Recording
<1>2. CASE MoveAway
  BY <1>2 DEF MoveAway, DraftsFollow, Follows, Held
<1>3. ASSUME NEW p \in Process,
             \/ Open(p) \/ Opening(p) \/ MigrationFails(p)
             \/ \E w \in Write : Change(p, w)
             \/ Close(p) \/ Crash(p) \/ Maintain(p)
      PROVE  DraftsFollow'
  <2> USE DEF Apart
  <2>1. CASE Open(p) \/ Close(p)
    <3>1. pc'[p] \in {"opening", "stopped"} /\ \A q \in Process \ {p} : pc'[q] = pc[q]
      BY <2>1, GoneTo DEF Open, Close
    <3>2. Apart(p)
      BY <2>1, <3>1 DEF Open, Close
    <3>3. QED
      BY <3>1, <3>2, IdleFollows, ApartFollow DEF Held
  <2>2. CASE Lock(p)
    <3>1. \A q \in Process \ {p} : pc[q] \notin Held \cup {"commit"}
      BY <2>2, OneHolder DEF Lock
    <3>2. \A q \in Process \ {p} : pc[q] # "restoring"
      BY <2>2, NobodyRestores DEF Lock
    <3>3. PICK label \in {"stopped", "ready", "locked", "applying"} : Goto(p, label)
      BY <2>2, Zenon DEF Lock
    <3>4. pc'[p] = label /\ \A q \in Process \ {p} : pc'[q] = pc[q]
      BY <3>3, GoneTo
    <3>5. \A q \in Process \ {p} : draft'[q] = draft[q]
      BY <2>2, KeptFor DEF Lock
    <3>6. Apart(p)
      BY <3>1, <3>2, <3>4, <3>5
    <3>7. CASE label \in {"stopped", "ready"}
      BY <3>4, <3>6, <3>7, IdleFollows, ApartFollow DEF Held
    <3>8. CASE label \in {"locked", "applying"}
      <4>1. /\ ~Unsupported(Opened, ReleaseOf[p]) /\ Opened.schema # ReleaseOf[p]
            /\ Keep(p, Opened) /\ file' = Opened
        BY <2>2, <3>4, <3>8, GoneTo DEF Lock, Recover
      <4>2. Opened.schema < ReleaseOf[p]
        BY <4>1, OpenedTyped DEF Unsupported, UpgradeAssumption, File
      <4>3. Follows(p)'
        BY <3>4, <3>8, <4>1, <4>2, KeptFor DEF Follows
      <4>4. QED
        BY <3>6, <4>3, ApartFollow
    <3>9. QED
      BY <3>7, <3>8
  <2>3. CASE BackupBegin(p) \/ BackupEnd(p)
    <3>1. pc[p] \in Held /\ pc'[p] \in Held /\ \A q \in Process \ {p} : pc'[q] = pc[q]
      BY <2>3, GoneTo DEF BackupBegin, BackupEnd, Held
    <3>2. UNCHANGED <<file, journal, draft>> /\ \A b \in backups : b.whole => b \in backups'
      BY <2>3 DEF BackupBegin, BackupEnd, Partial
    <3>3. Apart(p)
      BY <3>1, <3>2
    <3>4. Follows(p)'
      BY <3>1, <3>2 DEF DraftsFollow, Follows, Held
    <3>5. QED
      BY <3>3, <3>4, ApartFollow
  <2>4. CASE Apply(p)
    <3>1. draft'[p].data = draft[p].data /\ \A q \in Process \ {p} : draft'[q] = draft[q]
      BY <2>4, KeptFor DEF Apply, Content
    <3>2. Apart(p)
      BY <2>4, <3>1 DEF Apply
    <3>3. Follows(p)'
      BY <2>4, <3>1 DEF Apply, DraftsFollow, Follows, Held
    <3>4. QED
      BY <3>2, <3>3, ApartFollow
  <2>5. CASE CommitBegin(p)
    <3>1. pc'[p] = "commit" /\ \A q \in Process \ {p} : pc'[q] = pc[q]
      BY <2>5, GoneTo DEF CommitBegin
    <3>2. \A q \in Process \ {p} : pc[q] \notin Held \cup {"commit"}
      BY <2>5, OneHolder DEF CommitBegin, WritersExclude, Held
    <3>3. \A q \in Process \ {p} : pc[q] # "restoring"
      BY <2>5, NobodyRestores DEF CommitBegin
    <3>4. Apart(p)
      BY <2>5, <3>1, <3>2, <3>3 DEF CommitBegin
    <3>5. file'.state = "torn" /\ journal' = file /\ draft' = draft
      BY <2>5 DEF CommitBegin, TypeOK, File
    <3>6. draft[p].data = file.data /\ file.schema < ReleaseOf[p]
      BY <2>5 DEF CommitBegin, DraftsFollow, Follows, Held
    <3>7. Follows(p)'
      BY <2>5, <3>1, <3>5, <3>6 DEF CommitBegin, AllApplied, Follows, Migrating, Held
    <3>8. QED
      BY <3>4, <3>7, ApartFollow
  <2>6. CASE CommitEnd(p) \/ MigrationFails(p)
    <3>1. pc'[p] \in {"ready", "stopped"} /\ \A q \in Process \ {p} : pc'[q] = pc[q]
      BY <2>6, GoneTo DEF CommitEnd, MigrationFails
    <3>2. \A q \in Process \ {p} : pc[q] \notin Held \cup {"commit"}
      BY <2>6, OneHolder DEF CommitEnd, MigrationFails, WritersExclude, Held
    <3>3. \A q \in Process \ {p} : pc[q] # "restoring"
      BY <2>6, NobodyRestores DEF CommitEnd, MigrationFails
    <3>4. \A q \in Process \ {p} : draft'[q] = draft[q]
      BY <2>6, KeptFor DEF CommitEnd, MigrationFails
    <3>5. Apart(p)
      BY <3>1, <3>2, <3>3, <3>4
    <3>6. QED
      BY <3>1, <3>5, IdleFollows, ApartFollow DEF Held
  <2>7. ASSUME NEW w \in Write, Change(p, w) PROVE DraftsFollow'
    <3>1. pc'[p] = "commit" /\ \A q \in Process \ {p} : pc'[q] = pc[q]
      BY <2>7, GoneTo DEF Change
    <3>2. \A q \in Process \ {p} : pc[q] \notin Held \cup {"commit"}
      BY <2>7, OneHolder DEF Change
    <3>3. \A q \in Process \ {p} : pc[q] # "restoring"
      BY <2>7, NobodyRestores DEF Change
    <3>4. /\ draft'[p] = [Opened EXCEPT !.data = @ \cup {w}]
          /\ \A q \in Process \ {p} : draft'[q] = draft[q]
      BY <2>7, KeptFor DEF Change
    <3>5. Apart(p)
      BY <3>1, <3>2, <3>3, <3>4
    <3>6. Opened \in File /\ Settled(Opened) /\ Opened.state = "sound"
      BY <2>7, OpenedTyped, OpenedSettled DEF Change
    <3>7. file'.state = "torn" /\ journal' = Opened /\ Opened.schema # 0
      BY <2>7, <3>6 DEF Change, File, Settled
    <3>8. Follows(p)'
      BY <3>1, <3>4, <3>7 DEF Follows, Recording, Held
    <3>9. QED
      BY <3>5, <3>8, ApartFollow
  <2>8. CASE Crash(p)
    <3>1. pc'[p] = "stopped" /\ \A q \in Process \ {p} : pc'[q] = pc[q]
      BY <2>8, GoneTo DEF Crash
    <3>2. \A q \in Process \ {p} : draft'[q] = draft[q]
      BY <2>8, KeptFor DEF Crash
    <3>3. Apart(p)
      BY <2>8, <3>1, <3>2 DEF Crash
    <3>4. QED
      BY <3>1, <3>3, IdleFollows, ApartFollow DEF Held
  <2>9. CASE CopyBegin(p)
    <3>1. \A q \in Process : pc[q] \notin {"commit", "restoring"}
      BY <2>9 DEF CopyBegin, Accessible, NoRestore
    <3>2. \A q \in Process \ {p} : pc[q] \in Held => file' = file /\ journal' = journal
      BY <2>9, OpenedSame DEF CopyBegin, Recover, WritersExclude
    <3>3. PICK label \in {"stopped", "copied"} : Goto(p, label)
      BY <2>9 DEF CopyBegin, Goto, TypeOK
    <3>4. pc'[p] = label /\ \A q \in Process \ {p} : pc'[q] = pc[q]
      BY <3>3, GoneTo
    <3>5. \A q \in Process \ {p} : draft'[q] = draft[q]
      BY <2>9, KeptFor DEF CopyBegin
    <3>6. Apart(p)
      BY <2>9, <3>1, <3>2, <3>4, <3>5 DEF CopyBegin
    <3>7. QED
      BY <3>4, <3>6, IdleFollows, ApartFollow DEF Held
  <2>10. CASE CopyEnd(p)
    <3>1. pc'[p] = "stopped" /\ \A q \in Process \ {p} : pc'[q] = pc[q]
      BY <2>10, GoneTo DEF CopyEnd
    <3>2. \A q \in Process \ {p} : draft'[q] = draft[q]
      BY <2>10, KeptFor DEF CopyEnd
    <3>3. Apart(p)
      BY <2>10, <3>1, <3>2 DEF CopyEnd
    <3>4. QED
      BY <3>1, <3>3, IdleFollows, ApartFollow DEF Held
  <2>11. CASE RestoreEnd(p)
    <3>1. pc'[p] = "opening" /\ \A q \in Process \ {p} : pc'[q] = pc[q]
      BY <2>11, GoneTo DEF RestoreEnd
    <3>2. \A q \in Process \ {p} : pc[q] = "stopped"
      BY <2>11 DEF RestoreEnd, WritersExclude
    <3>3. \A q \in Process \ {p} : draft'[q] = draft[q]
      BY <2>11, KeptFor DEF RestoreEnd
    <3>4. Apart(p)
      BY <3>1, <3>2, <3>3 DEF Held
    <3>5. QED
      BY <3>1, <3>4, IdleFollows, ApartFollow DEF Held
  <2>12. ASSUME NEW backup \in backups, RestoreBegin(p, backup) PROVE DraftsFollow'
    <3>1. \A q \in Process \ {p} : pc[q] = "stopped"
      BY <2>12 DEF RestoreBegin, HostsStopped
    <3>2. \/ UNCHANGED <<pc, draft>>
          \/ Keep(p, backup.file) /\ Goto(p, "restoring")
      BY <2>12 DEF RestoreBegin
    <3>3. /\ pc'[p] = "stopped" \/ (pc'[p] = "restoring" /\ draft'[p] = backup.file)
          /\ \A q \in Process \ {p} : pc'[q] = pc[q] /\ draft'[q] = draft[q]
      BY <2>12, <3>2, KeptFor, GoneTo DEF RestoreBegin
    <3>4. Apart(p)
      BY <3>1, <3>3 DEF Held
    <3>5. file'.state # "torn"
      BY <2>12, RecoverSettles DEF RestoreBegin
    <3>6. backup \in backups' /\ backup.whole /\ backup.file.schema # 0
      BY <2>12 DEF RestoreBegin, Restorable
    <3>7. Follows(p)'
      BY <3>3, <3>5, <3>6 DEF Follows, Held
    <3>8. QED
      BY <3>4, <3>7, ApartFollow
  <2>13. QED
    BY <1>3, <2>1, <2>2, <2>3, <2>4, <2>5, <2>6, <2>7, <2>8, <2>9, <2>10, <2>11, <2>12
       DEF Opening, Maintain
<1>4. QED
  BY <1>1, <1>2, <1>3 DEF Next

\* The refinement mapping of SL, by name
TheDatabase == Logical(IF file.state = "torn" THEN journal ELSE file)
WholeBackups == {Logical(b.file) : b \in {c \in backups : c.whole}}
Copies == {Logical(draft[p]) : p \in {q \in Process : pc[q] = "copied"}}
TheSaved == WholeBackups \cup Copies
TheStray == journal # Absent /\ file.state # "torn"

\* The steps of SchemaLife, in these names
LEMMA AbstractSteps ==
  /\ UNCHANGED <<TheDatabase, TheSaved, TheStray>> => UNCHANGED SL!vars
  /\ TheDatabase' = TheDatabase /\ TheSaved' = TheSaved /\ ~TheStray' => SL!Next
  /\ /\ TheDatabase.sound /\ TheSaved' = TheSaved \cup {TheDatabase}
     /\ TheDatabase' = TheDatabase /\ (~TheStray' \/ TheStray' = TheStray)
     => SL!Next
  /\ TheSaved' \subseteq TheSaved /\ TheDatabase' = TheDatabase /\ TheStray' = TheStray
     => SL!Next
  /\ /\ TheDatabase' \in TheSaved /\ TheDatabase'.schema # 0
     /\ TheSaved' = TheSaved /\ TheStray' = TheStray
     => SL!Next
  /\ TheDatabase' = Logical(Absent) /\ TheSaved' = TheSaved => SL!Next
  /\ /\ TheStray /\ ~TheStray' /\ TheSaved' = TheSaved
     /\ TheDatabase' = Logical(Spoiled)
     => SL!Next
<1> DEFINE d == TheDatabase
           s == TheSaved
           t == TheStray
<1>1. t \in BOOLEAN /\ t' \in BOOLEAN
  BY DEF TheStray
<1>2. /\ Logical(Absent) = SL!NoDatabase
      /\ Logical(Spoiled) = [SL!NoDatabase EXCEPT !.sound = FALSE]
  <2>1. /\ Logical(Absent) = [schema |-> 0, data |-> {}, sound |-> "absent" # "spoiled"]
        /\ Logical(Spoiled) = [schema |-> 0, data |-> {}, sound |-> "spoiled" # "spoiled"]
    BY DEF Logical, Absent, Spoiled, Content
  <2>2. ("absent" # "spoiled") = TRUE /\ ("spoiled" # "spoiled") = FALSE
    OBVIOUS
  <2>3. [SL!NoDatabase EXCEPT !.sound = FALSE] = [schema |-> 0, data |-> {}, sound |-> FALSE]
    <3>1. \A no : [[schema |-> 0, data |-> {}, sound |-> TRUE] EXCEPT !.sound = no] =
                   [schema |-> 0, data |-> {}, sound |-> no]
      OBVIOUS
    <3>2. QED
      BY <3>1, Zenon DEF SL!NoDatabase
  <2>4. QED
    BY <2>1, <2>2, <2>3 DEF SL!NoDatabase
<1>3. SL!vars = <<d, s, t>> /\ SL!vars' = <<d', s', t'>>
  BY DEF SL!vars, TheDatabase, TheSaved, WholeBackups, Copies, TheStray
<1>4. /\ SL!Clear <=> t' = FALSE /\ d' = d /\ s' = s
      /\ SL!Save <=> d.sound /\ s' = s \cup {d} /\ t' \in {t, FALSE} /\ d' = d
      /\ SL!Discard <=> s' \in SUBSET s /\ d' = d /\ t' = t
      /\ SL!Restore <=> d' \in s /\ d'.schema # 0 /\ s' = s /\ t' = t
      /\ SL!Remove <=> d' = SL!NoDatabase /\ t' \in BOOLEAN /\ s' = s
      /\ SL!Spoil <=> t /\ t' = FALSE /\ d' = [SL!NoDatabase EXCEPT !.sound = FALSE] /\ s' = s
  BY Zenon DEF SL!Clear, SL!Save, SL!Discard, SL!Restore, SL!Remove, SL!Spoil,
       TheDatabase, TheSaved, WholeBackups, Copies, TheStray
<1> HIDE DEF d, s, t
<1>5. QED
  BY <1>1, <1>2, <1>3, <1>4, Zenon DEF SL!Next, d, s, t

\* A migration or a write becomes durable
\* What a migration and a write make of a sound database
LEMMA LogicalExcept ==
  ASSUME NEW s, NEW d, NEW base, base = [schema |-> s, data |-> d, sound |-> TRUE]
  PROVE  /\ base.schema = s /\ base.data = d
         /\ \A new : [base EXCEPT !.schema = new] = [schema |-> new, data |-> d, sound |-> TRUE]
         /\ \A w : [base EXCEPT !.data = @ \cup {w}]
                     = [schema |-> s, data |-> d \cup {w}, sound |-> TRUE]
<1>1. base.schema = s /\ base.data = d
  OBVIOUS
<1>2. PICK z : z = TRUE
  OBVIOUS
<1>3. base = [schema |-> s, data |-> d, sound |-> z]
  BY <1>2, Zenon
<1>4. ASSUME NEW new
      PROVE  [base EXCEPT !.schema = new] = [schema |-> new, data |-> d, sound |-> TRUE]
  <2>1. [[schema |-> s, data |-> d, sound |-> z] EXCEPT !.schema = new]
          = [schema |-> new, data |-> d, sound |-> z]
    OBVIOUS
  <2>2. QED
    BY <1>2, <1>3, <2>1, Zenon
<1>5. ASSUME NEW new
      PROVE  [base EXCEPT !.data = new] = [schema |-> s, data |-> new, sound |-> TRUE]
  <2>1. [[schema |-> s, data |-> d, sound |-> z] EXCEPT !.data = new]
          = [schema |-> s, data |-> new, sound |-> z]
    OBVIOUS
  <2>2. QED
    BY <1>2, <1>3, <2>1, Zenon
<1>6. ASSUME NEW w
      PROVE  [base EXCEPT !.data = @ \cup {w}]
               = [schema |-> s, data |-> d \cup {w}, sound |-> TRUE]
  <2>1. [base EXCEPT !.data = @ \cup {w}] = [base EXCEPT !.data = d \cup {w}]
    BY <1>1
  <2>2. QED
    BY <1>5, <2>1
<1>7. QED
  BY <1>1, <1>4, <1>6

LEMMA AbstractCommit ==
  ASSUME TheSaved' = TheSaved, TheStray' = TheStray,
         \/ \E r \in Releases : /\ TheDatabase.schema < r
                                /\ TheDatabase' = [TheDatabase EXCEPT !.schema = r]
         \/ \E w \in Write : /\ TheDatabase.schema # 0
                             /\ TheDatabase' = [TheDatabase EXCEPT !.data = @ \cup {w}]
  PROVE  SL!Next
<1>1. \/ SL!Upgrade
      \/ SL!Record
  BY DEF SL!Upgrade, SL!Record, TheDatabase, TheSaved, WholeBackups, Copies, TheStray
<1>2. QED
  BY <1>1 DEF SL!Next

---------------------------------------------------------------------------
(* What the steps do to the mapping *)

\* Dealing with a hot journal changes the database only where it spoils it
LEMMA RecoverMaps ==
  ASSUME FilesSettled, Recover
  PROVE  /\ ~TheStray'
         /\ \/ TheDatabase' = TheDatabase
            \/ TheStray /\ TheDatabase' = Logical(Spoiled)
         /\ TheDatabase' = Logical(Opened)
<1>1. file' = Opened /\ journal' = Absent /\ file'.state # "torn"
  BY RecoverSettles DEF Recover
<1>2. TheDatabase' = Logical(Opened) /\ ~TheStray'
  BY <1>1 DEF TheDatabase, TheStray
<1>3. Logical(Empty) = Logical(Absent)
  BY DEF Logical, Empty, Absent, Content
<1>4. CASE journal = Absent
  <2>1. file.state # "torn" /\ Recovered = file
    BY <1>4 DEF FilesSettled, Recovered
  <2>2. QED
    BY <1>2, <1>3, <2>1 DEF Opened, TheDatabase
<1>5. CASE journal # Absent /\ file.state \in {"absent", "empty"}
  <2>1. Recovered = file
    BY <1>5 DEF Recovered
  <2>2. QED
    BY <1>2, <1>3, <1>5, <2>1 DEF Opened, TheDatabase
<1>6. CASE journal # Absent /\ file.state = "torn"
  <2>1. Recovered = journal
    BY <1>6 DEF Recovered
  <2>2. QED
    BY <1>2, <1>6, <2>1 DEF Opened, TheDatabase
<1>7. CASE journal # Absent /\ file.state \notin {"absent", "empty", "torn"}
  <2>1. Recovered = Spoiled
    BY <1>7 DEF Recovered, Spoiled
  <2>2. Opened = Spoiled
    BY <2>1, Constants DEF Opened
  <2>3. QED
    BY <1>2, <1>7, <2>2 DEF TheStray
<1>8. QED
  BY <1>2, <1>4, <1>5, <1>6, <1>7

\* A step that neither begins nor ends a copy
LEMMA CopiesSame ==
  ASSUME NEW p \in Process, pc[p] # "copied", pc'[p] # "copied",
         \A q \in Process \ {p} : pc'[q] = pc[q] /\ draft'[q] = draft[q]
  PROVE  Copies' = Copies
<1>1. {q \in Process : pc'[q] = "copied"} = {q \in Process : pc[q] = "copied"}
  OBVIOUS
<1>2. \A q \in Process : pc[q] = "copied" => draft'[q] = draft[q]
  OBVIOUS
<1>3. QED
  BY <1>1, <1>2 DEF Copies

\* A step of one process beside copies that go on
LEMMA OthersSame ==
  ASSUME TypeOK, NEW p \in Process, NEW label, Goto(p, label),
         (\E content : Keep(p, content)) \/ UNCHANGED draft
  PROVE  /\ pc'[p] = label
         /\ \A q \in Process \ {p} : pc'[q] = pc[q] /\ draft'[q] = draft[q]
BY GoneTo, KeptFor

\* Backups only gain a copy of the database as it is, or nothing whole
LEMMA SchemaLifeStep ==
  ASSUME TypeOK, FilesSettled, WritersExclude, DraftsFollow, UpgradeAssumption, [Next]_vars
  PROVE  [SL!Next]_(SL!vars)
<1>1. CASE UNCHANGED vars
  BY <1>1, AbstractSteps DEF vars, TheDatabase, TheSaved, WholeBackups, Copies, TheStray
<1>2. CASE MoveAway
  <2>1. TheDatabase' = Logical(Absent)
    BY <1>2, Constants DEF MoveAway, TheDatabase
  <2>2. TheSaved' = TheSaved
    BY <1>2 DEF MoveAway, TheSaved, WholeBackups, Copies
  <2>3. QED
    BY <2>1, <2>2, AbstractSteps
<1>3. ASSUME NEW p \in Process,
             \/ Open(p) \/ Opening(p) \/ MigrationFails(p)
             \/ \E w \in Write : Change(p, w)
             \/ Close(p) \/ Crash(p) \/ Maintain(p)
      PROVE  [SL!Next]_(SL!vars)
  <2>1. CASE Open(p) \/ Close(p) \/ MigrationFails(p)
    <3>1. /\ pc[p] # "copied" /\ pc'[p] # "copied"
          /\ \A q \in Process \ {p} : pc'[q] = pc[q] /\ draft'[q] = draft[q]
      BY <2>1, OthersSame DEF Open, Close, MigrationFails
    <3>2. Copies' = Copies
      BY <3>1, CopiesSame
    <3>3. UNCHANGED <<file, journal, backups>>
      BY <2>1 DEF Open, Close, MigrationFails
    <3>4. QED
      BY <3>2, <3>3, AbstractSteps DEF TheDatabase, TheSaved, WholeBackups, TheStray
  <2>2. CASE Lock(p)
    <3>1. PICK label \in {"stopped", "ready", "locked", "applying"} : Goto(p, label)
      BY <2>2, Zenon DEF Lock
    <3>2. UNCHANGED draft \/ Keep(p, Opened)
      BY <2>2 DEF Lock
    <3>3. Copies' = Copies
      BY <2>2, <3>1, <3>2, OthersSame, CopiesSame DEF Lock
    <3>4. TheSaved' = TheSaved /\ Recover
      BY <2>2, <3>3 DEF Lock, TheSaved, WholeBackups
    <3>5. QED
      BY <3>4, RecoverMaps, AbstractSteps
  <2>3. CASE BackupBegin(p)
    <3>1. Copies' = Copies
      BY <2>3, OthersSame, CopiesSame DEF BackupBegin
    <3>2. WholeBackups' = WholeBackups
      BY <2>3 DEF BackupBegin, Partial, WholeBackups
    <3>3. UNCHANGED <<TheDatabase, TheStray>>
      BY <2>3 DEF BackupBegin, TheDatabase, TheStray
    <3>4. QED
      BY <3>1, <3>2, <3>3, AbstractSteps DEF TheSaved
  <2>4. CASE BackupEnd(p)
    <3>1. Copies' = Copies
      BY <2>4, OthersSame, CopiesSame DEF BackupEnd
    <3>2. Settled(file)
      BY <2>4 DEF BackupEnd, WritersExclude, Held
    <3>3. TheDatabase = Logical(file) /\ TheDatabase.sound
      BY <3>2 DEF TheDatabase, Settled, Logical
    <3>4. WholeBackups' = WholeBackups \cup {Logical(file)}
      <4>1. {b \in backups' : b.whole} = {b \in backups : b.whole} \cup {Complete}
        BY <2>4 DEF BackupEnd, Complete, Partial
      <4>2. Complete.file = file
        BY DEF Complete
      <4>3. QED
        BY <4>1, <4>2 DEF WholeBackups
    <3>5. UNCHANGED <<TheDatabase, TheStray>>
      BY <2>4 DEF BackupEnd, TheDatabase, TheStray
    <3>6. QED
      BY <3>1, <3>3, <3>4, <3>5, AbstractSteps DEF TheSaved
  <2>5. CASE Apply(p)
    <3>1. Copies' = Copies
      BY <2>5, KeptFor, CopiesSame DEF Apply
    <3>2. QED
      BY <2>5, <3>1, AbstractSteps
         DEF Apply, TheDatabase, TheSaved, WholeBackups, TheStray
  <2>6. CASE CommitBegin(p)
    <3>1. TheSaved' = TheSaved
      BY <2>6, OthersSame, CopiesSame DEF CommitBegin, TheSaved, WholeBackups
    <3>2. file.state # "torn" /\ journal = Absent
      BY <2>6 DEF CommitBegin, WritersExclude, Held, Settled
    <3>3. file'.state = "torn" /\ journal' = file
      BY <2>6 DEF CommitBegin, TypeOK, File
    <3>4. UNCHANGED <<TheDatabase, TheStray>>
      BY <3>2, <3>3 DEF TheDatabase, TheStray
    <3>5. QED
      BY <3>1, <3>4, AbstractSteps
  <2>7. CASE CommitEnd(p)
    <3>1. TheSaved' = TheSaved
      BY <2>7, OthersSame, CopiesSame DEF CommitEnd, TheSaved, WholeBackups
    <3>2. /\ file.state = "torn" /\ file' = draft[p] /\ journal' = Absent
          /\ Settled(draft[p]) /\ Settled(journal) /\ (Migrating(p) \/ Recording(p))
      BY <2>7 DEF CommitEnd, FilesSettled, DraftsFollow, Follows
    <3>3. draft[p] \in File /\ journal \in File
      BY DEF TypeOK
    <3>4. /\ TheDatabase = Logical(journal) /\ TheDatabase' = Logical(draft[p])
          /\ TheStray = FALSE /\ TheStray' = FALSE
      <4>1. file.state = "torn" /\ draft[p].state # "torn"
        BY <3>2 DEF Settled
      <4>2. file'.state # "torn" /\ journal' = Absent
        BY <3>2, <4>1
      <4>3. QED
        BY <3>2, <4>1, <4>2 DEF TheDatabase, TheStray
    <3>5. /\ Logical(journal) =
               [schema |-> journal.schema, data |-> journal.data, sound |-> TRUE]
          /\ Logical(draft[p]) =
               [schema |-> draft[p].schema, data |-> draft[p].data, sound |-> TRUE]
      <4>1. (journal.state # "spoiled") = TRUE /\ (draft[p].state # "spoiled") = TRUE
        BY <2>7 DEF CommitEnd, FilesSettled, Settled
      <4>2. QED
        BY <4>1 DEF Logical
    <3>6. CASE Migrating(p)
      <4>1. ReleaseOf[p] \in Releases
        BY DEF Releases
      <4>2. /\ TheDatabase.schema < ReleaseOf[p]
            /\ TheDatabase' = [TheDatabase EXCEPT !.schema = ReleaseOf[p]]
        BY <3>4, <3>5, <3>6, LogicalExcept DEF Migrating
      <4>3. QED
        BY <3>1, <3>4, <4>1, <4>2, AbstractCommit
    <3>7. CASE Recording(p)
      <4>1. PICK w \in Write : draft[p] = [journal EXCEPT !.data = @ \cup {w}]
        BY <3>7 DEF Recording
      <4>2. draft[p].schema = journal.schema /\ draft[p].data = journal.data \cup {w}
        BY <3>3, <4>1 DEF File
      <4>3. /\ TheDatabase.schema # 0
            /\ TheDatabase' = [TheDatabase EXCEPT !.data = @ \cup {w}]
        BY <3>4, <3>5, <3>7, <4>2, LogicalExcept DEF Recording
      <4>4. QED
        BY <3>1, <3>4, <4>3, AbstractCommit
    <3>8. QED
      BY <3>2, <3>6, <3>7
  <2>8. ASSUME NEW w \in Write, Change(p, w) PROVE [SL!Next]_(SL!vars)
    <3>1. TheSaved' = TheSaved
      BY <2>8, OthersSame, CopiesSame DEF Change, TheSaved, WholeBackups
    <3>2. Opened \in File /\ Opened.state = "sound"
      BY <2>8, OpenedTyped DEF Change
    <3>3. file'.state = "torn" /\ journal' = Opened
      BY <2>8, <3>2 DEF Change, File
    <3>4. Opened # Empty /\ Recovered = Opened
      BY <3>2, Constants DEF Opened
    <3>5. (journal = Absent /\ Opened = file) \/ (file.state = "torn" /\ Opened = journal)
      BY <3>2, <3>4, Constants DEF Recovered, Content
    <3>6. UNCHANGED <<TheDatabase, TheStray>>
      BY <3>2, <3>3, <3>5 DEF TheDatabase, TheStray
    <3>7. QED
      BY <3>1, <3>6, AbstractSteps
  <2>9. CASE Crash(p)
    <3>1. pc'[p] = "stopped" /\ \A q \in Process \ {p} : pc'[q] = pc[q] /\ draft'[q] = draft[q]
      BY <2>9, OthersSame DEF Crash
    <3>2. Copies' \subseteq Copies
      BY <3>1 DEF Copies
    <3>3. UNCHANGED <<file, journal, backups>>
      BY <2>9 DEF Crash
    <3>4. QED
      BY <3>2, <3>3, AbstractSteps DEF TheDatabase, TheSaved, WholeBackups, TheStray
  <2>10. CASE CopyBegin(p)
    <3>1. WholeBackups' = WholeBackups /\ Recover /\ pc[p] = "stopped"
      BY <2>10 DEF CopyBegin, WholeBackups
    <3>2. CASE Opened.state = "spoiled"
      <4>1. UNCHANGED <<pc, draft>>
        BY <2>10, <3>2 DEF CopyBegin
      <4>2. TheSaved' = TheSaved
        BY <3>1, <4>1 DEF TheSaved, Copies
      <4>3. QED
        BY <3>1, <4>2, RecoverMaps, AbstractSteps
    <3>3. CASE Opened.state # "spoiled"
      <4>1. /\ pc'[p] = "copied" /\ draft'[p] = Opened
            /\ \A q \in Process \ {p} : pc'[q] = pc[q] /\ draft'[q] = draft[q]
        BY <2>10, <3>3, GoneTo, KeptFor DEF CopyBegin
      <4>2. Copies' = Copies \cup {Logical(Opened)}
        <5>1. {q \in Process : pc'[q] = "copied"} = {q \in Process : pc[q] = "copied"} \cup {p}
          BY <4>1
        <5>2. \A q \in Process : pc[q] = "copied" => draft'[q] = draft[q]
          BY <3>1, <4>1
        <5>3. QED
          BY <4>1, <5>1, <5>2 DEF Copies
      <4>3. Logical(Opened) # Logical(Spoiled) /\ Logical(Opened).sound
        BY <3>3, Constants DEF Logical
      <4>4. TheDatabase = Logical(Opened) /\ TheDatabase' = TheDatabase /\ ~TheStray'
        BY <3>1, <4>3, RecoverMaps
      <4>5. TheSaved' = TheSaved \cup {TheDatabase}
        BY <3>1, <4>2, <4>4 DEF TheSaved
      <4>6. QED
        BY <4>3, <4>4, <4>5, AbstractSteps
    <3>4. QED
      BY <3>2, <3>3
  <2>11. CASE CopyEnd(p)
    <3>1. pc[p] = "copied" /\ pc'[p] = "stopped"
          /\ \A q \in Process \ {p} : pc'[q] = pc[q] /\ draft'[q] = draft[q]
      BY <2>11, OthersSame DEF CopyEnd
    <3>2. backups' = backups \cup {Manual(draft[p])}
      BY <2>11 DEF CopyEnd
    <3>3. WholeBackups' = WholeBackups \cup {Logical(draft[p])}
      <4>1. Manual(draft[p]).whole /\ Manual(draft[p]).file = draft[p]
        BY DEF Manual
      <4>2. {b \in backups' : b.whole} = {b \in backups : b.whole} \cup {Manual(draft[p])}
        BY <3>2, <4>1
      <4>3. QED
        BY <4>1, <4>2 DEF WholeBackups
    <3>4. Copies = Copies' \cup {Logical(draft[p])}
      <4>1. {q \in Process : pc[q] = "copied"} = {q \in Process : pc'[q] = "copied"} \cup {p}
        BY <3>1
      <4>2. \A q \in Process : pc'[q] = "copied" => draft'[q] = draft[q]
        BY <3>1
      <4>3. QED
        BY <4>1, <4>2 DEF Copies
    <3>5. UNCHANGED <<TheDatabase, TheSaved, TheStray>>
      BY <2>11, <3>3, <3>4 DEF CopyEnd, TheDatabase, TheSaved, TheStray
    <3>6. QED
      BY <3>5, AbstractSteps
  <2>12. CASE RestoreEnd(p)
    <3>1. TheSaved' = TheSaved
      BY <2>12, OthersSame, CopiesSame DEF RestoreEnd, TheSaved, WholeBackups
    <3>2. PICK b \in backups : b.whole /\ b.file = draft[p] /\ b.file.schema # 0
      BY <2>12 DEF RestoreEnd, DraftsFollow, Follows
    <3>3. file.state # "torn" /\ Settled(draft[p]) /\ file' = draft[p] /\ journal' = journal
      BY <2>12 DEF RestoreEnd, DraftsFollow, Follows, FilesSettled
    <3>4. TheDatabase' = Logical(draft[p]) /\ TheStray' = TheStray
      BY <3>3 DEF TheDatabase, TheStray, Settled
    <3>5. TheDatabase' \in TheSaved /\ TheDatabase'.schema # 0
      BY <3>2, <3>4 DEF TheSaved, WholeBackups, Logical
    <3>6. QED
      BY <3>1, <3>4, <3>5, AbstractSteps
  <2>13. ASSUME NEW backup \in backups, RestoreBegin(p, backup) PROVE [SL!Next]_(SL!vars)
    <3>1. \/ UNCHANGED <<pc, draft>>
          \/ Keep(p, backup.file) /\ Goto(p, "restoring")
      BY <2>13 DEF RestoreBegin
    <3>2. Copies' = Copies
      <4>1. CASE UNCHANGED <<pc, draft>>
        BY <4>1 DEF Copies
      <4>2. CASE Keep(p, backup.file) /\ Goto(p, "restoring")
        BY <2>13, <4>2, OthersSame, CopiesSame DEF RestoreBegin
      <4>3. QED
        BY <3>1, <4>1, <4>2
    <3>3. CASE file.state = "absent"
      <4>1. UNCHANGED <<file, journal, backups>>
        BY <2>13, <3>3 DEF RestoreBegin
      <4>2. QED
        BY <3>2, <4>1, AbstractSteps DEF TheDatabase, TheSaved, WholeBackups, TheStray
    <3>4. CASE file.state # "absent"
      <4>1. Recover /\ backups' = backups \cup {Manual(c) : c \in Healthy(Opened)}
        BY <2>13, <3>4 DEF RestoreBegin
      <4>2. CASE Opened = Spoiled
        <5>1. backups' = backups
          BY <4>1, <4>2 DEF Healthy, Spoiled
        <5>2. TheSaved' = TheSaved
          BY <3>2, <5>1 DEF TheSaved, WholeBackups
        <5>3. QED
          BY <4>1, <5>2, RecoverMaps, AbstractSteps
      <4>3. CASE Opened # Spoiled
        <5>1. backups' = backups \cup {Manual(Opened)} /\ Manual(Opened).whole
              /\ Manual(Opened).file = Opened
          BY <4>1, <4>3 DEF Healthy, Spoiled, Manual
        <5>2. {b \in backups' : b.whole} = {b \in backups : b.whole} \cup {Manual(Opened)}
          BY <5>1
        <5>3. WholeBackups' = WholeBackups \cup {Logical(Opened)}
          BY <5>1, <5>2 DEF WholeBackups
        <5>4. Opened.state # "spoiled"
          BY <4>3, OpenedSettled DEF Settled
        <5>5. Logical(Opened) # Logical(Spoiled) /\ Logical(Opened).sound
          BY <5>4, Constants DEF Logical
        <5>6. TheDatabase = Logical(Opened) /\ TheDatabase' = TheDatabase /\ ~TheStray'
          BY <4>1, <5>5, RecoverMaps
        <5>7. TheSaved' = TheSaved \cup {TheDatabase}
          BY <3>2, <5>3, <5>6 DEF TheSaved
        <5>8. QED
          BY <5>5, <5>6, <5>7, AbstractSteps
      <4>4. QED
        BY <4>2, <4>3
    <3>5. QED
      BY <3>3, <3>4
  <2>14. QED
    BY <1>3, <2>1, <2>2, <2>3, <2>4, <2>5, <2>6, <2>7, <2>8, <2>9, <2>10, <2>11, <2>12, <2>13
       DEF Opening, Maintain
<1>4. QED
  BY <1>1, <1>2, <1>3 DEF Next

LEMMA SchemaLifeInit == Init => SL!Init
<1> SUFFICES ASSUME Init PROVE SL!Init
  OBVIOUS
<1>1. /\ file = Absent /\ journal = Absent /\ file.state = "absent" /\ backups = {}
      /\ \A p \in Process : pc[p] # "copied"
  BY Constants DEF Init
<1>2. Logical(Absent) = SL!NoDatabase
  <2>1. Logical(Absent) = [schema |-> 0, data |-> {}, sound |-> "absent" # "spoiled"]
    BY DEF Logical, Absent, Content
  <2>2. ("absent" # "spoiled") = TRUE
    OBVIOUS
  <2>3. QED
    BY <2>1, <2>2 DEF SL!NoDatabase
<1>3. TheDatabase = SL!NoDatabase /\ TheSaved = {} /\ TheStray = FALSE
  BY <1>1, <1>2 DEF TheDatabase, TheSaved, WholeBackups, Copies, TheStray
<1>4. QED
  BY <1>3 DEF SL!Init, TheDatabase, TheSaved, WholeBackups, Copies, TheStray

\* Whatever processes of several releases open, migrate, write, back up and
\* restore, and wherever they die, the database lives the life that
\* database-upgrades.md promises: migrations arrive as the whole set of a
\* release with the data untouched, and only what a backup saved comes back.
THEOREM SchemaLifeImplemented == ASSUME UpgradeAssumption PROVE Spec => ImplementsSchemaLife
<1>1. Init => DraftsFollow /\ SL!Init
  BY FollowInit, SchemaLifeInit
<1>2. IInv /\ DraftsFollow /\ [Next]_vars => DraftsFollow' /\ [SL!Next]_(SL!vars)
  BY StepFollows, SchemaLifeStep DEF IInv
<1>3. QED
  BY <1>1, <1>2, Invariance, PTL DEF Spec, ImplementsSchemaLife, SL!Spec
=============================================================================
