------------------------------- MODULE Upgrade -------------------------------
(***************************************************************************)
(* Opening, upgrading, backing up and restoring one database file by       *)
(* processes of several releases that may die at any point (store.py       *)
(* 44-162 and 711-751, maintenance.py).                                    *)
(*                                                                         *)
(* The file is modelled with SQLite's rollback journal, from how the code  *)
(* uses it: a transaction is written back over the file while the journal  *)
(* keeps what was there; whoever finds a journal that nobody is writing    *)
(* under rolls it back first, except beside an empty file, where it is     *)
(* deleted.  Copies are taken by sqlite3's backup, under a read lock.      *)
(***************************************************************************)
EXTENDS Naturals, FiniteSets

CONSTANTS
  Process,    \* hosts, command lines
  ReleaseOf,  \* the last migration a process brings, of 1, 2, ...
  Write,      \* what hosts write into the tables
  MaxManual,  \* bound: manual and safety backups
  Nobody

ASSUME UpgradeAssumption ==
  /\ Process # {} /\ Nobody \notin Process
  /\ ReleaseOf \in [Process -> Nat \ {0}]
  /\ MaxManual \in Nat

VARIABLES
  file,       \* the database file
  journal,    \* the journal beside it, which holds what to roll back to
  backups,    \* files in <database>.backups and elsewhere
  holder,     \* who has BEGIN IMMEDIATE
  pc,         \* where a process is
  existed,    \* _database_existed
  draft       \* what its transaction, or its temporary file, holds

vars == <<file, journal, backups, holder, pc, existed, draft>>

Releases == {ReleaseOf[p] : p \in Process}

\* schema n: migrations 1 .. n are in schema_migrations
File == [state : {"absent", "empty", "sound", "torn", "spoiled"}, schema : Nat, data : SUBSET Write]
Backup == [label : {"pre-migration", "manual"}, whole : BOOLEAN, file : File]
Content(state, schema, data) == [state |-> state, schema |-> schema, data |-> data]
Absent == Content("absent", 0, {})
Empty == Content("empty", 0, {})

TypeOK ==
  /\ file \in File /\ journal \in File
  /\ backups \subseteq Backup
  /\ holder \in Process \cup {Nobody}
  /\ pc \in [Process -> {"stopped", "opening", "locked", "copying", "applying", "commit",
                         "ready", "copied", "restoring"}]
  /\ existed \in [Process -> BOOLEAN]
  /\ draft \in [Process -> File]

Init ==
  /\ file = Absent /\ journal = Absent /\ backups = {}
  /\ holder = Nobody
  /\ pc = [p \in Process |-> "stopped"]
  /\ existed = [p \in Process |-> FALSE]
  /\ draft = [p \in Process |-> Absent]

Goto(p, label) == pc' = [pc EXCEPT ![p] = label]
Keep(p, content) == draft' = [draft EXCEPT ![p] = content]

---------------------------------------------------------------------------
(* SQLite *)

\* what a connection finds once a hot journal has been dealt with: pages of
\* another file's journal spoil a file it is rolled back into
Recovered ==
  CASE journal = Absent -> file
    [] journal # Absent /\ file.state \in {"absent", "empty"} -> file
    [] journal # Absent /\ file.state = "torn" -> journal
    [] OTHER -> Content("spoiled", 0, {})

\* connect() and a first read or write create a file that is not there
Opened == IF Recovered = Absent THEN Empty ELSE Recovered

Recover == file' = Opened /\ journal' = Absent

\* nobody is writing the pages of a transaction back
Accessible == \A p \in Process : pc[p] # "commit"

---------------------------------------------------------------------------
(* MemoryStore.__init__ and migrate() *)

\* database-upgrades.md 46: every host is stopped before a restore
HostsStopped(p) == \A q \in Process \ {p} : pc[q] = "stopped"
NoRestore == \A p \in Process : pc[p] # "restoring"

\* _database_file_exists, before any lock
Open(p) ==
  /\ pc[p] = "stopped" /\ NoRestore
  /\ Goto(p, "opening")
  /\ existed' = [existed EXCEPT ![p] = file.state \notin {"absent", "empty"}]
  /\ UNCHANGED <<file, journal, backups, holder, draft>>

\* _validate_migration_history: a history with versions of another release
Unsupported(content, release) == content.schema > release

\* The defect of backing up only when several migrations are pending
BackupOfSeveral(p, content) == existed[p] /\ content.schema + 1 < ReleaseOf[p]
BackupNeeded(p, content) == existed[p] /\ content.schema < ReleaseOf[p]

\* BEGIN IMMEDIATE, and what migrate() finds under the lock
Lock(p) ==
  /\ pc[p] = "opening"
  /\ holder = Nobody
  /\ Recover
  /\ LET found == Opened
     IN  IF found.state = "spoiled" \/ Unsupported(found, ReleaseOf[p])
         THEN Goto(p, "stopped") /\ UNCHANGED <<holder, draft>>
         ELSE IF found.schema = ReleaseOf[p]
         THEN Goto(p, "ready") /\ UNCHANGED <<holder, draft>>
         ELSE /\ holder' = p
              /\ Keep(p, found)
              /\ Goto(p, IF BackupNeeded(p, found) THEN "locked" ELSE "applying")
  /\ UNCHANGED <<backups, existed>>

Complete == [label |-> "pre-migration", whole |-> TRUE, file |-> file]
Partial == [label |-> "pre-migration", whole |-> FALSE, file |-> Absent]

\* _backup_database writes under the final name
BackupBegin(p) ==
  /\ pc[p] = "locked"
  /\ Goto(p, "copying")
  /\ backups' = backups \cup {Partial}
  /\ UNCHANGED <<file, journal, holder, existed, draft>>

BackupEnd(p) ==
  /\ pc[p] = "copying"
  /\ Goto(p, "applying")
  /\ backups' \in {backups \cup {Complete},              \* one that a crash left stays
                   (backups \ {Partial}) \cup {Complete}}
  /\ UNCHANGED <<file, journal, holder, existed, draft>>

\* The defect of committing after each migration
AppliedAlone(p) == TRUE
AllApplied(p) == draft[p].schema = ReleaseOf[p]

\* the next script and its row in schema_migrations
Apply(p) ==
  /\ pc[p] = "applying"
  /\ draft[p].schema < ReleaseOf[p]
  /\ Keep(p, Content("sound", draft[p].schema + 1, draft[p].data))
  /\ UNCHANGED <<file, journal, backups, holder, pc, existed>>

\* commit(): the journal is complete and pages are being written; deleting
\* the journal makes the transaction durable
CommitBegin(p) ==
  /\ pc[p] = "applying" /\ draft[p] # file
  /\ AllApplied(p)
  /\ Goto(p, "commit")
  /\ journal' = file
  /\ file' = [file EXCEPT !.state = "torn"]
  /\ UNCHANGED <<backups, holder, existed, draft>>

CommitEnd(p) ==
  /\ pc[p] = "commit"
  /\ Goto(p, "ready")
  /\ file' = draft[p]
  /\ journal' = Absent
  /\ holder' = Nobody
  /\ Keep(p, Absent)
  /\ UNCHANGED <<backups, existed>>

\* The defect of raising without rolling back
StillHeld(p) == holder
RolledBack(p) == Nobody

\* a statement of a migration fails, or the copy does: the error names the
\* backup that was made
MigrationFails(p) ==
  /\ pc[p] \in {"copying", "applying"}
  /\ Goto(p, "stopped")
  /\ holder' = RolledBack(p)
  /\ Keep(p, Absent)
  /\ UNCHANGED <<file, journal, backups, existed>>

\* a host changes memory through a store it has opened
Change(p, w) ==
  /\ pc[p] = "ready"
  /\ holder = Nobody
  /\ Opened.state = "sound" /\ w \notin Opened.data
  /\ file' = [Opened EXCEPT !.state = "torn"]
  /\ journal' = Opened
  /\ holder' = p
  /\ Goto(p, "commit")
  /\ Keep(p, [Opened EXCEPT !.data = @ \cup {w}])
  /\ UNCHANGED <<backups, existed>>

\* close(), at the end of a call or with its process
Close(p) ==
  /\ pc[p] = "ready"
  /\ Goto(p, "stopped")
  /\ UNCHANGED <<file, journal, backups, holder, existed, draft>>

\* The process dies: its lock is gone, its transaction is not
Crash(p) ==
  /\ pc[p] # "stopped"
  /\ Goto(p, "stopped")
  /\ holder' = IF holder = p THEN Nobody ELSE holder
  /\ Keep(p, Absent)
  /\ UNCHANGED <<file, journal, backups, existed>>

---------------------------------------------------------------------------
(* maintenance.py *)

\* _require_healthy_database, of a copy of content
Healthy(content) == {content} \ {Content("spoiled", 0, {})}

Manual(content) == [label |-> "manual", whole |-> TRUE, file |-> content]

\* Bound: copies of the database a user asks for
RoomFor(content) ==
  Cardinality({b \in backups : b.label = "manual"} \cup {Manual(content)}) <= MaxManual

\* backup_database copies into a temporary file ...
CopyBegin(p) ==
  /\ pc[p] = "stopped" /\ NoRestore
  /\ file.state # "absent" /\ Accessible /\ RoomFor(Opened)
  /\ Recover
  /\ IF Opened.state = "spoiled" THEN UNCHANGED <<pc, draft>>
     ELSE Keep(p, Opened) /\ Goto(p, "copied")
  /\ UNCHANGED <<backups, holder, existed>>

\* ... checks it, and renames it
CopyEnd(p) ==
  /\ pc[p] = "copied"
  /\ backups' = backups \cup {Manual(draft[p])}
  /\ Keep(p, Absent)
  /\ Goto(p, "stopped")
  /\ UNCHANGED <<file, journal, holder, existed>>

\* _require_compatible_database
Restorable(p, backup) ==
  /\ backup.whole
  /\ backup.file.schema # 0
  /\ ~Unsupported(backup.file, ReleaseOf[p])

\* restore_database, with every host stopped as its users are told: the safety
\* backup of a database that is there, which must be healthy ...
RestoreBegin(p, backup) ==
  /\ pc[p] = "stopped" /\ HostsStopped(p)
  /\ Restorable(p, backup) /\ RoomFor(Opened)
  /\ IF file.state = "absent"
     THEN UNCHANGED <<file, journal, backups>>
     ELSE /\ Recover
          /\ backups' = backups \cup {Manual(c) : c \in Healthy(Opened)}
  /\ IF file.state # "absent" /\ Opened.state = "spoiled" THEN UNCHANGED <<pc, draft>>
     ELSE Keep(p, backup.file) /\ Goto(p, "restoring")
  /\ UNCHANGED <<holder, existed>>

\* ... and the rename of the copy; then MemoryStore opens the file
RestoreEnd(p) ==
  /\ pc[p] = "restoring"
  /\ file' = draft[p]
  /\ existed' = [existed EXCEPT ![p] = TRUE]
  /\ Goto(p, "opening")
  /\ Keep(p, Absent)
  /\ UNCHANGED <<journal, backups, holder>>

\* the user moves the file away, with its journal or without
MoveAway ==
  /\ \A p \in Process : pc[p] = "stopped"
  /\ file.state # "absent"
  /\ file' = Absent
  /\ journal' \in {journal, Absent}
  /\ UNCHANGED <<backups, holder, pc, existed, draft>>

\* The defect of looking only at the number of migrations
CompatibleByCount(content, release) == content.schema <= release + 1
Compatible(content, release) == content.schema # 0 /\ content.schema <= release

\* diagnose: read-only, so it cannot roll a journal back
Diagnosis(release) ==
  CASE file.state = "absent" -> "ok"
    [] file.state # "absent" /\ (file.state \in {"torn", "spoiled"} \/ journal # Absent) -> "error"
    [] file.state \in {"empty", "sound"} /\ journal = Absent ->
         IF ~Compatible(file, release) THEN "error"
         ELSE IF file.schema < release THEN "warning" ELSE "ok"

---------------------------------------------------------------------------

Opening(p) ==
  Lock(p) \/ BackupBegin(p) \/ BackupEnd(p) \/ Apply(p) \/ CommitBegin(p) \/ CommitEnd(p)

Maintain(p) ==
  \/ CopyBegin(p) \/ CopyEnd(p) \/ RestoreEnd(p)
  \/ \E backup \in backups : RestoreBegin(p, backup)

Next ==
  \/ \E p \in Process :
       \/ Open(p) \/ Opening(p) \/ MigrationFails(p)
       \/ \E w \in Write : Change(p, w)
       \/ Close(p) \/ Crash(p) \/ Maintain(p)
  \/ MoveAway

Spec == Init /\ [][Next]_vars

\* An opening that was begun is carried on by its thread; BEGIN IMMEDIATE
\* tries again until the lock is free
FairSpec == Spec /\ \A p \in Process : WF_vars(Opening(p)) /\ SF_vars(Lock(p))

---------------------------------------------------------------------------
(* Properties *)

\* database-upgrades.md 31: a consistent backup is made before an existing
\* database is changed.  The exception is a process that looked for the file
\* before another one created it (store.py 44, 71).
UpgradesAreBackedUp ==
  [][\A p \in Process :
       pc[p] = "applying" /\ pc'[p] = "commit" /\ file.schema # 0 =>
         \/ \E b \in backups : b.whole /\ b.file = file
         \/ ~existed[p]]_vars

\* The doctor's verdict is what an opening by the same release will find,
\* although the two judge the history by different code; an error it reports
\* may also be an empty file or a journal that an opening would roll back.
DoctorAgrees ==
  \A p \in Process :
    LET verdict == Diagnosis(ReleaseOf[p])
    IN  /\ verdict # "error" =>
             /\ ~Unsupported(file, ReleaseOf[p])
             /\ verdict = "warning" <=> file.state # "absent" /\ file.schema < ReleaseOf[p]
        /\ verdict = "error" =>
             Unsupported(file, ReleaseOf[p]) \/ file.state # "sound" \/ journal # Absent

\* Whatever opens, migrates, dies, is backed up and restored in between, the
\* database is at each moment the one database-upgrades.md promises.
Logical(content) ==
  [schema |-> content.schema, data |-> content.data, sound |-> content.state # "spoiled"]

SL == INSTANCE SchemaLife WITH
  database <- Logical(IF file.state = "torn" THEN journal ELSE file),
  saved <- {Logical(b.file) : b \in {c \in backups : c.whole}}
             \cup {Logical(draft[p]) : p \in {q \in Process : pc[q] = "copied"}},
  stray <- journal # Absent /\ file.state # "torn"

ImplementsSchemaLife == SL!Spec

\* An opening ends: the store is ready or the process is told why not.
OpeningsEnd ==
  \A p \in Process : pc[p] \in {"opening", "locked", "copying", "applying"} ~>
                       pc[p] \in {"ready", "stopped"}
=============================================================================
