----------------------------- MODULE SchemaLife -----------------------------
(***************************************************************************)
(* What a database goes through as its users see it                        *)
(* (design/database-upgrades.md): it gains migrations only as the whole    *)
(* set of a release, never loses data but by a restore, which brings back  *)
(* exactly what some backup saved, and is spoiled only where a journal of  *)
(* another file was left beside it.                                        *)
(***************************************************************************)
EXTENDS Naturals

CONSTANTS
  Releases,   \* each named by the last migration it brings
  Write       \* what hosts write into the tables

VARIABLES
  database,   \* the schema and data a connection would find
  saved,      \* what the complete backup files hold, or will once renamed
  stray       \* a journal of another file lies beside it

vars == <<database, saved, stray>>

Database == [schema : {0} \cup Releases, data : SUBSET Write, sound : BOOLEAN]
NoDatabase == [schema |-> 0, data |-> {}, sound |-> TRUE]

Init == database = NoDatabase /\ saved = {} /\ stray = FALSE

\* Creation or upgrade: the whole set of migrations at once, data untouched
Upgrade ==
  /\ \E r \in Releases : database.schema < r /\ database' = [database EXCEPT !.schema = r]
  /\ stray' \in {stray, FALSE}
  /\ UNCHANGED saved

Record ==
  /\ database.schema # 0
  /\ \E w \in Write : database' = [database EXCEPT !.data = @ \cup {w}]
  /\ UNCHANGED <<saved, stray>>

Save ==
  /\ database.sound
  /\ saved' = saved \cup {database}
  /\ stray' \in {stray, FALSE}
  /\ UNCHANGED database

\* a copy is given up, or a backup deleted
Discard ==
  /\ saved' \in SUBSET saved
  /\ UNCHANGED <<database, stray>>

Restore ==
  /\ database' \in saved /\ database'.schema # 0
  /\ UNCHANGED <<saved, stray>>

\* the user moves the file away, with its journal or without it
Remove ==
  /\ database' = NoDatabase
  /\ stray' \in BOOLEAN
  /\ UNCHANGED saved

Spoil ==
  /\ stray /\ stray' = FALSE
  /\ database' = [NoDatabase EXCEPT !.sound = FALSE]
  /\ UNCHANGED saved

Clear == stray' = FALSE /\ UNCHANGED <<database, saved>>

Next == Upgrade \/ Record \/ Save \/ Discard \/ Restore \/ Remove \/ Spoil \/ Clear

Spec == Init /\ [][Next]_vars
=============================================================================
