----------------------------- MODULE Lifecycle -----------------------------
(***************************************************************************)
(* What the store promises about one memory lineage, whatever connections, *)
(* processes and failures do underneath (design/memory-model.md, "State    *)
(* Rules"): a lineage starts with version one, grows by one version at a   *)
(* time, may go out of use and come back by a correction, and once erased  *)
(* is erased for good.  Lineages are independent: a step touches one.      *)
(***************************************************************************)
EXTENDS Naturals

CONSTANTS
  Memory,      \* the lineage identifiers
  MaxVersion,  \* bound: the newest version a lineage may reach
  Legacy       \* lineages that exist before the first step

VARIABLES
  newest,      \* newest[m]: the highest version stored for m, 0 when absent
  phase        \* phase[m]: what may be done with the lineage

vars == <<newest, phase>>

Phase == {"absent", "active", "inactive", "erased"}

TypeOK ==
  /\ newest \in [Memory -> 0 .. MaxVersion]
  /\ phase \in [Memory -> Phase]

Init ==
  /\ newest = [m \in Memory |-> IF m \in Legacy THEN 1 ELSE 0]
  /\ phase = [m \in Memory |-> IF m \in Legacy THEN "active" ELSE "absent"]

Approve(m) ==
  /\ phase[m] = "absent"
  /\ newest' = [newest EXCEPT ![m] = 1]
  /\ phase' = [phase EXCEPT ![m] = "active"]

\* A correction whose reader saw version n active commits version n + 1 even
\* when the lineage was taken out of use in between.
Correct(m) ==
  /\ phase[m] \in {"active", "inactive"}
  /\ newest[m] < MaxVersion
  /\ newest' = [newest EXCEPT ![m] = @ + 1]
  /\ phase' = [phase EXCEPT ![m] = "active"]

Supersede(m) ==
  /\ phase[m] = "active"
  /\ phase' = [phase EXCEPT ![m] = "inactive"]
  /\ UNCHANGED newest

Delete(m) ==
  /\ phase[m] \in {"active", "inactive"}
  /\ phase' = [phase EXCEPT ![m] = "erased"]
  /\ UNCHANGED newest

Next == \E m \in Memory : Approve(m) \/ Correct(m) \/ Supersede(m) \/ Delete(m)

Spec == Init /\ [][Next]_vars
=============================================================================
