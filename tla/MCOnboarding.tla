---------------------------- MODULE MCOnboarding ----------------------------
(***************************************************************************)
(* Two runs (three symbols are there for a larger instance) for two        *)
(* projects that share a registration, as with Codex.  The runs that are   *)
(* for one project are what Claude Code allows.                            *)
(***************************************************************************)
EXTENDS Onboarding, TLC

CONSTANTS r1, r2, r3, p1, p2, codex

Shared == [p \in Project |-> codex]

Symmetry == Permutations(Run) \cup Permutations(Project)
=============================================================================
