----------------------------- MODULE MCUpgrade -----------------------------
(***************************************************************************)
(* A process of a release with two migrations and one of a release with     *)
(* three, each of which opens, changes, backs up and restores one file.    *)
(***************************************************************************)
EXTENDS Upgrade, TLC

CONSTANTS old, new

Installed == old :> 2 @@ new :> 3
=============================================================================
