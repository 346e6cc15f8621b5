---------------------------- MODULE ProposalLife ----------------------------
(***************************************************************************)
(* What becomes of a staged proposal, seen from outside ProposalStore: it  *)
(* is open, in the hands of one commit, or settled for good.  A commit     *)
(* that fails gives it back; only an undecided one can expire or be lost.  *)
(***************************************************************************)
CONSTANTS
  Proposal     \* proposal identifiers (uuid4)

VARIABLE life  \* life[p]: see Stage

Stage == {"unborn", "open", "taken", "committed", "discarded", "expired", "lost"}
Settled == {"committed", "discarded", "expired", "lost"}

Init == life = [p \in Proposal |-> "unborn"]

Become(p, from, to) ==
  /\ life[p] = from
  /\ life' = [life EXCEPT ![p] = to]

Take(p) == Become(p, "open", "taken")
Commit(p) == Become(p, "taken", "committed")
GiveBack(p) == Become(p, "taken", "open")
Discard(p) == Become(p, "open", "discarded")

\* found expired by take, or purged by a later create; or the failed commit
\* that held it gives it back too late
Expire(p) == Become(p, "open", "expired") \/ Become(p, "taken", "expired")

\* a server process ends with whatever it had in memory
Exit == \E gone \in SUBSET Proposal :
  life' = [p \in Proposal |->
             IF p \in gone /\ life[p] \in {"open", "taken"} THEN "lost" ELSE life[p]]

\* creating purges every proposal that expired before
Create(p) ==
  /\ life[p] = "unborn"
  /\ \E dead \in SUBSET {q \in Proposal : life[q] = "open"} :
       life' = [q \in Proposal |-> IF q = p THEN "open"
                                   ELSE IF q \in dead THEN "expired" ELSE life[q]]

Next ==
  \/ \E p \in Proposal :
       \/ Create(p) \/ Take(p) \/ Commit(p) \/ GiveBack(p)
       \/ Discard(p) \/ Expire(p)
  \/ Exit

Spec == Init /\ [][Next]_life
=============================================================================
