--------------------------- MODULE ProposalStore ---------------------------
(***************************************************************************)
(* The in-memory proposal store of one server process (mcp_proposals.py)   *)
(* and the tool calls that use it from several worker threads.             *)
(*                                                                         *)
(* Every method reads the clock first and takes the lock afterwards, so    *)
(* the time it judges expiry by may be old.  A commit pops its proposal    *)
(* (take), works outside the lock, and pushes it back when it fails        *)
(* (restore); everything else may happen in between.                       *)
(***************************************************************************)
EXTENDS Naturals

CONSTANTS
  Proposal,    \* proposal identifiers (uuid4: every create uses a fresh one)
  Thread,      \* worker threads running tool calls
  Ttl,         \* life time of a proposal, in ticks
  Horizon,     \* bound: the clock stops here
  NoProposal

ASSUME TimeAssumption == Ttl \in Nat \ {0} /\ Horizon \in Nat
ASSUME NoProposalAssumption == NoProposal \notin Proposal

VARIABLES
  clock,       \* datetime.now(UTC), in ticks
  pending,     \* the keys of _proposals
  expires,     \* expires_at of every proposal created, 0 before that
  pc,          \* what a thread is doing
  held,        \* the proposal a thread's call is about
  now,         \* the time a thread's call read before taking the lock
  life         \* what became of each proposal, for the properties only

vars == <<clock, pending, expires, pc, held, now, life>>

PL == INSTANCE ProposalLife

TypeOK ==
  /\ clock \in 0 .. Horizon
  /\ pending \subseteq Proposal
  /\ expires \in [Proposal -> 0 .. Horizon + Ttl]
  /\ pc \in [Thread -> {"idle", "create", "get", "take", "commit", "failed", "restore"}]
  /\ held \in [Thread -> Proposal \cup {NoProposal}]
  /\ now \in [Thread -> 0 .. Horizon]
  /\ life \in [Proposal -> PL!Stage]

Init ==
  /\ clock = 0
  /\ pending = {}
  /\ expires = [p \in Proposal |-> 0]
  /\ pc = [t \in Thread |-> "idle"]
  /\ held = [t \in Thread |-> NoProposal]
  /\ now = [t \in Thread |-> 0]
  /\ PL!Init

Tick ==
  /\ clock < Horizon
  /\ clock' = clock + 1
  /\ UNCHANGED <<pending, expires, pc, held, now, life>>

\* a method starts: now = self._now()
Begin(t, from, to, p) ==
  /\ pc[t] = from
  /\ pc' = [pc EXCEPT ![t] = to]
  /\ held' = [held EXCEPT ![t] = p]
  /\ now' = [now EXCEPT ![t] = clock]
  /\ UNCHANGED <<clock, pending, expires, life>>

\* a call returns, or raises, and its thread is free again
End(t) ==
  /\ pc' = [pc EXCEPT ![t] = "idle"]
  /\ held' = [held EXCEPT ![t] = NoProposal]
  /\ now' = [now EXCEPT ![t] = 0]

BeginCreate(t) == Begin(t, "idle", "create", NoProposal)
BeginGet(t, p) == expires[p] # 0 /\ Begin(t, "idle", "get", p)
BeginTake(t, p) == expires[p] # 0 /\ Begin(t, "idle", "take", p)

\* Expired by the time the call read.  ExpiredEarly is an off-by-one there.
ExpiredEarly(t, p) == expires[p] <= now[t] + 1
Expired(t, p) == expires[p] <= now[t]

\* expires_at = now + self._ttl
ExpiresAt(t) == now[t] + Ttl

\* with self._lock: purge, insert
Create(t, p) ==
  /\ pc[t] = "create"
  /\ expires[p] = 0
  /\ expires' = [expires EXCEPT ![p] = ExpiresAt(t)]
  /\ LET dead == {q \in pending : Expired(t, q)}
     IN  /\ pending' = (pending \ dead) \cup {p}
         /\ life' = [q \in Proposal |-> IF q = p THEN "open"
                                        ELSE IF q \in dead THEN "expired" ELSE life[q]]
  /\ End(t)
  /\ UNCHANGED clock

Dies(p) ==
  /\ pending' = pending \ {p}
  /\ life' = [life EXCEPT ![p] = "expired"]

\* with self._lock in get: an expired proposal goes, any other is copied
GetReturns(t) ==
  /\ pc[t] = "get"
  /\ held[t] \notin pending \/ ~Expired(t, held[t])
  /\ End(t)
  /\ UNCHANGED <<clock, pending, expires, life>>

GetExpired(t) ==
  /\ pc[t] = "get"
  /\ held[t] \in pending
  /\ Expired(t, held[t])
  /\ Dies(held[t])
  /\ End(t)
  /\ UNCHANGED <<clock, expires>>

\* take's pop; TakenCopy is the defect of reading without removing
TakenCopy(p) == pending
Taken(p) == pending \ {p}

TakeMissing(t) ==
  /\ pc[t] = "take"
  /\ held[t] \notin pending
  /\ End(t)
  /\ UNCHANGED <<clock, pending, expires, life>>

\* the proposal is popped first and found expired afterwards
TakeExpired(t) ==
  /\ pc[t] = "take"
  /\ held[t] \in pending
  /\ Expired(t, held[t])
  /\ Dies(held[t])
  /\ End(t)
  /\ UNCHANGED <<clock, expires>>

Take(t) ==
  /\ pc[t] = "take"
  /\ held[t] \in pending
  /\ ~Expired(t, held[t])
  /\ pending' = Taken(held[t])
  /\ life' = [life EXCEPT ![held[t]] = "taken"]
  /\ pc' = [pc EXCEPT ![t] = "commit"]
  /\ UNCHANGED <<clock, expires, held, now>>

\* the body of commit_change, outside the lock: durable, or an exception
CommitDone(t) ==
  /\ pc[t] = "commit"
  /\ life' = [life EXCEPT ![held[t]] = "committed"]
  /\ End(t)
  /\ UNCHANGED <<clock, pending, expires>>

\* the except clause; CommitFailsUnhandled is the defect of not having one
CommitFailsUnhandled(t) ==
  /\ pc[t] = "commit"
  /\ End(t)
  /\ UNCHANGED <<clock, pending, expires, life>>

CommitFails(t) ==
  /\ pc[t] = "commit"
  /\ pc' = [pc EXCEPT ![t] = "failed"]
  /\ UNCHANGED <<clock, pending, expires, held, now, life>>

BeginRestore(t) ==
  /\ pc[t] = "failed"
  /\ expires[held[t]] > clock
  /\ Begin(t, "failed", "restore", held[t])

RestoreTooLate(t) ==
  /\ pc[t] = "failed"
  /\ expires[held[t]] <= clock
  /\ life' = [life EXCEPT ![held[t]] = "expired"]
  /\ End(t)
  /\ UNCHANGED <<clock, pending, expires>>

\* with self._lock: insert unless present.  RestoredNowhere is the defect of
\* forgetting the insertion.
RestoredNowhere(p) == pending
Restored(p) == pending \cup {p}

Restore(t) ==
  /\ pc[t] = "restore"
  /\ pending' = Restored(held[t])
  /\ life' = [life EXCEPT ![held[t]] = "open"]
  /\ End(t)
  /\ UNCHANGED <<clock, expires>>

\* discard reads no clock: one locked pop
Discard(t, p) ==
  /\ pc[t] = "idle"
  /\ p \in pending
  /\ pending' = Taken(p)
  /\ life' = [life EXCEPT ![p] = "discarded"]
  /\ UNCHANGED <<clock, expires, pc, held, now>>

\* the host ends the server: nothing of a proposal is durable
Exit ==
  /\ pending' = {}
  /\ pc' = [t \in Thread |-> "idle"]
  /\ held' = [t \in Thread |-> NoProposal]
  /\ now' = [t \in Thread |-> 0]
  /\ life' = [p \in Proposal |->
                IF life[p] \in {"open", "taken"} THEN "lost" ELSE life[p]]
  /\ UNCHANGED <<clock, expires>>

Call(t) ==
  \/ \E p \in Proposal : Create(t, p)
  \/ GetReturns(t) \/ GetExpired(t)
  \/ TakeMissing(t) \/ TakeExpired(t) \/ Take(t)
  \/ CommitDone(t) \/ CommitFails(t)
  \/ BeginRestore(t) \/ RestoreTooLate(t) \/ Restore(t)

Next ==
  \/ Tick
  \/ \E t \in Thread :
       \/ BeginCreate(t)
       \/ \E p \in Proposal : BeginGet(t, p) \/ BeginTake(t, p) \/ Discard(t, p)
       \/ Call(t)
  \/ Exit

Spec == Init /\ [][Next]_vars

\* A call that has begun is given processor time until it returns
FairSpec == Spec /\ \A t \in Thread : WF_vars(Call(t))

---------------------------------------------------------------------------
(* Properties *)

Holding(t) == pc[t] \in {"commit", "failed", "restore"}

\* Whatever the interleaving of take, restore, discard and the purge, a
\* proposal is in the hands of at most one call, and while it is no other call
\* can find it: no approval is carried out twice (take, restore).
SingleHolder ==
  \A t \in Thread : Holding(t) =>
    /\ held[t] \notin pending
    /\ \A u \in Thread \ {t} : Holding(u) => held[u] # held[t]

\* No proposal is forgotten while it is undecided: an open one can still be
\* found under its key, a taken one is held by a call that will settle it or
\* give it back (the except clause of commit_change and restore).
NothingForgotten ==
  \A p \in Proposal :
    /\ life[p] = "open" <=> p \in pending
    /\ life[p] = "taken" <=> \E t \in Thread : Holding(t) /\ held[t] = p

\* A proposal is reported expired only after its time is over, although calls
\* judge by a clock reading taken before they got the lock, and one call's
\* purge removes the proposals of the others (create, get, take, restore).
ExpiryIsReal ==
  \A p \in Proposal : life[p] = "expired" => expires[p] # 0 /\ expires[p] <= clock

\* What makes these inductive: a call about a proposal knows which, clock
\* readings are never ahead of the clock, and a proposal that was created, and
\* only such a one, has an expiry.
CallsAreNamed ==
  \A t \in Thread : pc[t] \notin {"idle", "create"} => held[t] \in Proposal

ClockReadingsArePast == \A t \in Thread : now[t] <= clock

BornWithExpiry == \A p \in Proposal : life[p] = "unborn" <=> expires[p] = 0

IInv ==
  /\ TypeOK
  /\ CallsAreNamed
  /\ ClockReadingsArePast
  /\ BornWithExpiry
  /\ SingleHolder
  /\ NothingForgotten
  /\ ExpiryIsReal

\* Every step is a step of the abstract life of proposals or none: a settled
\* one stays settled, and only its holder can commit it or give it back.
ImplementsProposalLife == PL!Spec

\* A commit does not leave its proposal undecided for ever: it is settled or
\* open again (commit_change's try, except and restore).
TakenIsDecided ==
  \A p \in Proposal : life[p] = "taken" ~> life[p] # "taken"
=============================================================================
