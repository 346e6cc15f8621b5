--------------------------- MODULE MCMemoryStore ---------------------------
(* Instances of MemoryStore for TLC *)
EXTENDS MemoryStore, TLC

\* Identifiers are uuid4 values and connections are alike: any of them will do
Symmetry == Permutations(Evidence) \cup Permutations(Session)

\* Symmetry is not sound for liveness; instead the evidence of the legacy lineages
\* is named in the initial state.  Any other choice only renames it.
SourceOf ==
  CHOOSE source \in [Legacy -> Evidence] : \A m, n \in Legacy : source[m] = source[n] => m = n

LiveInit == Init /\ \A m \in Legacy : linked[m][1] = {SourceOf[m]}

LiveSpec == LiveInit /\ [][Next]_vars /\ Fairness
=============================================================================
