SPECIFICATION Spec
CONSTANTS
  Memory = {m1, m2}
  Evidence = {e1, e2, e3}
  Session = {s1, s2}
  MaxVersion = 3
  Legacy = {m1}
SYMMETRY Symmetry
INVARIANTS
  TypeOK
  LineageShape
  DeletionIsTotal
  ErasureStaysInLineage
  HistoryMatchesRows
  IndexRowsInForce
PROPERTIES
  HistoryIsImmutable
  OnlyBackfillReindexes
  ImplementsLifecycle
