SPECIFICATION Spec
CONSTANTS
  Memory = {m1}
  Evidence = {e1}
  Session = {s1, s2}
  MaxVersion = 1
  Legacy = {}
INVARIANTS
  DeletionRemovesIndexEntries
