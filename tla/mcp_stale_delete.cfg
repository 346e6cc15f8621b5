SPECIFICATION Spec
CONSTANTS
  s1 = s1
  s2 = s2
  k1 = k1
  k2 = k1
  Session = {s1, s2}
  Server = {k1}
  ServerOf <- ServerOfSession
  Visible <- AllVisible
  Memory = {m1}
  Evidence = {e1, e2}
  MaxVersion = 2
  Legacy = {m1}
  Proposal = {p1, p2}
  NoProposal = NoProposal
  NoMemory = NoMemory
SYMMETRY Symmetry
INVARIANTS
  NothingUnseenIsDeleted
