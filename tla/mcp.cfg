SPECIFICATION Spec
CONSTANTS
  s1 = s1
  s2 = s2
  k1 = k1
  k2 = k2
  Session = {s1, s2}
  Server = {k1, k2}
  ServerOf <- ServerOfSession
  Visible <- AllVisible
  Memory = {m1}
  Evidence = {e1, e2}
  MaxVersion = 2
  Legacy = {}
  Proposal = {p1, p2, p3}
  NoProposal = NoProposal
  NoMemory = NoMemory
SYMMETRY Symmetry
INVARIANTS
  ApprovalCarriedOutOnce
  EveryRevisionApproved
PROPERTIES
  ImplementsStore
