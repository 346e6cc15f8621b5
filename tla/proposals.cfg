SPECIFICATION FairSpec
CONSTANTS
  Proposal = {p1, p2}
  Thread = {t1, t2}
  Ttl = 2
  Horizon = 4
  NoProposal = NoProposal
INVARIANTS
  SingleHolder
  NothingForgotten
  ExpiryIsReal
PROPERTIES
  ImplementsProposalLife
  TakenIsDecided
