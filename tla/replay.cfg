SPECIFICATION Spec
CONSTANTS
  Inputs <- MCInputs
  Configuration = "this program"
  Header = 2
  Limit = 5
INVARIANTS
  ContextsFit
  MemoriesInForce
  AssemblyFailuresExplained
  EntryPointsAgree
  PlanCarriedOut
CHECK_DEADLOCK FALSE
