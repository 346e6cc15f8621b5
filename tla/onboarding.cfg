SPECIFICATION Spec
CONSTANTS
  r1 = r1
  r2 = r2
  r3 = r3
  p1 = p1
  p2 = p2
  codex = codex
  Run = {r1, r2}
  Project = {p1, p2}
  Slot = {codex}
  SlotOf <- Shared
  Text = {"rules", "notes"}
  Nothing = "nothing"
  Manual = Manual
  None = None
  MaxFaults = 2
  MaxEdits = 1
SYMMETRY Symmetry
CHECK_DEADLOCK FALSE
INVARIANTS
  InstructionsKept
PROPERTIES
  RegistrationKept
  SuccessIsUsable
