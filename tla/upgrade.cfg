SPECIFICATION FairSpec
CONSTANTS
  old = old
  new = new
  Process = {old, new}
  ReleaseOf <- Installed
  Write = {w1}
  MaxManual = 2
  Nobody = Nobody
INVARIANTS
  DoctorAgrees
PROPERTIES
  UpgradesAreBackedUp
  ImplementsSchemaLife
  OpeningsEnd
