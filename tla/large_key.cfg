SPECIFICATION Spec
CONSTANTS
  p1 = p1
  p2 = p2
  f1 = f1
  f2 = f2
  k1 = k1
  k2 = k2
  Proc <- Procs
  File <- OneFile
  Key <- Keys
  Words <- Words2048
  Char <- Letters
  Nul = "0"
  NameField = 2
  PtrSize = 1
  Century = 100
  Start = 1
  Life = 1
  MaxTicks = 2
  MaxCalls = 4
  MaxFaults = 0
  Zone <- Zones
  Calls <- KeyCalls
CHECK_DEADLOCK FALSE
INVARIANT SavedKeyReadable
