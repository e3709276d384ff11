SPECIFICATION Spec
CONSTANTS
  p1 = p1
  p2 = p2
  f1 = f1
  f2 = f2
  k1 = k1
  k2 = k2
  Proc <- Procs
  File <- OneFile
  Key <- Keys
  Words <- Words512
  Char <- Letters
  Nul = "0"
  NameField = 2
  PtrSize = 1
  Century = 3
  Start = 1
  Life = 1
  MaxTicks = 1
  MaxCalls = 4
  MaxFaults = 1
  Zone <- Zones
  Calls <- CertCalls
CHECK_DEADLOCK FALSE
INVARIANTS IInv TypeOK Authentic ValidWithinLife OwnSignatureAccepted GenuineBinding
