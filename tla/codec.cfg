SPECIFICATION Spec
CONSTANTS
  Docs <- SomeDocs
  Changes <- Nearby
  MaxChanged = 230
CHECK_DEADLOCK FALSE
INVARIANTS KeptWhole WrappedRefused SignedIsRead HashedWhole
