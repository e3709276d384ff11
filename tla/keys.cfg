SPECIFICATION Spec
CONSTANTS
  W = 5
  Base = 32
  KeyLen = 2
  E = 3
  Drawn <- Candidates
  Messages <- SomeMessages
CHECK_DEADLOCK FALSE
INVARIANTS KeysWork
