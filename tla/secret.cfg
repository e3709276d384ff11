SPECIFICATION Spec
CONSTANTS
  a = a
  Clients = {a}
  Backlog = 1
  Radix = 8
  WordDigits = 4
  KeyWords = 2
  BlockBytes = 2
  Words = 4096
  LongIsWord = FALSE
  LenBuff = 40
  LenText <- Texts
  Iv <- Vectors
  Unset <- NoHello
  Offers <- OneOffer
  Drawn <- SomeNumbers
  G <- Base9
  Multiplied <- Looked
  Known <- Computed
  W = 12
  Base = 4096
  BitMod = 23
  CarryMult = 15
  P <- Prime
  Little = 5
  Confined = 3
  MaxCuts = 0
  MaxCrashes = 0
CHECK_DEADLOCK FALSE
INVARIANT WholeHellosAgree
