SPECIFICATION FairSpec
CONSTANTS
  a = a
  b = b
  Clients = {a, b}
  Backlog = 1
  Radix = 8
  WordDigits = 4
  KeyWords = 2
  BlockBytes = 2
  Words = 4096
  LongIsWord = FALSE
  LenBuff = 40
  LenText <- Texts
  Iv <- Vectors
  Unset <- NoHello
  Offers <- OneOffer
  Drawn <- SomeNumbers
  G <- Base9
  Multiplied <- Meant
  MaxCuts = 1
  MaxCrashes = 1
CHECK_DEADLOCK FALSE
INVARIANTS TypeOK DeliveredIsSent WholeHellosAgree WholeMessageHeard FieldsBeforeCutRight KeystreamOnce
PROPERTIES ServerReturns ClientsEnd IsDelivery
