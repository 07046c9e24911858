SPECIFICATION FabricSpec
CONSTANTS
  Observations <- OneMessage
  CiphertextIds = {"c1", "c2", "c3", "c4", "c5", "c6"}
  IngestRequests <- OneMessageIngests
  Callers = {c1, c2}
  MaxIngests = 3
  MaxFailures = 0
  NoRow = NoRow
  DocumentRequests <- AllDocumentRequests
  Writers = {w1, w2}
  MaxWrites = 0
  MaxWriteFailures = 1
  NoDocument = NoDocument
  ProposalKeys = {"k1", "k2"}
  Contents = {1, 2}
  ProposeInputs <- Inputs
  Receipts <- AllReceipts
  Operations = {"o1", "o2"}
  Requests <- AllRequests
  Due = {1}
  Sessions = {s1, s2}
  MaxCalls = 0
  MaxFaults = 1
  NoEntry = NoEntry
  Payloads <- AnyPayloads
  Keys = {"a", "b", "c", "d", "t", "x", "r1"}
  KeysFor <- DerivedKey
  Cutoffs = {}
  Limits = {1}
  None = None
  Readers = {}
  Conversations = {"c1"}
  PageLimits = {1}
INVARIANTS SelectionIsCurrent
CHECK_DEADLOCK FALSE
