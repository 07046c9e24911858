SPECIFICATION Spec
CONSTANTS
  r1 = r1
  r2 = r2
  i1 = i1
  Records = {r1, r2}
  IdOf <- TwoPayloads
  NoRecord = NoRecord
  NoCursor = NoCursor
  NL = NL
  Malformed = Malformed
  Procs <- CaptureProcs
  PrefixMax = 1
  TailMax = 1
  BatchMax = 2
  MaxSize = 2
  MaxFaults = 1
  MaxRewrites = 1
INVARIANTS ConsumedIsStored
PROPERTIES AuditCoversFile PendingUntilAcknowledged
SYMMETRY Symmetry
