SPECIFICATION FairSpec
CONSTANTS
  c1 = c1
  c2 = c2
  p1 = p1
  p2 = p2
  Callers = {c1, c2}
  Processes = {p1, p2}
  ProcessOf <- TwoProcesses
  Ids = {i1}
  Digests = {d1, d2, d3}
  NoDigest = NoDigest
  MaxPendingCount = 1
  MaxCrashes = 1
  MaxLosses = 1
  MaxFaults = 1
INVARIANTS AckedIsStored PromisedIsKept OverrunBounded
PROPERTIES EventuallyAcknowledged DeliversEvents
