SPECIFICATION LeaseSpec
CONSTANTS
  p1 = p1
  p2 = p2
  p3 = p3
  Processes = {p1, p2, p3}
  Hosts = {"here"}
  HostOf <- OneHost
  MaxAttempts <- TwiceForOne
  None = None
INVARIANTS MutualExclusion
