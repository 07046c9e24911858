SPECIFICATION FairSpec
CONSTANTS
  Runners = {r1, r2}
  Shards = {1, 2}
  Transcripts <- TwoIntervals
  MaxEvents <- OneEventPerBatch
  MaxFaults = 1
  MaxSteals = 2
  Foreign = Foreign
  None = None
  MaxCallsPerShard = 2
  MaxCallsTotal = 2
INVARIANTS PhaseIsBacked
PROPERTIES EventuallyComplete
