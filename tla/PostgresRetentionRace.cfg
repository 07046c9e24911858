SPECIFICATION PostgresSpec
CONSTANTS
  Payloads <- RetentionPayloads
  Keys = {"a", "c", "r"}
  KeysFor <- DerivedKey
  Cutoffs = {1}
  Limits = {1}
  None = None
  Sessions = {s1, s2}
  MaxCalls = 3
  MaxFaults = 0
PROPERTIES ConflictsAreNotExpired
