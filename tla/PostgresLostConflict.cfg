SPECIFICATION PostgresSpec
CONSTANTS
  Payloads <- WritePayloads
  Keys = {"a", "t"}
  KeysFor <- DerivedKey
  Cutoffs = {}
  Limits = {}
  None = None
  Sessions = {s1}
  MaxCalls = 2
  MaxFaults = 1
INVARIANTS RolledBackChangesNothing
