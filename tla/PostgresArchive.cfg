SPECIFICATION PostgresSpec
CONSTANTS
  Payloads <- WritePayloads
  Keys = {"a", "t", "r"}
  KeysFor <- DerivedKey
  Cutoffs = {2}
  Limits = {1}
  None = None
  Sessions = {s1, s2}
  MaxCalls = 4
  MaxFaults = 2
INVARIANTS AnswersAreTrue EverythingAudited
PROPERTIES ImplementsLooseArchive
