SPECIFICATION ExtractorFairSpec
CONSTANTS
  Conversations = {"a", "b"}
  Texts = {"t"}
  DailyBudget = 2
  MaxCost = 2
  MaxTime = 2
  MaxDay = 1
  MaxTickFaults = 1
PROPERTIES ProposalsFinish
CHECK_DEADLOCK FALSE
