SPECIFICATION ProvisioningSpec
CONSTANTS
  Jobs <- AllJobs
  Teams <- TwoTools
  MaxFaults = 0
  MaxStarts = 2
INVARIANTS ReportedStays
CHECK_DEADLOCK FALSE
