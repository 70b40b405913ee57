SPECIFICATION Spec
CONSTANTS
  Selectors = {s1, s2, s3}
  Plans <- SmallPlans
  MaxPlan = 3
  NoTable = NoTable
  NoData = NoData
  Sizes = {0, 2}
  Limits = {0, 1, 2, Unlimited}
  Unlimited = Unlimited
  MaxRuns = 2
INVARIANTS
  DestinationsFollowThePlan
  CompletedIsWritten
  FailureNamesItsTarget
CHECK_DEADLOCK FALSE
