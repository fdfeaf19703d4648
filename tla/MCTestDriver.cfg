CONSTANTS
  Test = {1, 2, 3}
  MaxShards = 3
  Scenarios <- MCScenarios
SPECIFICATION Spec
INVARIANTS
  GreenRanEverything
  GoodTestsAreGreen
  ReportMatchesExit
