CONSTANTS
  None = None
  Unparsable = Unparsable
  NotANumber = NotANumber
  MetricNames = {"xg"}
  PerformanceMetrics = {"xg"}
  MetricAliases <- MCAliases
  CoreMetrics <- MCCore
  Jobs = {j1, j2}
  Available = {"squad", "renamed", "minutes", "feed", "csv", "fixed", "twice", "unread"}
  Inputs <- MCInputs
  MaxRuns = 3
  Alone = 1
SPECIFICATION Spec
INVARIANTS
  FailedRunsPublishNothing
  RejectionsAreRecorded
  SkipLeavesNobodyOut
PROPERTIES
  ResolvedIsAnswered
  AmbiguousStaysUnlinked
CHECK_DEADLOCK FALSE
