CONSTANTS
  r = r
  c1 = c1
  c2 = c2
  t1 = t1
  t2 = t2
  Pid = {r, c1, c2}
  Root = r
  Task = {t1, t2}
  Main = t1
  Threads <- MCThreads
  Outside = Outside
  Rss <- MCRss
  Step = 2
  ExitCode = {0, 1}
  Suffix <- MCSuffix
  EggInfo <- MCEggInfo
  OnPath = {"gcc", "mpicc"}
  CxxPeer <- MCCxxPeer
  Jobs <- MCJobs
  Tags <- MCTags
  MaxAttempts = 2
SPECIFICATION BuildSpec
INVARIANTS
  TargetFitsTree
  ToolsSurviveChdir
  CountedOnce
  QuietSampleComplete
  OneReportPerStep
PROPERTIES
  ActionSpec
  WheelFits
  ExitNoticed
