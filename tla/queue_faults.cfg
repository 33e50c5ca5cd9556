SPECIFICATION FairSpec
CONSTANTS
  MaxAutoRetries = 1
  MaxTaskId = 4
  Paths = {"A"}
  JobSources = {"moviepilot-csf"}
  Stages = {"searching"}
  SkipReasons = {"skipped_existing_subtitle"}
  FailureErrors = {"identity", "unclassified"}
  RecoverOnStart = TRUE
  MaxAdds = 1
  MaxManualRetries = 1
  MaxDeletes = 0
  MaxCrashes = 1
  MaxStops = 1
INVARIANTS TypeOK ActiveIsHeld NoQueuedTaskForgotten NoConcurrentRun
PROPERTIES LifecycleSpec  EveryTaskEnds StopReturns
