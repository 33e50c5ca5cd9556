SPECIFICATION Spec
CONSTANTS
  MaxAutoRetries = 1
  MaxTaskId = 6
  Paths = {"A"}
  JobSources = {"jellyfin-manual"}
  Stages = {"searching"}
  SkipReasons = {"skipped_existing_subtitle"}
  FailureErrors = {"identity"}
  RecoverOnStart = TRUE
  MaxAdds = 2
  MaxManualRetries = 1
  MaxDeletes = 1
  MaxCrashes = 0
  MaxStops = 0
INVARIANTS QueuedOnce  OneAutoRetryPerTask RetryableFailureIsScheduled
