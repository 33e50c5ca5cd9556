SPECIFICATION Spec
CONSTANTS
  MaxAutoRetries = 1
  MaxTaskId = 4
  Paths = {"A"}
  JobSources = {"jellyfin-manual"}
  Stages = {"searching"}
  SkipReasons = {"skipped_existing_subtitle"}
  FailureErrors = {"identity"}
  RecoverOnStart = TRUE
  MaxAdds = 2
  MaxManualRetries = 0
  MaxDeletes = 0
  MaxCrashes = 0
  MaxStops = 0
PROPERTIES TerminalIsFinal
