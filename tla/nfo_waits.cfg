SPECIFICATION FairSpec
CONSTANTS
  Works = {"old", "new"}
  NoWork = "none"
  Places = {"S01E01", "S01E02"}
  NoPlace = "nowhere"
  Paths = {"S01E01", "nowhere"}
  Libraries <- MCLibraries
  NFO_READY_WAIT = 2
  MOVIE_NFO_PREFERRED_WAIT = 1
  MaxWrites = 2
  MaxTasks = 2
  MaxCrashes = 1
CHECK_DEADLOCK FALSE
INVARIANT IdentityFrozen
PROPERTIES IdentityIsCurrent EveryWaitEnds
