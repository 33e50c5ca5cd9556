SPECIFICATION FairSpec
CONSTANTS
  e1 = e1
  e2 = e2
  pack = pack
  single = single
  swapped = swapped
  p1 = p1
  p2 = p2
  x = x
  y = y
  none = none
  Candidates = {pack, swapped}
  Providers = {p1, p2}
  Packs = {pack}
  Texts = {x, y}
  NoText = none
  NoKey = none
  NoCandidate = none
  Offers <- MCOffers
  Text <- MCText
  Key <- MCKey
  CacheKey <- MCCacheKey
  Overwrite = FALSE
  Videos = {e1, e2}
  JobSources = {"moviepilot-csf", "jellyfin-manual"}
  MaxTaskId = 2
  MaxAttempts = 1
  ChainLimit = 2
  SyncEnabled = TRUE
  SaveUnsynced = FALSE
  MaxExtras = 2
  MaxAdds = 2
  MaxCrashes = 1
  MaxDeletes = 1
CHECK_DEADLOCK FALSE
INVARIANTS  EpisodeTextsDistinct
PROPERTIES  LoopLifecycle EveryRunEnds
