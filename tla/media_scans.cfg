SPECIFICATION FairSpec
CONSTANTS
  show = show
  e1 = e1
  e2 = e2
  Nobody = Nobody
  NoItem = NoItem
  Order <- MCOrder
  Series = {show}
  SeriesOf <- MCSeriesOf
  Embedded = {}
  Path <- MCPath
  Scanners = {"scan1", "scan2"}
  PageSize = 2
  TreeLimit = 3
  MaxScans = 2
  MaxTasks = 1
  MaxChanges = 1
  MaxRequests = 1
  MaxCrashes = 1
CHECK_DEADLOCK FALSE
INVARIANTS TypeOK CompleteIsComplete
PROPERTIES RemovedWasMissing  EveryWriterEnds
