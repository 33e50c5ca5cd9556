\* Two tasks, one change of settings; ASSRT's memory of empty answers lasts
\* longer than the interval of a source.
SPECIFICATION FairSpec
CONSTANTS
    NoTitle = "none"
    NoId = "none"
    Requests <- MCRequests
    Configs <- MCConfigs
    Subproviders <- MCSubproviders
    Solvers <- MCSolvers
    NegativeTtl = 2
    MaxFound = 1
    MaxPages = 1
    MaxAttempts = 2
    MaxTasks = 2
    MaxConfigs = 1
INVARIANTS
    TypeOK
    GivesUpWithCause
    RejectedAfterEverySolver
PROPERTIES
    SourceIntervalKept
    NoUsefulQuerySkipped
    EverySearchEnds
