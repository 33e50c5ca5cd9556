\* Two episodes, a pack and a single file, a crash or an error, and a deletion.
SPECIFICATION Spec
CONSTANTS
    v1 = v1
    v2 = v2
    pack = pack
    single = single
    p1 = p1
    p2 = p2
    s = s
    NoText = NoText
    NoCandidate = NoCandidate
    NoVideo = NoVideo
    Videos <- MCVideos
    Candidates = {pack, single}
    Member <- MCMember
    Packs = {pack}
    Streams = 2
    SyncEnabled = TRUE
    Settings <- MCSettings
    MaxExtras = 4
    MaxIds = 2
    MaxFaults = 1
    MaxDeletes = 1
SYMMETRY MCSymmetry
INVARIANTS
    TypeOK
    FilesAreWhole
    LatestKept
    SyncedIsOwn
PROPERTIES
    NothingOverwritten
\* Every identifier may be in use.
CHECK_DEADLOCK FALSE
