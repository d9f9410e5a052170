\* Both programs, started, stopped and failing at any time, and two requests of
\* two actors, whose keys change and do not both fit into the cache.
SPECIFICATION FairSpec
CONSTANTS
    Actors = {a1, a2}
    Unusual = {a2}
    Requests = {r1, r2}
    Capacity = 1
    DisableHTTPSignatureVerify = FALSE
    MaxChanges = 1
    RunMigrations = TRUE
    DisableEmbedWorker = FALSE
    TwitterAllowedUsers = {u1}
INVARIANTS
    TypeOK
    OneKeyIsTrusted
    OldKeysAreForgotten
    NothingStartsEarly
    ExitZeroCutsNothing
PROPERTIES
    SignalledProgramsEnd
    VerifiesAsPromised
