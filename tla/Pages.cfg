\* Two accounts, one rename or departure, restarts at any time, one send and one
\* page request beside the start-up.
SPECIFICATION FairSpec
CONSTANTS
    Ids <- AllIds
    Names <- AllNames
    FirstName <- CalledFirst
    Configured <- AnnAndSeven
    Sends = {s1}
    Requests = {r1}
    Main = main
    MaxMoves = 1
    Author <- Seven
    Original <- Eight
    Kinds = {"user", "webfinger", "status"}
INVARIANTS
    TypeOK
    ConfiguredUsersHaveRows
    SecondRowNeedsRename
    OneAccountPerPage
    NoteLinksResolve
PROPERTY
    DeletedUsersAreForgotten
