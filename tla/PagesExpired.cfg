\* A status page is asked for after its tweet left the store.
SPECIFICATION Spec
CONSTANTS
    Ids <- AllIds
    Names <- AllNames
    FirstName <- CalledFirst
    Configured <- AnnAndSeven
    Sends = {s1}
    Requests = {r1}
    Main = main
    MaxMoves = 0
    Author <- Seven
    Original <- Eight
    Kinds = {"status"}
INVARIANT
    ExpiredTweetsAreNotFound
