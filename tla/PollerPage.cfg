\* One user whose posts overflow a page, two followers, failures and crashes.
SPECIFICATION Spec
CONSTANTS
    Users = {u1}
    Actors = {a1, a2}
    MaxPosts = 3
    MaxPage = 2
    MaxFaults = 1
SYMMETRY Symmetry
INVARIANTS
    TypeOK
    FollowersServed
    RepeatsOnlyAfterFailure
    UnfollowTakesEffect
PROPERTY
    FeedsAsPromised
