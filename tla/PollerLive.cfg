\* Two users polled in turn, one follower that comes and goes, lists that
\* shrink, grow and fail to load: every tweet is scheduled in the end.
SPECIFICATION FairSpec
CONSTANTS
    Users = {u1, u2}
    Actors = {a1}
    MaxPosts = 1
    MaxPage = 1
    MaxFaults = 1
INVARIANT
    IndexWithinList
PROPERTY
    EventuallyScheduled
