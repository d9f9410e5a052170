\* Three requests of two actors, one allowed, about a bridged and an unknown
\* user: concurrent, repeated and reordered follows and undos, with failures.
SPECIFICATION Spec
CONSTANTS
    Requests = {r1, r2, r3}
    Bridged = {u1}
    Strangers = {u2}
    Actors = {a1, a2}
    Allowed = {a1}
SYMMETRY Symmetry
INVARIANTS
    TypeOK
    OneAcceptPerRow
    StrandedOnlyByFailure
    TasksFindTheirActor
PROPERTY
    OnlyUndoRepairs
    FollowsAsPromised
