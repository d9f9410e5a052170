\* A follow to accept and a tweet, executed together by a process that is
\* stopped, killed and started again; each has a first and a last attempt.
SPECIFICATION FairSpec
CONSTANTS
    Accepts = {t1}
    Rejects = {}
    Notes = {t3}
    MaxRetry = 1
    Concurrency = 2
INVARIANTS
    TypeOK
    TweetRepeatsOnlyIfCut
    FollowAnswersUseEveryRetry
PROPERTIES
    EveryTaskEnds
    DeliversAsPromised
