\* Three tasks that share the signer, killed and renamed at any time: who signs
\* what, and what a remote server can verify.
SPECIFICATION FairSpec
CONSTANTS
    Ids <- AllIds
    Names <- AllNames
    IdOf <- Rows
    Accepts <- AnAccept
    Rejects <- AReject
    Notes <- ANote
    From <- Authors
    MaxPosts = 2
    MaxRenames = 2
INVARIANTS
    TypeOK
    SignedByItself
    PostsVerify
    UnverifiedOnlyIfRenamed
    LinksLeadBack
PROPERTY
    EveryPostIsMade
