\* Three sends of a tweet that quotes two unknown authors and of its retweet:
\* stores that overwrite each other, rows that are raced for, and one author
\* whose id is the username of the other.
SPECIFICATION Spec
CONSTANTS
    Sends = {s1, s2, s3}
    TweetIds <- NumberTweets
    Authors <- NumberAuthors
    Username <- BobIsNumber
    Bridged <- AnnAndDan
    Author <- NumberBy
    Refs <- NumberRefs
SYMMETRY Symmetry
INVARIANTS
    TypeOK
    AuthorsKnown
PROPERTY
    KeysNeverChange
