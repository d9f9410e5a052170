\* A tweet is retweeted, then quoted: is the quote shown as a retweet?
SPECIFICATION Spec
CONSTANTS
    Sends = {s1, s2}
    TweetIds <- AllTweets
    Authors <- AllAuthors
    Username <- NoNumbers
    Bridged <- OnlyAnn
    Author <- WrittenBy
    Refs <- RefersTo
SYMMETRY Symmetry
INVARIANT
    OnlyRetweetsAreReplaced
