\* Two sends meet the same unknown author: do both succeed?
SPECIFICATION Spec
CONSTANTS
    Sends = {s1, s2}
    TweetIds <- AllTweets
    Authors <- AllAuthors
    Username <- NoNumbers
    Bridged <- OnlyAnn
    Author <- WrittenBy
    Refs <- RefersTo
SYMMETRY Symmetry
INVARIANT
    SendsSucceed
