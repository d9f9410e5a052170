------------------------------ MODULE MCTweets ------------------------------
(* Small instances of Tweets. *)
EXTENDS Tweets, TLC

Symmetry == Permutations(Sends)

\* Tweet "o" is quoted by "q"; "qt" refers to both, and "rt" retweets "q".
AllTweets == {"o", "q", "qt", "rt"}
AllAuthors == {"ann", "bob", "cat"}
WrittenBy == "o" :> "cat" @@ "q" :> "bob" @@ "qt" :> "ann" @@ "rt" :> "ann"
RefersTo == "o" :> {} @@ "q" :> {<<"o", Quoted>>}
            @@ "qt" :> {<<"q", Quoted>>, <<"o", Quoted>>} @@ "rt" :> {<<"q", Retweeted>>}
OnlyAnn == {"ann"}
NoNumbers == "ann" :> "@ann" @@ "bob" :> "@bob" @@ "cat" :> "@cat"

\* Tweet "q" of a polled user quotes tweets of two unknown authors, one of whom
\* has the id of the other as a username; tweets of another polled user quote
\* and retweet it.
NumberTweets == {"o", "p", "q", "qt", "rt"}
NumberAuthors == {"ann", "bob", "cat", "dan"}
AnnAndDan == {"ann", "dan"}
NumberBy == "o" :> "cat" @@ "p" :> "bob" @@ "q" :> "dan" @@ "qt" :> "ann" @@ "rt" :> "ann"
NumberRefs == "o" :> {} @@ "p" :> {} @@ "q" :> {<<"o", Quoted>>, <<"p", Quoted>>}
              @@ "qt" :> {<<"q", Quoted>>} @@ "rt" :> {<<"q", Retweeted>>}
BobIsNumber == "ann" :> "@ann" @@ "bob" :> "cat" @@ "cat" :> "@cat" @@ "dan" :> "@dan"
=============================================================================
