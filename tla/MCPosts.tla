------------------------------ MODULE MCPosts ------------------------------
(* A small instance of Posts: account "7" has the row "ann", account "8" the
   row "7". *)
EXTENDS Posts, TLC

AllIds == {"7", "8"}
AllNames == {"ann", "7"}
Rows == "ann" :> "7" @@ "7" :> "8"
AnAccept == {"accept"}
AReject == {"reject"}
ANote == {"note"}
Authors == "accept" :> "ann" @@ "reject" :> "7" @@ "note" :> "ann"
=============================================================================
