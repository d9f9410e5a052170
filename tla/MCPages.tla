------------------------------ MODULE MCPages ------------------------------
(* A small instance of Pages: account "7" is called "ann" at first, account "8"
   is called "7", and "new" is free. *)
EXTENDS Pages, TLC

AllIds == {"7", "8"}
AllNames == {"ann", "7", "new"}
CalledFirst == "7" :> "ann" @@ "8" :> "7"
AnnAndSeven == {"ann", "7"}
Seven == "7"
Eight == "8"
=============================================================================
