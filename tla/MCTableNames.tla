---------------------------- MODULE MCTableNames ----------------------------
(* Replies of up to four names, so that an array that starts with one      *)
(* entry doubles twice, is full at its end or not, and is cut short.       *)
EXTENDS TableNames, SequencesExt

Arrays == {[kind |-> "array", items |-> s, closed |-> b] :
              s \in {SubSeq(<< "a", "b", "a", "c" >>, 1, n) : n \in 0 .. 4}, b \in BOOLEAN}

MCReplies == Arrays \cup {[kind |-> "other", items |-> << >>, closed |-> TRUE]}
=============================================================================
