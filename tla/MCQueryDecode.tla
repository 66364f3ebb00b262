--------------------------- MODULE MCQueryDecode ----------------------------
(* Replies of up to three rows, made of rows that are empty, long enough   *)
(* to outgrow buffers whose first capacity is one, split over two "cells"  *)
(* arrays, or broken at each place where the parser may stop.              *)
EXTENDS QueryDecode, SequencesExt

Cell(c, t, x) == [kind |-> "cell", col |-> c, tag |-> t, text |-> x]
S == Cell(1, "str", "s")
J == Cell(2, "json", "j")
N == Cell(3, "num", "n")
BadCol == Cell(0, "badcol", "")
BadVal == Cell(1, "badval", "")

Open == [kind |-> "cells"]
Other == [kind |-> "other"]
BadField == [kind |-> "bad"]
RowOf(its) == [kind |-> "row", items |-> its]

Good == {RowOf(<< >>), RowOf(<< Other, Open, S >>), RowOf(<< Open, J, Open, N, S >>)}
Broken == {RowOf(<< Open, S, BadVal >>), RowOf(<< Open, J, BadCol >>),
           RowOf(<< BadField >>), [kind |-> "bad", items |-> << >>]}

RowLists == BoundedSeq(Good, 3) \cup
            {Append(rs, b) : rs \in BoundedSeq(Good, 1), b \in Broken}

MCReplies ==
    {[kind |-> k, rows |-> << >>] : k \in {"norows", "broken", "garbage"}}
    \cup {[kind |-> "rows", rows |-> rs] : rs \in RowLists}

AllFaults == {"rows", "cells", "offs", "starts", "blob"}
=============================================================================
