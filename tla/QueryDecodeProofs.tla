-------------------------- MODULE QueryDecodeProofs --------------------------
(***************************************************************************)
(* Theorems about QueryDecode, for every set of replies, every first       *)
(* capacity and every set of failing reallocs.                             *)
(***************************************************************************)
EXTENDS QueryDecode, FiniteSetTheorems, TLAPS

(* The places of the program where a row is being read.                    *)
InRow == {"field", "pair", "offs", "scalar", "growrows", "starts", "record"}

IsBuffer(b) == /\ b = [gen |-> b.gen, cap |-> b.cap, at |-> b.at]
               /\ b.gen \in Nat /\ b.cap \in Nat /\ InBounds(b)

BuffersOK == IsBuffer(rows) /\ IsBuffer(cells) /\ IsBuffer(offs) /\ IsBuffer(starts)
             /\ IsBuffer(blob)

ShapeOK ==
    /\ pc \in InRow \cup {"idle", "row", "sum", "resolve"}
    /\ total \in Nat /\ summed \in Nat /\ inRow \in Nat /\ out.count \in Nat
    /\ pc = "idle" => total = 0
    /\ pc # "idle" => reply \in Replies
    /\ pc \in InRow \cup {"row", "sum"} => out.count < Len(reply.rows)
    /\ pc = "resolve" => out.count = Len(reply.rows)
    /\ pc = "resolve" => out.rows = rows.gen
    /\ pc \in InRow => item \in 1 .. Len(Items) + 1
    /\ pc \in {"offs", "scalar"} => AtPair
    /\ pc \in {"growrows", "starts", "record"} => Ended

(* Where the cells of the first n rows end.                                *)
End(n) == IF n = 0 THEN 0 ELSE starts.at[n - 1] + rows.at[n - 1].count

(* How many cells have been stored.                                        *)
Filled == IF pc = "sum" THEN End(out.count) ELSE total

(* The locals count what the code means by them.                           *)
CountsOK ==
    /\ pc = "sum" => summed <= out.count /\ total = End(summed)
    /\ pc \in InRow => total = End(out.count) + inRow /\ inRow = Rank(Items, item - 1)
    /\ pc \in {"row", "resolve"} => total = End(out.count)

(* The rows so far follow each other, and their cells have been stored.    *)
RowsOK == pc # "idle" =>
    /\ \A r \in 0 .. out.count - 1 :
          /\ r \in DOMAIN rows.at /\ r \in DOMAIN starts.at
          /\ rows.at[r] = [count |-> rows.at[r].count, cells |-> NULL]
          /\ rows.at[r].count \in Nat /\ starts.at[r] \in Nat
          /\ starts.at[r] = End(r) /\ End(r + 1) <= Filled
    /\ \A k \in 0 .. Filled - 1 : k \in DOMAIN cells.at /\ k \in DOMAIN offs.at

(* Cell k was stored for this pair; its string is where its offset says.   *)
Kept(k, pair) ==
    /\ k \in 0 .. Filled - 1
    /\ pair.tag \in {"num", "str", "json"}
    /\ pair.tag = "num" => cells.at[k] = [col |-> pair.col, tag |-> "num", text |-> pair.text]
    /\ pair.tag # "num" =>
          /\ cells.at[k] = [col |-> pair.col, tag |-> pair.tag, ptr |-> cells.at[k].ptr]
          /\ offs.at[k] \in DOMAIN blob.at /\ blob.at[offs.at[k]] = pair.text

KeptRow(items, first, n) ==
    \A i \in CellItems(items) : i < n => Kept(first + Rank(items, i) - 1, items[i])

DecodedRows ==
    \A r \in 1 .. out.count :
        LET items == reply.rows[r].items IN
        /\ rows.at[r - 1].count = Rank(items, Len(items))
        /\ KeptRow(items, starts.at[r - 1], Len(items) + 1)

DecodedItems == pc \in InRow => KeptRow(Items, End(out.count), item)

IInv == /\ BuffersOK /\ ShapeOK /\ CountsOK /\ RowsOK
        /\ (pc # "idle" => DecodedRows /\ DecodedItems)
        /\ IndicesInBounds /\ NoLeak /\ ResultFaithful

-----------------------------------------------------------------------------
(* How many pairs there are up to an item.                                 *)
LEMMA RankType ==
    ASSUME NEW items, NEW i \in Nat
    PROVE  IsFiniteSet({j \in 1 .. i : items[j].kind = "cell"}) /\ Rank(items, i) \in Nat
<1>1. IsFiniteSet(1 .. i)
  BY FS_Interval
<1>2. IsFiniteSet({j \in 1 .. i : items[j].kind = "cell"})
  BY <1>1, FS_Subset
<1> QED BY <1>2, FS_CardinalityType DEF Rank

LEMMA RankNone == ASSUME NEW items PROVE Rank(items, 0) = 0
<1>1. {j \in 1 .. 0 : items[j].kind = "cell"} = {}
  OBVIOUS
<1> QED BY <1>1, FS_EmptySet DEF Rank

LEMMA RankStep ==
    ASSUME NEW items, NEW i \in Nat
    PROVE  Rank(items, i + 1) = IF items[i + 1].kind = "cell" THEN Rank(items, i) + 1
                                ELSE Rank(items, i)
<1> DEFINE S(n) == {j \in 1 .. n : items[j].kind = "cell"}
<1>1. IsFiniteSet(S(i)) /\ i + 1 \notin S(i)
  <2>1. IsFiniteSet(S(i))
    BY RankType
  <2> QED BY <2>1
<1>2. CASE items[i + 1].kind = "cell"
  <2>1. S(i + 1) = S(i) \cup {i + 1}
    BY <1>2
  <2> HIDE DEF S
  <2>2. Cardinality(S(i + 1)) = Cardinality(S(i)) + 1
    BY <1>1, <2>1, FS_AddElement
  <2> QED BY <1>2, <2>2 DEF Rank, S
<1>3. CASE items[i + 1].kind # "cell"
  <2>1. S(i + 1) = S(i)
    BY <1>3
  <2> QED BY <1>3, <2>1 DEF Rank
<1> QED BY <1>2, <1>3

LEMMA RankMonotone ==
    ASSUME NEW items, NEW i \in Nat, NEW j \in Nat, i <= j
    PROVE  Rank(items, i) <= Rank(items, j)
<1> DEFINE S(n) == {m \in 1 .. n : items[m].kind = "cell"}
<1>1. IsFiniteSet(S(j))
  BY RankType
<1>2. S(i) \in SUBSET S(j)
  OBVIOUS
<1> HIDE DEF S
<1>3. Cardinality(S(i)) <= Cardinality(S(j))
  BY <1>1, <1>2, FS_Subset
<1> QED BY <1>3 DEF Rank, S

(* A pair has a place among the pairs up to any later item.                *)
LEMMA RankOfPair ==
    ASSUME NEW items, NEW n \in Nat, NEW i \in 1 .. n, items[i].kind = "cell"
    PROVE  Rank(items, i) \in 1 .. Rank(items, n)
<1>1. i - 1 \in Nat /\ i \in Nat /\ i <= n /\ (i - 1) + 1 = i
  OBVIOUS
<1>2. Rank(items, i) = Rank(items, i - 1) + 1
  BY <1>1, RankStep
<1>3. Rank(items, i - 1) \in Nat /\ Rank(items, n) \in Nat /\ Rank(items, i) <= Rank(items, n)
  BY <1>1, RankType, RankMonotone
<1> QED BY <1>2, <1>3

-----------------------------------------------------------------------------
(* Writing one entry of a buffer within its capacity, and making room.     *)
LEMMA Stored ==
    ASSUME NEW b, IsBuffer(b), NEW i \in Nat, i < b.cap, NEW x
    PROVE  /\ IsBuffer(Store(b, i, x))
           /\ Store(b, i, x).gen = b.gen /\ Store(b, i, x).cap = b.cap
           /\ i \in DOMAIN Store(b, i, x).at /\ Store(b, i, x).at[i] = x
           /\ \A k \in DOMAIN b.at : /\ k \in DOMAIN Store(b, i, x).at
                                     /\ k # i => Store(b, i, x).at[k] = b.at[k]
<1> DEFINE at == [k \in DOMAIN b.at \cup {i} |-> IF k = i THEN x ELSE b.at[k]]
<1>1. Store(b, i, x) = [gen |-> b.gen, cap |-> b.cap, at |-> at]
  BY DEF Store, IsBuffer
<1>2. DOMAIN at = DOMAIN b.at \cup {i} /\ at[i] = x /\ \A k \in DOMAIN b.at : k # i => at[k] = b.at[k]
  OBVIOUS
<1> HIDE DEF at
<1> QED BY <1>1, <1>2 DEF IsBuffer, InBounds

LEMMA Grows ==
    ASSUME NEW b, IsBuffer(b), NEW n \in Nat, n >= b.cap, NEW c \in GrownTo(b, n)
    PROVE  IsBuffer(c) /\ c.at = b.at /\ c.cap = n
<1>1. PICK g \in {b.gen + 1} \cup (IF b.cap = 0 THEN {} ELSE {b.gen}) :
          c = [b EXCEPT !.cap = n, !.gen = g]
  BY DEF GrownTo
<1>2. g \in Nat
  BY <1>1 DEF IsBuffer
<1>3. c = [gen |-> g, cap |-> n, at |-> b.at]
  BY <1>1 DEF IsBuffer
<1> QED BY <1>2, <1>3 DEF IsBuffer, InBounds

LEMMA Roomy ==
    ASSUME NEW b, IsBuffer(b), NEW full \in BOOLEAN, NEW first \in Nat \ {0}, NEW k \in Nat,
           k <= b.cap + 1, NEW c \in WithRoom(b, full, first, k)
    PROVE  /\ IsBuffer(c) /\ c.at = b.at /\ c.cap >= b.cap
           /\ full => c.cap > b.cap
           /\ ~full => c = b
<1>1. CASE ~full
  BY <1>1 DEF WithRoom, IsBuffer
<1>2. CASE full
  <2> DEFINE base == IF b.cap = 0 THEN first ELSE 2 * b.cap
  <2>1. base \in Nat /\ base >= k /\ base > b.cap
    BY DEF IsBuffer
  <2>2. Doubled(base, k) = base
    BY <2>1 DEF Doubled
  <2>3. c \in GrownTo(b, base)
    BY <1>2, <2>2 DEF WithRoom
  <2> HIDE DEF base
  <2>4. IsBuffer(c) /\ c.at = b.at /\ c.cap = base
    BY <2>1, <2>3, Grows DEF IsBuffer
  <2> QED BY <1>2, <2>1, <2>4 DEF IsBuffer
<1> QED BY <1>1, <1>2

(* Room for entry i, which is the next one at most.                        *)
LEMMA RoomFor ==
    ASSUME NEW b, IsBuffer(b), NEW i \in Nat, i <= b.cap, NEW full \in BOOLEAN,
           full \/ i < b.cap, NEW first \in Nat \ {0}, NEW k \in Nat, k <= b.cap + 1,
           NEW c \in WithRoom(b, full, first, k)
    PROVE  IsBuffer(c) /\ c.at = b.at /\ i < c.cap /\ c.cap # 0
<1>1. /\ IsBuffer(c) /\ c.at = b.at /\ c.cap >= b.cap
      /\ full => c.cap > b.cap
      /\ ~full => c = b
  BY Roomy
<1> QED BY <1>1 DEF IsBuffer

(* What is allocated beside a block stays as it is when the block moves.   *)
LEMMA Moved ==
    ASSUME NEW name, NEW others, NEW b, NEW c, \A g : << name, g >> \notin others,
           heap = Allocated(name, b) \cup others, c.cap # 0
    PROVE  Move(name, b, c) = Allocated(name, c) \cup others
BY DEF Move, Allocated

(* One buffer at a time.                                                   *)
LEMMA MovedEach ==
    ASSUME NoLeak, NEW c, c.cap # 0
    PROVE  /\ Move("rows", rows, c) = Allocated("rows", c) \cup Allocated("cells", cells)
                \cup Allocated("offs", offs) \cup Allocated("starts", starts) \cup Allocated("blob", blob)
           /\ Move("cells", cells, c) = Allocated("rows", rows) \cup Allocated("cells", c)
                \cup Allocated("offs", offs) \cup Allocated("starts", starts) \cup Allocated("blob", blob)
           /\ Move("offs", offs, c) = Allocated("rows", rows) \cup Allocated("cells", cells)
                \cup Allocated("offs", c) \cup Allocated("starts", starts) \cup Allocated("blob", blob)
           /\ Move("starts", starts, c) = Allocated("rows", rows) \cup Allocated("cells", cells)
                \cup Allocated("offs", offs) \cup Allocated("starts", c) \cup Allocated("blob", blob)
           /\ Move("blob", blob, c) = Allocated("rows", rows) \cup Allocated("cells", cells)
                \cup Allocated("offs", offs) \cup Allocated("starts", starts) \cup Allocated("blob", c)
<1> DEFINE R == Allocated("rows", rows)
           C == Allocated("cells", cells)
           O == Allocated("offs", offs)
           S == Allocated("starts", starts)
           B == Allocated("blob", blob)
<1>1. heap = R \cup C \cup O \cup S \cup B
  BY DEF NoLeak
<1>2. /\ \A g : << "rows", g >> \notin C \cup O \cup S \cup B
      /\ \A g : << "cells", g >> \notin R \cup O \cup S \cup B
      /\ \A g : << "offs", g >> \notin R \cup C \cup S \cup B
      /\ \A g : << "starts", g >> \notin R \cup C \cup O \cup B
      /\ \A g : << "blob", g >> \notin R \cup C \cup O \cup S
  BY DEF Allocated
<1> HIDE DEF R, C, O, S, B
<1>3. Move("rows", rows, c) = Allocated("rows", c) \cup (C \cup O \cup S \cup B)
  <2> DEFINE others == C \cup O \cup S \cup B
  <2>1. heap = R \cup others /\ \A g : << "rows", g >> \notin others
    BY <1>1, <1>2
  <2> HIDE DEF others
  <2>2. Move("rows", rows, c) = Allocated("rows", c) \cup others
    BY <2>1, Moved DEF R
  <2> QED BY <2>2 DEF others
<1>4. Move("cells", cells, c) = Allocated("cells", c) \cup (R \cup O \cup S \cup B)
  <2> DEFINE others == R \cup O \cup S \cup B
  <2>1. heap = C \cup others /\ \A g : << "cells", g >> \notin others
    BY <1>1, <1>2
  <2> HIDE DEF others
  <2>2. Move("cells", cells, c) = Allocated("cells", c) \cup others
    BY <2>1, Moved DEF C
  <2> QED BY <2>2 DEF others
<1>5. Move("offs", offs, c) = Allocated("offs", c) \cup (R \cup C \cup S \cup B)
  <2> DEFINE others == R \cup C \cup S \cup B
  <2>1. heap = O \cup others /\ \A g : << "offs", g >> \notin others
    BY <1>1, <1>2
  <2> HIDE DEF others
  <2>2. Move("offs", offs, c) = Allocated("offs", c) \cup others
    BY <2>1, Moved DEF O
  <2> QED BY <2>2 DEF others
<1>6. Move("starts", starts, c) = Allocated("starts", c) \cup (R \cup C \cup O \cup B)
  <2> DEFINE others == R \cup C \cup O \cup B
  <2>1. heap = S \cup others /\ \A g : << "starts", g >> \notin others
    BY <1>1, <1>2
  <2> HIDE DEF others
  <2>2. Move("starts", starts, c) = Allocated("starts", c) \cup others
    BY <2>1, Moved DEF S
  <2> QED BY <2>2 DEF others
<1>7. Move("blob", blob, c) = Allocated("blob", c) \cup (R \cup C \cup O \cup S)
  <2> DEFINE others == R \cup C \cup O \cup S
  <2>1. heap = B \cup others /\ \A g : << "blob", g >> \notin others
    BY <1>1, <1>2
  <2> HIDE DEF others
  <2>2. Move("blob", blob, c) = Allocated("blob", c) \cup others
    BY <2>1, Moved DEF B
  <2> QED BY <2>2 DEF others
<1> QED BY <1>3, <1>4, <1>5, <1>6, <1>7 DEF R, C, O, S, B

-----------------------------------------------------------------------------
(* What the invariant says of sizes while a call runs.                     *)
LEMMA Sizes ==
    ASSUME IInv, pc # "idle"
    PROVE  /\ \A n \in 0 .. out.count : End(n) \in Nat
           /\ Filled \in Nat
           /\ Filled <= cells.cap /\ Filled <= offs.cap
           /\ out.count <= rows.cap /\ out.count <= starts.cap
           /\ Len(reply.rows) \in Nat
           /\ \A r \in 1 .. Len(reply.rows) : Len(reply.rows[r].items) \in Nat
<1>1. /\ out.count \in Nat /\ total \in Nat /\ reply \in Replies
      /\ IsBuffer(rows) /\ IsBuffer(cells) /\ IsBuffer(offs) /\ IsBuffer(starts)
  BY DEF IInv, ShapeOK, BuffersOK
<1>2. \A r \in 0 .. out.count - 1 :
          /\ r \in DOMAIN rows.at /\ r \in DOMAIN starts.at
          /\ rows.at[r].count \in Nat /\ starts.at[r] \in Nat
  BY DEF IInv, RowsOK
<1>3. \A k \in 0 .. Filled - 1 : k \in DOMAIN cells.at /\ k \in DOMAIN offs.at
  BY DEF IInv, RowsOK
<1>4. \A n \in 0 .. out.count : End(n) \in Nat
  BY <1>1, <1>2 DEF End
<1>5. Filled \in Nat
  BY <1>1, <1>4 DEF Filled
<1>6. ASSUME NEW b, IsBuffer(b), NEW n \in Nat, \A k \in 0 .. n - 1 : k \in DOMAIN b.at
      PROVE  n <= b.cap
  <2>1. CASE n = 0
    BY <1>6, <2>1 DEF IsBuffer
  <2>2. CASE n # 0
    <3>1. n - 1 \in DOMAIN b.at
      BY <1>6, <2>2
    <3> QED BY <1>6, <3>1 DEF IsBuffer, InBounds
  <2> QED BY <2>1, <2>2
<1>7. /\ Len(reply.rows) \in Nat
      /\ \A r \in 1 .. Len(reply.rows) : Len(reply.rows[r].items) \in Nat
  BY <1>1, DecodeAssumption
<1>8. Filled <= cells.cap /\ Filled <= offs.cap
  BY <1>1, <1>3, <1>5, <1>6
<1>9. out.count <= rows.cap /\ out.count <= starts.cap
  BY <1>1, <1>2, <1>6
<1> QED BY <1>4, <1>5, <1>7, <1>8, <1>9

(* A step that only adds behind what was stored keeps what was decoded.    *)
LEMMA Framed ==
    ASSUME IInv, pc # "idle", pc' # "idle", reply' = reply, out' = out,
           rows'.at = rows.at, starts'.at = starts.at,
           Filled' \in Nat, Filled <= Filled',
           \A k \in 0 .. Filled - 1 : cells'.at[k] = cells.at[k] /\ offs'.at[k] = offs.at[k],
           \A k \in DOMAIN blob.at : k \in DOMAIN blob'.at /\ blob'.at[k] = blob.at[k],
           \A k \in 0 .. Filled' - 1 : k \in DOMAIN cells'.at /\ k \in DOMAIN offs'.at
    PROVE  /\ \A n : End(n)' = End(n)
           /\ \A k, pair : Kept(k, pair) => Kept(k, pair)'
           /\ RowsOK'
           /\ DecodedRows'
           /\ \A items, first, n : KeptRow(items, first, n) => KeptRow(items, first, n)'
<1>1. \A n : End(n)' = End(n)
  BY DEF End
<1>2. Filled \in Nat /\ out.count \in Nat /\ \A n \in 0 .. out.count : End(n) \in Nat
  BY Sizes DEF IInv, ShapeOK
<1>3. ASSUME NEW k, NEW pair, Kept(k, pair) PROVE Kept(k, pair)'
  <2>1. k \in 0 .. Filled - 1 /\ k \in 0 .. Filled' - 1
    BY <1>2, <1>3 DEF Kept
  <2>2. cells'.at[k] = cells.at[k] /\ offs'.at[k] = offs.at[k]
    BY <2>1
  <2> QED BY <1>3, <2>1, <2>2 DEF Kept
<1>4. RowsOK'
  <2>1. \A r \in 0 .. out.count - 1 : End(r + 1) <= Filled'
    <3> SUFFICES ASSUME NEW r \in 0 .. out.count - 1 PROVE End(r + 1) <= Filled'
      OBVIOUS
    <3>1. End(r + 1) <= Filled
      BY DEF IInv, RowsOK
    <3>2. End(r + 1) \in Nat
      BY <1>2
    <3> QED BY <1>2, <3>1, <3>2
  <2> QED BY <1>1, <2>1 DEF IInv, RowsOK
<1>5. \A items, first, n : KeptRow(items, first, n) => KeptRow(items, first, n)'
  BY <1>3 DEF KeptRow
<1>6. DecodedRows'
  <2> SUFFICES ASSUME NEW r \in 1 .. out.count, NEW items, items = reply.rows[r].items
               PROVE  /\ rows.at[r - 1].count = Rank(items, Len(items))
                      /\ KeptRow(items, starts.at[r - 1], Len(items) + 1)'
    BY DEF DecodedRows
  <2> QED BY <1>5 DEF IInv, DecodedRows
<1> QED BY <1>1, <1>3, <1>4, <1>5, <1>6

-----------------------------------------------------------------------------
LEMMA FreshIsBuffer == IsBuffer(Fresh) /\ Fresh.gen = 0 /\ Fresh.cap = 0
<1>1. Fresh = [gen |-> 0, cap |-> 0, at |-> Fresh.at] /\ Fresh.gen = 0 /\ Fresh.cap = 0
      /\ DOMAIN Fresh.at = {}
  BY DEF Fresh
<1> QED BY <1>1 DEF IsBuffer, InBounds

(* No memory, no rows, no call.                                            *)
LEMMA InitInv == Init => IInv
<1> SUFFICES ASSUME Init PROVE IInv
  OBVIOUS
<1>1. BuffersOK
  BY FreshIsBuffer DEF Init, BuffersOK
<1>2. ShapeOK /\ CountsOK /\ RowsOK
  BY DEF Init, ShapeOK, CountsOK, RowsOK, Empty, InRow
<1>3. IndicesInBounds /\ NoLeak /\ ResultFaithful
  BY <1>1, FreshIsBuffer DEF Init, IndicesInBounds, NoLeak, ResultFaithful, Allocated,
     BuffersOK, IsBuffer
<1>4. pc = "idle"
  BY DEF Init
<1> QED BY <1>1, <1>2, <1>3, <1>4 DEF IInv

LEMMA RequestFailsInv == IInv /\ RequestFails => IInv'
<1> SUFFICES ASSUME IInv, RequestFails PROVE IInv'
  OBVIOUS
<1>1. /\ pc = "idle" /\ pc' = "idle" /\ out' = Empty /\ ret' = "FAILED"
      /\ UNCHANGED << rows, cells, offs, starts, blob, heap, item, total, summed, inRow >>
  BY DEF RequestFails, buffers, locals
<1>2. BuffersOK' /\ IndicesInBounds' /\ NoLeak'
  BY <1>1 DEF IInv, BuffersOK, IndicesInBounds, NoLeak
<1>3. ShapeOK' /\ CountsOK' /\ RowsOK' /\ ResultFaithful'
  BY <1>1 DEF IInv, ShapeOK, CountsOK, RowsOK, ResultFaithful, InRow, Empty
<1> QED BY <1>1, <1>2, <1>3 DEF IInv

(* A call that returns with an error leaves buffers that the client owns.  *)
LEMMA ReturnInv ==
    ASSUME IInv, NEW code, code # "OK", Return(code), BuffersOK', NoLeak', out'.count \in Nat
    PROVE  IInv'
<1>1. /\ pc' = "idle" /\ ret' # "OK" /\ total' = 0 /\ summed' = 0 /\ inRow' = 0
  BY DEF Return
<1>2. IndicesInBounds'
  BY <1>1 DEF IndicesInBounds, BuffersOK, IsBuffer
<1>3. ShapeOK' /\ CountsOK' /\ RowsOK' /\ ResultFaithful'
  BY <1>1 DEF ShapeOK, CountsOK, RowsOK, ResultFaithful, InRow
<1> QED BY <1>1, <1>2, <1>3 DEF IInv

LEMMA QueryInv == \A r \in Replies : IInv /\ Query(r) => IInv'
<1> SUFFICES ASSUME NEW r \in Replies, IInv, Query(r) PROVE IInv'
  OBVIOUS
<1>1. /\ rows' = Fresh /\ cells' = Fresh /\ offs' = Fresh /\ starts' = Fresh /\ blob' = Fresh
      /\ out' = Empty /\ reply' = r /\ pc = "idle"
  BY DEF Query, Reset, Forgotten
<1>2. heap' = {}
  BY DEF IInv, NoLeak, Allocated, Query, Reset
<1>3. BuffersOK' /\ NoLeak'
  BY <1>1, <1>2, FreshIsBuffer DEF BuffersOK, NoLeak, Allocated
<1>4. out'.count = 0 /\ Len(r.rows) \in Nat
  BY <1>1, DecodeAssumption DEF Empty
<1>5. CASE Return("JSON")
  BY <1>3, <1>4, <1>5, ReturnInv
<1>6. CASE Return("OK") /\ (r.kind \in {"norows", "garbage"} \/ Len(r.rows) = 0)
  <2>1. pc' = "idle" /\ ret' = "OK" /\ total' = 0 /\ summed' = 0 /\ inRow' = 0
    BY <1>6 DEF Return
  <2>2. Len(r.rows) = 0
    BY <1>6, DecodeAssumption
  <2>3. IndicesInBounds'
    BY <1>3, <2>1 DEF IndicesInBounds, BuffersOK, IsBuffer
  <2>4. ShapeOK' /\ CountsOK' /\ RowsOK'
    BY <1>4, <2>1 DEF ShapeOK, CountsOK, RowsOK, InRow
  <2>5. ResultFaithful'
    BY <1>1, <1>4, <2>2 DEF ResultFaithful
  <2> QED BY <1>3, <2>1, <2>3, <2>4, <2>5 DEF IInv
<1>7. CASE pc' = "row" /\ UNCHANGED locals /\ Len(r.rows) # 0
  <2>1. IndicesInBounds'
    BY <1>3, <1>7 DEF IndicesInBounds, BuffersOK, IsBuffer
  <2>2. total' = 0 /\ summed' \in Nat /\ inRow' \in Nat
    BY <1>1, <1>7 DEF IInv, ShapeOK, locals
  <2>3. ShapeOK' /\ CountsOK' /\ RowsOK'
    BY <1>1, <1>4, <1>7, <2>2 DEF ShapeOK, CountsOK, RowsOK, InRow, End, Filled
  <2>4. DecodedRows' /\ DecodedItems' /\ ResultFaithful'
    BY <1>4, <1>7 DEF DecodedRows, DecodedItems, InRow, ResultFaithful
  <2> QED BY <1>3, <2>1, <2>3, <2>4 DEF IInv
<1>8. Return("JSON") \/ (Return("OK") /\ (r.kind \in {"norows", "garbage"} \/ Len(r.rows) = 0))
      \/ (pc' = "row" /\ UNCHANGED locals /\ Len(r.rows) # 0)
  BY DEF Query
<1> QED BY <1>5, <1>6, <1>7, <1>8

(* Steps that read on, and leave the buffers as they are.                  *)
LEMMA ReadsOn ==
    ASSUME IInv, pc # "idle", pc' # "idle", UNCHANGED << reply, buffers, out >>,
           pc' \notin {"offs", "scalar", "starts", "record"},
           ShapeOK', CountsOK', Filled' = Filled, DecodedItems'
    PROVE  IInv'
<1>1. UNCHANGED << reply, rows, cells, offs, starts, blob, heap, out >>
  BY DEF buffers
<1>2. Filled \in Nat
  BY Sizes
<1>3. \A k \in 0 .. Filled' - 1 : k \in DOMAIN cells'.at /\ k \in DOMAIN offs'.at
  BY <1>1 DEF IInv, RowsOK
<1>4. RowsOK' /\ DecodedRows'
  BY <1>1, <1>2, <1>3, Framed
<1>5. BuffersOK' /\ IndicesInBounds' /\ NoLeak'
  BY <1>1 DEF IInv, BuffersOK, IndicesInBounds, NoLeak
<1> QED BY <1>4, <1>5 DEF IInv, ResultFaithful

LEMMA RowInv == IInv /\ Row => IInv'
<1> SUFFICES ASSUME IInv, Row PROVE IInv'
  OBVIOUS
<1>1. pc = "row" /\ UNCHANGED << reply, buffers, out >>
  BY DEF Row
<1>2. UNCHANGED << reply, rows, cells, offs, starts, blob, heap, out >>
  BY <1>1 DEF buffers
<1>3. CASE Return("JSON")
  BY <1>2, <1>3, ReturnInv DEF IInv, BuffersOK, NoLeak, ShapeOK
<1>4. CASE total' = 0 /\ summed' = 0 /\ Goto("sum") /\ UNCHANGED << item, inRow >>
  <2>1. pc' = "sum"
    BY <1>4 DEF Goto
  <2>2. ShapeOK'
    BY <1>1, <1>2, <1>4, <2>1 DEF IInv, ShapeOK, InRow
  <2>3. CountsOK' /\ Filled' = Filled
    BY <1>1, <1>2, <1>4, <2>1 DEF IInv, ShapeOK, CountsOK, InRow, Filled, End
  <2>4. DecodedItems'
    BY <2>1 DEF DecodedItems, InRow
  <2> QED BY <1>1, <2>1, <2>2, <2>3, <2>4, ReadsOn
<1> QED BY <1>3, <1>4 DEF Row

LEMMA SumInv == IInv /\ Sum => IInv'
<1> SUFFICES ASSUME IInv, Sum PROVE IInv'
  OBVIOUS
<1>1. pc = "sum" /\ UNCHANGED << reply, buffers, out >>
  BY DEF Sum
<1>2. UNCHANGED << reply, rows, cells, offs, starts, blob, heap, out >>
  BY <1>1 DEF buffers
<1>3. /\ \A n \in 0 .. out.count : End(n) \in Nat
      /\ Len(Items) \in Nat /\ out.count < Len(reply.rows) /\ out.count \in Nat
      /\ summed \in Nat /\ summed <= out.count /\ total = End(summed)
  <2>1. /\ out.count < Len(reply.rows) /\ out.count \in Nat
        /\ summed \in Nat /\ summed <= out.count /\ total = End(summed)
    BY <1>1 DEF IInv, ShapeOK, CountsOK
  <2>2. /\ \A n \in 0 .. out.count : End(n) \in Nat
        /\ Len(reply.rows) \in Nat
        /\ \A r \in 1 .. Len(reply.rows) : Len(reply.rows[r].items) \in Nat
    BY <1>1, Sizes
  <2>3. out.count + 1 \in 1 .. Len(reply.rows)
    BY <2>1, <2>2
  <2>4. Len(Items) \in Nat
    BY <2>2, <2>3 DEF Items, Current
  <2> QED BY <2>1, <2>2, <2>4
<1>4. CASE /\ summed < out.count /\ total' = total + rows.at[summed].count /\ summed' = summed + 1
           /\ UNCHANGED << item, inRow, pc, ret >>
  <2>1. total' = End(summed + 1) /\ total' \in Nat
    <3>1. summed \in 0 .. out.count - 1 /\ summed + 1 \in 0 .. out.count
      BY <1>3, <1>4
    <3>2. starts.at[summed] = End(summed)
      BY <1>1, <3>1 DEF IInv, RowsOK
    <3>3. End(summed + 1) = starts.at[summed] + rows.at[summed].count
      BY <1>3 DEF End
    <3> QED BY <1>3, <1>4, <3>1, <3>2, <3>3
  <2>2. ShapeOK'
    BY <1>1, <1>2, <1>4, <2>1 DEF IInv, ShapeOK, InRow
  <2>3. CountsOK'
    BY <1>1, <1>2, <1>3, <1>4, <2>1 DEF CountsOK, InRow, End
  <2>4. Filled' = Filled /\ DecodedItems'
    BY <1>1, <1>2, <1>4 DEF Filled, End, DecodedItems, InRow
  <2> QED BY <1>1, <1>4, <2>2, <2>3, <2>4, ReadsOn
<1>5. CASE summed >= out.count /\ item' = 1 /\ inRow' = 0 /\ Goto("field") /\ UNCHANGED << total, summed >>
  <2>1. pc' = "field" /\ summed = out.count
    BY <1>3, <1>5 DEF Goto
  <2>2. ShapeOK'
    <3>1. Items' = Items
      BY <1>2 DEF Items, Current
    <3>2. (item \in 1 .. Len(Items) + 1)'
      BY <1>3, <1>5, <3>1
    <3> QED BY <1>1, <1>2, <1>3, <1>5, <2>1, <3>2 DEF IInv, ShapeOK, InRow
  <2>3. CountsOK' /\ Filled' = Filled
    <3>1. Rank(Items, 0) = 0
      BY RankNone
    <3>2. End(out.count)' = End(out.count) /\ Items' = Items
      BY <1>2 DEF End, Items, Current
    <3>3. (total = End(out.count) + inRow /\ inRow = Rank(Items, item - 1))'
      <4>1. total = End(out.count) /\ total \in Nat
        BY <1>3, <2>1
      <4>2. inRow' = 0 /\ item' - 1 = 0 /\ total' = total
        BY <1>5
      <4> QED BY <3>1, <3>2, <4>1, <4>2
    <3>4. Filled' = Filled
      BY <1>1, <1>3, <1>5, <2>1 DEF Filled
    <3> QED BY <2>1, <3>3, <3>4 DEF CountsOK, InRow
  <2>4. DecodedItems'
    BY <1>5 DEF DecodedItems, KeptRow, CellItems
  <2> QED BY <1>1, <2>1, <2>2, <2>3, <2>4, ReadsOn
<1>6. summed < out.count \/ summed >= out.count
  BY <1>3
<1> QED BY <1>4, <1>5, <1>6 DEF Sum

(* What the invariant says inside a row.                                   *)
LEMMA Inside ==
    ASSUME IInv, pc \in InRow
    PROVE  /\ pc # "idle" /\ pc # "sum" /\ Filled = total /\ total \in Nat /\ inRow \in Nat
           /\ out.count \in Nat /\ out.count < Len(reply.rows) /\ Len(reply.rows) \in Nat
           /\ Len(Items) \in Nat /\ item \in 1 .. Len(Items) + 1
           /\ End(out.count) \in Nat /\ total = End(out.count) + inRow
           /\ inRow = Rank(Items, item - 1)
           /\ KeptRow(Items, End(out.count), item)
           /\ total <= cells.cap /\ total <= offs.cap
           /\ out.count <= rows.cap /\ out.count <= starts.cap
<1>1. pc # "idle" /\ pc # "sum"
  BY DEF InRow
<1>2. /\ total \in Nat /\ inRow \in Nat /\ out.count \in Nat /\ out.count < Len(reply.rows)
      /\ item \in 1 .. Len(Items) + 1
  BY DEF IInv, ShapeOK
<1>3. /\ Len(reply.rows) \in Nat /\ \A r \in 1 .. Len(reply.rows) : Len(reply.rows[r].items) \in Nat
      /\ \A n \in 0 .. out.count : End(n) \in Nat
      /\ Filled <= cells.cap /\ Filled <= offs.cap
      /\ out.count <= rows.cap /\ out.count <= starts.cap
  BY <1>1, Sizes
<1>4. Len(Items) \in Nat /\ End(out.count) \in Nat
  <2>1. out.count + 1 \in 1 .. Len(reply.rows) /\ out.count \in 0 .. out.count
    BY <1>2, <1>3
  <2> QED BY <1>3, <2>1 DEF Items, Current
<1>5. total = End(out.count) + inRow /\ inRow = Rank(Items, item - 1)
  BY DEF IInv, CountsOK
<1>6. KeptRow(Items, End(out.count), item)
  BY <1>1 DEF IInv, DecodedItems
<1>7. Filled = total
  BY <1>1 DEF Filled
<1> QED BY <1>1, <1>2, <1>3, <1>4, <1>5, <1>6, <1>7

(* A step inside a row that leaves the locals, and what was stored, alone. *)
LEMMA StaysInside ==
    ASSUME IInv, pc \in InRow, pc' \in InRow, UNCHANGED << reply, out, locals >>,
           rows'.at = rows.at, starts'.at = starts.at, blob'.at = blob.at,
           \A k \in 0 .. total - 1 : cells'.at[k] = cells.at[k] /\ k \in DOMAIN cells'.at,
           \A k \in 0 .. total - 1 : offs'.at[k] = offs.at[k] /\ k \in DOMAIN offs'.at,
           pc' \in {"offs", "scalar"} => AtPair,
           pc' \in {"growrows", "starts", "record"} => Ended,
           BuffersOK', IndicesInBounds', NoLeak'
    PROVE  IInv'
<1>1. UNCHANGED << item, total, summed, inRow >> /\ Filled = total /\ pc # "idle" /\ pc' # "idle"
      /\ pc' # "sum" /\ total \in Nat
  BY Inside DEF locals, InRow
<1>2. Filled' = total
  BY <1>1 DEF Filled
<1>3. Items' = Items /\ Current' = Current /\ (Ended' <=> Ended) /\ (AtPair' <=> AtPair)
  BY <1>1 DEF Items, Current, Ended, AtPair, Token
<1>4. /\ \A n : End(n)' = End(n)
      /\ RowsOK' /\ DecodedRows'
      /\ \A items, first, n : KeptRow(items, first, n) => KeptRow(items, first, n)'
  BY <1>1, <1>2, Framed
<1>5. ShapeOK'
  BY <1>1, <1>3 DEF IInv, ShapeOK, InRow
<1>6. CountsOK'
  BY <1>1, <1>3, <1>4 DEF IInv, CountsOK, InRow
<1>7. DecodedItems'
  <2>1. KeptRow(Items, End(out.count), item)
    BY Inside
  <2> QED BY <1>1, <1>3, <1>4, <2>1 DEF DecodedItems
<1>8. ResultFaithful'
  BY <1>1 DEF ResultFaithful
<1> QED BY <1>4, <1>5, <1>6, <1>7, <1>8 DEF IInv

LEMMA FieldInv == IInv /\ Field => IInv'
<1> SUFFICES ASSUME IInv, Field PROVE IInv'
  OBVIOUS
<1>1. pc = "field" /\ pc \in InRow /\ UNCHANGED << reply, buffers, out >>
  BY DEF Field, InRow
<1>2. UNCHANGED << reply, rows, cells, offs, starts, blob, heap, out >>
  BY <1>1 DEF buffers
<1>3. CASE Return("JSON")
  BY <1>2, <1>3, ReturnInv DEF IInv, BuffersOK, NoLeak, ShapeOK
<1>4. CASE Ended /\ Goto("growrows") /\ UNCHANGED locals
  <2>1. pc' = "growrows" /\ pc' \in InRow /\ pc # "idle"
    BY <1>1, <1>4 DEF Goto, InRow
  <2>2. BuffersOK' /\ IndicesInBounds' /\ NoLeak'
    BY <1>2, <2>1 DEF IInv, BuffersOK, IndicesInBounds, NoLeak
  <2>3. Filled = total
    BY <1>1, Inside
  <2> QED BY <1>1, <1>2, <1>4, <2>1, <2>2, <2>3, StaysInside DEF IInv, RowsOK
<1>5. CASE /\ ~Ended /\ Token.kind \in {"other", "cells"} /\ item' = item + 1
           /\ Goto(IF Token.kind = "cells" THEN "pair" ELSE "field")
           /\ UNCHANGED << total, summed, inRow >>
  <2>1. pc' \in {"field", "pair"} /\ pc' \in InRow /\ pc # "idle" /\ pc' # "idle"
    BY <1>1, <1>5 DEF Goto, InRow
  <2>2. Items' = Items /\ Current' = Current /\ End(out.count)' = End(out.count)
    BY <1>2 DEF Items, Current, End
  <2>3. item \in 1 .. Len(Items) /\ Len(Items) \in Nat /\ Items[item].kind # "cell"
    BY <1>1, <1>5, Inside DEF Ended, Token
  <2>4. ShapeOK'
    <3>1. (item \in 1 .. Len(Items) + 1)'
      BY <1>5, <2>2, <2>3
    <3> QED BY <1>1, <1>2, <1>5, <2>1, <3>1 DEF IInv, ShapeOK, InRow
  <2>5. CountsOK'
    <3>1. item - 1 \in Nat /\ (item - 1) + 1 = item /\ item' - 1 = item
      BY <1>5, <2>3
    <3>2. Rank(Items, item) = Rank(Items, item - 1)
      BY <2>3, <3>1, RankStep
    <3>3. total = End(out.count) + inRow /\ inRow = Rank(Items, item - 1)
      BY <1>1, Inside
    <3> QED BY <1>2, <1>5, <2>1, <2>2, <3>1, <3>2, <3>3 DEF CountsOK, InRow
  <2>6. Filled' = Filled
    BY <1>1, <1>5, <2>1 DEF Filled
  <2>7. DecodedItems'
    <3>1. KeptRow(Items, End(out.count), item)
      BY <1>1, Inside
    <3>2. \A i \in CellItems(Items) : i < item + 1 => i < item
      BY <2>3 DEF CellItems
    <3>3. KeptRow(Items, End(out.count), item + 1)
      BY <3>1, <3>2 DEF KeptRow
    <3>4. \A k, pair : Kept(k, pair) => Kept(k, pair)'
      BY <1>2, <2>6 DEF Kept
    <3>5. \A items, first, n : KeptRow(items, first, n) => KeptRow(items, first, n)'
      BY <3>4 DEF KeptRow
    <3> QED BY <1>2, <1>5, <2>2, <3>3, <3>5 DEF DecodedItems
  <2> QED BY <1>1, <2>1, <2>4, <2>5, <2>6, <2>7, ReadsOn
<1> QED BY <1>1, <1>3, <1>4, <1>5 DEF Field

LEMMA PairInv == IInv /\ Pair => IInv'
<1> SUFFICES ASSUME IInv, Pair PROVE IInv'
  OBVIOUS
<1>1. pc = "pair" /\ pc \in InRow /\ UNCHANGED << reply, rows, offs, starts, blob, out >>
  BY DEF Pair, InRow
<1>2. /\ total \in Nat /\ total <= cells.cap /\ Filled = total /\ pc # "idle"
      /\ IsBuffer(cells) /\ BuffersOK /\ NoLeak
  BY <1>1, Inside DEF IInv, BuffersOK
<1>3. \A k \in 0 .. total - 1 : k \in DOMAIN cells.at /\ k \in DOMAIN offs.at
  BY <1>2 DEF IInv, RowsOK
<1>4. ASSUME NEW code, code # "OK", Return(code), UNCHANGED << cells, heap >> PROVE IInv'
  BY <1>1, <1>4, ReturnInv DEF IInv, BuffersOK, NoLeak, ShapeOK
<1>5. CASE ~AtPair /\ Goto("field") /\ UNCHANGED << locals, cells, heap >>
  <2>1. pc' = "field" /\ pc' \in InRow
    BY <1>5 DEF Goto, InRow
  <2>2. BuffersOK' /\ IndicesInBounds' /\ NoLeak'
    BY <1>1, <1>5, <2>1 DEF IInv, BuffersOK, IndicesInBounds, NoLeak
  <2> QED BY <1>1, <1>3, <1>5, <2>1, <2>2, StaysInside
<1>6. ASSUME AtPair, NEW b \in WithRoom(cells, total + 1 > cells.cap, CellCap, total + 1),
             cells' = Store(b, total, [col |-> Token.col, tag |-> "null"]),
             heap' = Move("cells", cells, b), Goto("offs"), UNCHANGED locals
      PROVE  IInv'
  <2>1. pc' = "offs" /\ pc' \in InRow
    BY <1>6 DEF Goto, InRow
  <2>2. IsBuffer(b) /\ b.at = cells.at /\ total < b.cap
    <3> DEFINE full == total + 1 > cells.cap
    <3>1. full \in BOOLEAN /\ b \in WithRoom(cells, full, CellCap, total + 1)
      BY <1>6
    <3>2. /\ total + 1 \in Nat /\ total + 1 <= cells.cap + 1 /\ CellCap \in Nat \ {0}
          /\ full \/ total < cells.cap
      BY <1>2, DecodeAssumption DEF IsBuffer
    <3> HIDE DEF full
    <3> QED BY <1>2, <3>1, <3>2, RoomFor
  <2>3. /\ IsBuffer(cells') /\ cells'.gen = b.gen /\ cells'.cap = b.cap /\ total \in DOMAIN cells'.at
        /\ \A k \in DOMAIN b.at : k \in DOMAIN cells'.at /\ (k # total => cells'.at[k] = b.at[k])
    BY <1>2, <1>6, <2>2, Stored
  <2>4. NoLeak'
    <3>1. heap' = Allocated("rows", rows) \cup Allocated("cells", b)
                  \cup Allocated("offs", offs) \cup Allocated("starts", starts) \cup Allocated("blob", blob)
      BY <1>2, <1>6, <2>2, MovedEach
    <3>2. Allocated("cells", cells') = Allocated("cells", b)
      BY <2>3 DEF Allocated
    <3> QED BY <1>1, <3>1, <3>2 DEF NoLeak, Allocated
  <2>5. BuffersOK'
    BY <1>1, <1>2, <2>3 DEF BuffersOK, IsBuffer, InBounds
  <2>6. IndicesInBounds'
    <3>1. total' = total
      BY <1>6 DEF locals
    <3> QED BY <2>1, <2>2, <2>3, <2>5, <3>1 DEF IndicesInBounds, BuffersOK, IsBuffer
  <2>7. \A k \in 0 .. total - 1 : cells'.at[k] = cells.at[k] /\ k \in DOMAIN cells'.at
    BY <1>2, <1>3, <2>2, <2>3
  <2> QED BY <1>1, <1>3, <1>6, <2>1, <2>4, <2>5, <2>6, <2>7, StaysInside
<1> QED BY <1>1, <1>4, <1>5, <1>6 DEF Pair

LEMMA GrowOffsInv == IInv /\ GrowOffs => IInv'
<1> SUFFICES ASSUME IInv, GrowOffs PROVE IInv'
  OBVIOUS
<1>1. pc = "offs" /\ pc \in InRow /\ UNCHANGED << reply, rows, cells, starts, blob, out >>
  BY DEF GrowOffs, InRow
<1>2. /\ total \in Nat /\ total <= offs.cap /\ Filled = total /\ pc # "idle"
      /\ IsBuffer(offs) /\ BuffersOK /\ NoLeak /\ AtPair
  BY <1>1, Inside DEF IInv, BuffersOK, ShapeOK
<1>3. \A k \in 0 .. total - 1 : k \in DOMAIN cells.at /\ k \in DOMAIN offs.at
  BY <1>2 DEF IInv, RowsOK
<1>4. CASE Return("NOMEM") /\ UNCHANGED << offs, heap >>
  BY <1>1, <1>4, ReturnInv DEF IInv, BuffersOK, NoLeak, ShapeOK
<1>5. ASSUME NEW b \in WithRoom(offs, total + 1 > offs.cap, CellCap, total + 1),
             offs' = b, heap' = Move("offs", offs, b), Goto("scalar"), UNCHANGED locals
      PROVE  IInv'
  <2>1. pc' = "scalar" /\ pc' \in InRow /\ total' = total
    BY <1>5 DEF Goto, InRow, locals
  <2>2. IsBuffer(b) /\ b.at = offs.at /\ total < b.cap /\ b.cap # 0
    <3> DEFINE full == total + 1 > offs.cap
    <3>1. full \in BOOLEAN /\ b \in WithRoom(offs, full, CellCap, total + 1)
      BY <1>5
    <3>2. /\ total + 1 \in Nat /\ total + 1 <= offs.cap + 1 /\ CellCap \in Nat \ {0}
          /\ full \/ total < offs.cap
      BY <1>2, DecodeAssumption DEF IsBuffer
    <3> HIDE DEF full
    <3> QED BY <1>2, <3>1, <3>2, RoomFor
  <2>3. NoLeak'
    <3>1. heap' = Allocated("rows", rows) \cup Allocated("cells", cells)
                  \cup Allocated("offs", b) \cup Allocated("starts", starts) \cup Allocated("blob", blob)
      BY <1>2, <1>5, <2>2, MovedEach
    <3> QED BY <1>1, <1>5, <3>1 DEF NoLeak, Allocated
  <2>4. BuffersOK'
    BY <1>1, <1>2, <1>5, <2>2 DEF BuffersOK, IsBuffer, InBounds
  <2>5. IndicesInBounds'
    BY <1>1, <1>5, <2>1, <2>2, <2>4 DEF IInv, IndicesInBounds, BuffersOK, IsBuffer
  <2> QED BY <1>1, <1>2, <1>3, <1>5, <2>1, <2>2, <2>3, <2>4, <2>5, StaysInside
<1> QED BY <1>1, <1>4, <1>5 DEF GrowOffs

LEMMA GrowRowsInv == IInv /\ GrowRows => IInv'
<1> SUFFICES ASSUME IInv, GrowRows PROVE IInv'
  OBVIOUS
<1>1. pc = "growrows" /\ pc \in InRow /\ UNCHANGED << reply, cells, offs, starts, blob, out >>
  BY DEF GrowRows, InRow
<1>2. /\ out.count \in Nat /\ out.count <= rows.cap /\ Filled = total /\ pc # "idle"
      /\ IsBuffer(rows) /\ BuffersOK /\ NoLeak /\ Ended
  BY <1>1, Inside DEF IInv, BuffersOK, ShapeOK
<1>3. \A k \in 0 .. total - 1 : k \in DOMAIN cells.at /\ k \in DOMAIN offs.at
  BY <1>2 DEF IInv, RowsOK
<1>4. CASE Return("NOMEM") /\ UNCHANGED << rows, heap >>
  BY <1>1, <1>4, ReturnInv DEF IInv, BuffersOK, NoLeak, ShapeOK
<1>5. ASSUME NEW b \in WithRoom(rows, out.count = rows.cap, RowCap, 0),
             rows' = b, heap' = Move("rows", rows, b), Goto("starts"), UNCHANGED locals
      PROVE  IInv'
  <2>1. pc' = "starts" /\ pc' \in InRow
    BY <1>5 DEF Goto, InRow
  <2>2. IsBuffer(b) /\ b.at = rows.at /\ out.count < b.cap /\ b.cap # 0
    <3> DEFINE full == out.count = rows.cap
    <3>1. full \in BOOLEAN /\ b \in WithRoom(rows, full, RowCap, 0)
      BY <1>5
    <3>2. 0 <= rows.cap + 1 /\ RowCap \in Nat \ {0} /\ (full \/ out.count < rows.cap)
      BY <1>2, DecodeAssumption DEF IsBuffer
    <3> HIDE DEF full
    <3> QED BY <1>2, <3>1, <3>2, RoomFor
  <2>3. NoLeak'
    <3>1. heap' = Allocated("rows", b) \cup Allocated("cells", cells)
                  \cup Allocated("offs", offs) \cup Allocated("starts", starts) \cup Allocated("blob", blob)
      BY <1>2, <1>5, <2>2, MovedEach
    <3> QED BY <1>1, <1>5, <3>1 DEF NoLeak, Allocated
  <2>4. BuffersOK'
    BY <1>1, <1>2, <1>5, <2>2 DEF BuffersOK, IsBuffer, InBounds
  <2>5. IndicesInBounds'
    BY <1>1, <1>5, <2>1, <2>2, <2>4 DEF IndicesInBounds, BuffersOK, IsBuffer
  <2> QED BY <1>1, <1>2, <1>3, <1>5, <2>1, <2>2, <2>3, <2>4, <2>5, StaysInside
<1> QED BY <1>1, <1>4, <1>5 DEF GrowRows

LEMMA GrowStartsInv == IInv /\ GrowStarts => IInv'
<1> SUFFICES ASSUME IInv, GrowStarts PROVE IInv'
  OBVIOUS
<1>1. pc = "starts" /\ pc \in InRow /\ UNCHANGED << reply, rows, cells, offs, blob, out >>
  BY DEF GrowStarts, InRow
<1>2. /\ out.count \in Nat /\ out.count <= starts.cap /\ Filled = total /\ pc # "idle"
      /\ IsBuffer(starts) /\ BuffersOK /\ NoLeak /\ Ended
  BY <1>1, Inside DEF IInv, BuffersOK, ShapeOK
<1>3. \A k \in 0 .. total - 1 : k \in DOMAIN cells.at /\ k \in DOMAIN offs.at
  BY <1>2 DEF IInv, RowsOK
<1>4. CASE Return("NOMEM") /\ UNCHANGED << starts, heap >>
  BY <1>1, <1>4, ReturnInv DEF IInv, BuffersOK, NoLeak, ShapeOK
<1>5. ASSUME NEW b \in WithRoom(starts, out.count = starts.cap, RowCap, out.count + 1),
             starts' = b, heap' = Move("starts", starts, b), Goto("record"), UNCHANGED locals
      PROVE  IInv'
  <2>1. pc' = "record" /\ pc' \in InRow
    BY <1>5 DEF Goto, InRow
  <2>2. IsBuffer(b) /\ b.at = starts.at /\ out.count < b.cap /\ b.cap # 0
    <3> DEFINE full == out.count = starts.cap
    <3>1. full \in BOOLEAN /\ b \in WithRoom(starts, full, RowCap, out.count + 1)
      BY <1>5
    <3>2. /\ out.count + 1 \in Nat /\ out.count + 1 <= starts.cap + 1 /\ RowCap \in Nat \ {0}
          /\ full \/ out.count < starts.cap
      BY <1>2, DecodeAssumption DEF IsBuffer
    <3> HIDE DEF full
    <3> QED BY <1>2, <3>1, <3>2, RoomFor
  <2>3. NoLeak'
    <3>1. heap' = Allocated("rows", rows) \cup Allocated("cells", cells)
                  \cup Allocated("offs", offs) \cup Allocated("starts", b) \cup Allocated("blob", blob)
      BY <1>2, <1>5, <2>2, MovedEach
    <3> QED BY <1>1, <1>5, <3>1 DEF NoLeak, Allocated
  <2>4. BuffersOK'
    BY <1>1, <1>2, <1>5, <2>2 DEF BuffersOK, IsBuffer, InBounds
  <2>5. IndicesInBounds'
    BY <1>1, <1>5, <2>1, <2>2, <2>4 DEF IInv, IndicesInBounds, BuffersOK, IsBuffer
  <2> QED BY <1>1, <1>2, <1>3, <1>5, <2>1, <2>2, <2>3, <2>4, <2>5, StaysInside
<1> QED BY <1>1, <1>4, <1>5 DEF GrowStarts

(* A scalar that was decoded: its cell is behind those there are.          *)
LEMMA ScalarInv == IInv /\ Scalar => IInv'
<1> SUFFICES ASSUME IInv, Scalar PROVE IInv'
  OBVIOUS
<1>1. pc = "scalar" /\ pc \in InRow /\ UNCHANGED << reply, rows, starts, out >>
  BY DEF Scalar, InRow
<1>2. /\ total \in Nat /\ Filled = total /\ pc # "idle" /\ BuffersOK /\ NoLeak /\ AtPair
      /\ IsBuffer(cells) /\ IsBuffer(offs) /\ IsBuffer(blob)
      /\ total < cells.cap /\ total < offs.cap
  BY <1>1, Inside DEF IInv, BuffersOK, ShapeOK, IndicesInBounds
<1>3. ASSUME NEW x, offs' = Store(offs, total, x)
      PROVE  /\ IsBuffer(offs') /\ offs'.gen = offs.gen /\ offs'.cap = offs.cap
             /\ total \in DOMAIN offs'.at /\ offs'.at[total] = x
             /\ \A k \in DOMAIN offs.at : k \in DOMAIN offs'.at /\ (k # total => offs'.at[k] = offs.at[k])
  BY <1>2, <1>3, Stored
<1>4. ASSUME NEW x, StoreCell(x)
      PROVE  /\ IsBuffer(cells') /\ cells'.gen = cells.gen /\ cells'.cap = cells.cap
             /\ total \in DOMAIN cells'.at /\ cells'.at[total] = x
             /\ \A k \in DOMAIN cells.at : k \in DOMAIN cells'.at /\ (k # total => cells'.at[k] = cells.at[k])
  BY <1>2, <1>4, Stored DEF StoreCell
<1>5. CASE /\ Return("JSON") /\ offs' = Store(offs, total, -1) /\ UNCHANGED << cells, blob, heap >>
  <2>1. IsBuffer(offs') /\ offs'.gen = offs.gen /\ offs'.cap = offs.cap
    BY <1>3, <1>5
  <2>2. BuffersOK' /\ NoLeak'
    BY <1>1, <1>2, <1>5, <2>1 DEF BuffersOK, NoLeak, Allocated, IsBuffer, InBounds
  <2>3. out'.count \in Nat
    BY <1>1 DEF IInv, ShapeOK
  <2> QED BY <1>5, <2>2, <2>3, ReturnInv
<1>6. CASE /\ Number \/ Text
           /\ total' = total + 1 /\ inRow' = inRow + 1 /\ item' = item + 1
           /\ Goto("pair") /\ UNCHANGED summed
  <2>1. PICK v, x : StoreCell(v) /\ offs' = Store(offs, total, x)
    BY <1>6 DEF Number, Text
  <2>2. /\ IsBuffer(cells') /\ cells'.gen = cells.gen /\ cells'.cap = cells.cap
        /\ total \in DOMAIN cells'.at /\ cells'.at[total] = v
        /\ \A k \in DOMAIN cells.at : k \in DOMAIN cells'.at /\ (k # total => cells'.at[k] = cells.at[k])
    BY <1>4, <2>1
  <2>3. /\ IsBuffer(offs') /\ offs'.gen = offs.gen /\ offs'.cap = offs.cap
        /\ total \in DOMAIN offs'.at /\ offs'.at[total] = x
        /\ \A k \in DOMAIN offs.at : k \in DOMAIN offs'.at /\ (k # total => offs'.at[k] = offs.at[k])
    BY <1>3, <2>1
  <2>4. /\ IsBuffer(blob')
        /\ \A k \in DOMAIN blob.at : k \in DOMAIN blob'.at /\ blob'.at[k] = blob.at[k]
        /\ heap' = Allocated("rows", rows) \cup Allocated("cells", cells)
                   \cup Allocated("offs", offs) \cup Allocated("starts", starts) \cup Allocated("blob", blob')
        /\ Token.tag \in {"str", "json"} => blob.cap \in DOMAIN blob'.at /\ blob'.at[blob.cap] = Token.text
    <3>1. CASE Number
      <4>1. Token.tag = "num" /\ blob' = blob /\ heap' = heap
        BY <3>1 DEF Number
      <4> QED BY <1>2, <4>1 DEF NoLeak, IsBuffer, InBounds, Allocated
    <3>2. CASE Text
      <4>1. PICK b \in GrownTo(blob, blob.cap + 1) :
                blob' = Store(b, blob.cap, Token.text) /\ heap' = Move("blob", blob, b)
        BY <3>2 DEF Text
      <4>2. blob.cap \in Nat /\ blob.cap + 1 \in Nat /\ blob.cap + 1 >= blob.cap
            /\ \A k \in DOMAIN blob.at : k # blob.cap
        BY <1>2 DEF IsBuffer, InBounds
      <4>3. IsBuffer(b) /\ b.at = blob.at /\ b.cap = blob.cap + 1
        BY <1>2, <4>1, <4>2, Grows
      <4>4. blob.cap < b.cap /\ b.cap # 0
        BY <4>2, <4>3
      <4>5. /\ IsBuffer(blob') /\ blob'.gen = b.gen /\ blob'.cap = b.cap
            /\ blob.cap \in DOMAIN blob'.at /\ blob'.at[blob.cap] = Token.text
            /\ \A k \in DOMAIN b.at : k \in DOMAIN blob'.at /\ (k # blob.cap => blob'.at[k] = b.at[k])
        BY <4>1, <4>2, <4>3, <4>4, Stored
      <4>6. heap' = Allocated("rows", rows) \cup Allocated("cells", cells)
                   \cup Allocated("offs", offs) \cup Allocated("starts", starts) \cup Allocated("blob", b)
        BY <1>2, <4>1, <4>4, MovedEach
      <4>7. Allocated("blob", blob') = Allocated("blob", b)
        BY <4>5 DEF Allocated
      <4> QED BY <4>2, <4>3, <4>5, <4>6, <4>7
    <3> QED BY <1>6, <3>1, <3>2
  <2>5. BuffersOK'
    BY <1>1, <1>2, <2>2, <2>3, <2>4 DEF BuffersOK, IsBuffer, InBounds
  <2>6. NoLeak'
    BY <1>1, <2>2, <2>3, <2>4 DEF NoLeak, Allocated
  <2>7. pc' = "pair" /\ pc' \in InRow /\ pc' # "idle" /\ pc' # "sum"
    BY <1>6 DEF Goto, InRow
  <2>8. IndicesInBounds'
    BY <2>5, <2>7 DEF IndicesInBounds, BuffersOK, IsBuffer
  <2>9. Filled' = total + 1
    BY <1>6, <2>7 DEF Filled
  <2>10. \A k \in 0 .. total - 1 : k \in DOMAIN cells.at /\ k \in DOMAIN offs.at
    BY <1>2 DEF IInv, RowsOK
  <2>11. /\ \A n : End(n)' = End(n)
         /\ \A k, pair : Kept(k, pair) => Kept(k, pair)'
         /\ RowsOK' /\ DecodedRows'
    <3>1. \A k \in 0 .. Filled - 1 : cells'.at[k] = cells.at[k] /\ offs'.at[k] = offs.at[k]
      BY <1>2, <2>2, <2>3, <2>10
    <3>2. \A k \in 0 .. Filled' - 1 : k \in DOMAIN cells'.at /\ k \in DOMAIN offs'.at
      <4>1. \A k \in 0 .. Filled' - 1 : k = total \/ k \in 0 .. total - 1
        BY <1>2, <2>9
      <4> QED BY <2>2, <2>3, <2>10, <4>1
    <3>3. Filled' \in Nat /\ Filled <= Filled'
      BY <1>2, <2>9
    <3> QED BY <1>1, <1>2, <2>4, <2>7, <3>1, <3>2, <3>3, Framed
  <2>12. ASSUME NEW k, NEW pair, k = total, pair = Token PROVE Kept(k, pair)'
    <3>1. k \in 0 .. Filled' - 1
      BY <1>2, <2>9, <2>12
    <3>2. CASE Number
      <4>1. pair.tag = "num" /\ cells'.at[k] = [col |-> pair.col, tag |-> "num", text |-> pair.text]
        BY <1>4, <2>12, <3>2 DEF Number
      <4> QED BY <3>1, <4>1 DEF Kept
    <3>3. CASE Text
      <4>1. pair.tag \in {"str", "json"} /\ offs'.at[k] = blob.cap
        BY <1>3, <2>12, <3>3 DEF Text
      <4>2. PICK p : StoreCell([col |-> Token.col, tag |-> Token.tag, ptr |-> p])
        BY <3>3 DEF Text
      <4>3. cells'.at[k] = [col |-> pair.col, tag |-> pair.tag, ptr |-> p]
        BY <1>4, <2>12, <4>2
      <4>4. cells'.at[k] = [col |-> pair.col, tag |-> pair.tag, ptr |-> cells'.at[k].ptr]
        BY <4>3
      <4>5. blob.cap \in DOMAIN blob'.at /\ blob'.at[blob.cap] = pair.text
        BY <2>4, <2>12, <4>1
      <4> QED BY <3>1, <4>1, <4>4, <4>5 DEF Kept
    <3> QED BY <1>6, <3>2, <3>3
  <2>13. /\ Items' = Items /\ Current' = Current /\ item \in 1 .. Len(Items) /\ Len(Items) \in Nat
         /\ Token = Items[item] /\ Items[item].kind = "cell"
    <3>1. item \in 1 .. Len(Items) + 1 /\ item # Len(Items) + 1 /\ Len(Items) \in Nat
      BY <1>1, <1>2, Inside DEF AtPair, Ended
    <3> QED BY <1>1, <1>2, <3>1 DEF Items, Current, Token, AtPair
  <2>14. item - 1 \in Nat /\ (item - 1) + 1 = item /\ item' - 1 = item
    BY <1>6, <2>13
  <2>15. /\ total = End(out.count) + inRow /\ inRow = Rank(Items, item - 1) /\ inRow \in Nat
         /\ End(out.count) \in Nat /\ out.count \in Nat
         /\ KeptRow(Items, End(out.count), item)
    BY <1>1, Inside
  <2>16. Rank(Items, item) = inRow + 1
    BY <2>13, <2>14, <2>15, RankStep
  <2>17. ShapeOK'
    <3>1. (item \in 1 .. Len(Items) + 1)'
      BY <1>6, <2>13
    <3>2. total' \in Nat /\ inRow' \in Nat
      BY <1>2, <1>6, <2>15
    <3> QED BY <1>1, <1>6, <2>7, <3>1, <3>2 DEF IInv, ShapeOK, InRow, Goto
  <2>18. CountsOK'
    <3>1. total' = End(out.count) + inRow' /\ inRow' = Rank(Items, item' - 1)
      BY <1>6, <2>14, <2>15, <2>16
    <3> QED BY <1>1, <2>7, <2>11, <2>13, <3>1 DEF CountsOK, InRow
  <2>19. DecodedItems'
    <3> SUFFICES ASSUME NEW i \in CellItems(Items), i < item + 1, NEW k, NEW pair,
                        k = End(out.count) + Rank(Items, i) - 1, pair = Items[i]
                 PROVE  Kept(k, pair)'
      BY <1>1, <1>6, <2>11, <2>13 DEF DecodedItems, KeptRow
    <3>1. CASE i < item
      <4>1. Kept(k, pair)
        BY <2>15, <3>1 DEF KeptRow
      <4> QED BY <2>11, <4>1
    <3>2. CASE i = item
      <4>1. k = total /\ pair = Token
        BY <2>13, <2>15, <2>16, <3>2
      <4> QED BY <2>12, <4>1
    <3>3. i \in Nat /\ item \in Nat
      BY <2>13 DEF CellItems
    <3> QED BY <3>1, <3>2, <3>3
  <2> QED BY <1>2, <2>5, <2>6, <2>7, <2>8, <2>11, <2>17, <2>18, <2>19 DEF IInv, ResultFaithful
<1> QED BY <1>1, <1>5, <1>6 DEF Scalar

(* The row is recorded behind the rows so far, with its cells.             *)
LEMMA RecordInv == IInv /\ Record => IInv'
<1> SUFFICES ASSUME IInv, Record, NEW n, n = out.count PROVE IInv'
  OBVIOUS
<1>1. /\ pc = "record" /\ pc \in InRow /\ UNCHANGED << reply, cells, offs, blob, heap, item, total, summed, inRow >>
      /\ starts' = Store(starts, n, total - inRow)
      /\ rows' = Store(rows, n, [count |-> inRow, cells |-> NULL])
      /\ out' = [count |-> n + 1, rows |-> rows.gen]
  BY DEF Record, InRow, locals, RowCellStart
<1>2. /\ n \in Nat /\ n < Len(reply.rows) /\ Len(reply.rows) \in Nat /\ Filled = total /\ pc # "idle"
      /\ total \in Nat /\ inRow \in Nat /\ End(n) \in Nat /\ total = End(n) + inRow
      /\ inRow = Rank(Items, item - 1) /\ KeptRow(Items, End(n), item) /\ Len(Items) \in Nat
      /\ BuffersOK /\ NoLeak /\ Ended /\ IsBuffer(rows) /\ IsBuffer(starts)
      /\ n < rows.cap /\ n < starts.cap
  BY <1>1, Inside DEF IInv, BuffersOK, ShapeOK, IndicesInBounds
<1>n. n \in Nat /\ n < Len(reply.rows) /\ Len(reply.rows) \in Nat
  BY <1>2
<1>c. out'.count = n + 1
  BY <1>1
<1>3. pc' = (IF n + 1 = Len(reply.rows) THEN "resolve" ELSE "row")
  BY DEF Record, Goto
<1>4. /\ IsBuffer(rows') /\ rows'.gen = rows.gen /\ rows'.cap = rows.cap
      /\ n \in DOMAIN rows'.at /\ rows'.at[n] = [count |-> inRow, cells |-> NULL]
      /\ \A k \in DOMAIN rows.at : k \in DOMAIN rows'.at /\ (k # n => rows'.at[k] = rows.at[k])
  <2> DEFINE x == [count |-> inRow, cells |-> NULL]
  <2>1. rows' = Store(rows, n, x) /\ IsBuffer(rows) /\ n \in Nat /\ n < rows.cap
    BY <1>1, <1>2
  <2> HIDE DEF x
  <2>2. /\ IsBuffer(rows') /\ rows'.gen = rows.gen /\ rows'.cap = rows.cap
        /\ n \in DOMAIN rows'.at /\ rows'.at[n] = x
        /\ \A k \in DOMAIN rows.at : k \in DOMAIN rows'.at /\ (k # n => rows'.at[k] = rows.at[k])
    BY <2>1, Stored
  <2> QED BY <2>2 DEF x
<1>5. /\ IsBuffer(starts') /\ starts'.gen = starts.gen /\ starts'.cap = starts.cap
      /\ n \in DOMAIN starts'.at /\ starts'.at[n] = total - inRow
      /\ \A k \in DOMAIN starts.at : k \in DOMAIN starts'.at /\ (k # n => starts'.at[k] = starts.at[k])
  <2> DEFINE x == total - inRow
  <2>1. starts' = Store(starts, n, x) /\ IsBuffer(starts) /\ n \in Nat /\ n < starts.cap
    BY <1>1, <1>2
  <2> HIDE DEF x
  <2>2. /\ IsBuffer(starts') /\ starts'.gen = starts.gen /\ starts'.cap = starts.cap
        /\ n \in DOMAIN starts'.at /\ starts'.at[n] = x
        /\ \A k \in DOMAIN starts.at : k \in DOMAIN starts'.at /\ (k # n => starts'.at[k] = starts.at[k])
    BY <2>1, Stored
  <2> QED BY <2>2 DEF x
<1>6. out'.count = n + 1 /\ out'.rows = rows'.gen /\ total - inRow = End(n)
  BY <1>1, <1>2, <1>4
<1>7. \A r \in 0 .. n - 1 :
          /\ r \in DOMAIN rows.at /\ r \in DOMAIN starts.at
          /\ rows.at[r] = [count |-> rows.at[r].count, cells |-> NULL]
          /\ rows.at[r].count \in Nat /\ starts.at[r] \in Nat
          /\ starts.at[r] = End(r) /\ End(r + 1) <= total
  BY <1>2 DEF IInv, RowsOK
<1>8. \A r \in 0 .. n - 1 : rows'.at[r] = rows.at[r] /\ starts'.at[r] = starts.at[r]
  <2> SUFFICES ASSUME NEW r \in 0 .. n - 1
               PROVE  rows'.at[r] = rows.at[r] /\ starts'.at[r] = starts.at[r]
    OBVIOUS
  <2>1. r # n
    BY <1>2
  <2>2. r \in DOMAIN rows.at /\ r \in DOMAIN starts.at
    BY <1>7
  <2>3. rows'.at[r] = rows.at[r]
    BY <1>4, <2>1, <2>2
  <2>4. starts'.at[r] = starts.at[r]
    BY <1>5, <2>1, <2>2
  <2> QED BY <2>3, <2>4
<1>9. \A r \in 0 .. n : End(r)' = End(r)
  <2> SUFFICES ASSUME NEW r \in 0 .. n PROVE End(r)' = End(r)
    OBVIOUS
  <2>1. CASE r = 0
    BY <2>1 DEF End
  <2>2. CASE r # 0
    <3>1. r - 1 \in 0 .. n - 1
      BY <1>2, <2>2
    <3> QED BY <1>8, <2>2, <3>1 DEF End
  <2> QED BY <2>1, <2>2
<1>10. End(n + 1)' = total
  <2>1. n + 1 # 0 /\ (n + 1) - 1 = n
    BY <1>2
  <2>2. End(n + 1)' = starts'.at[n] + rows'.at[n].count
    BY <2>1 DEF End
  <2> QED BY <1>2, <1>4, <1>5, <2>2
<1>11. pc' \in {"row", "resolve"} /\ pc' # "idle" /\ pc' # "sum" /\ pc' \notin InRow
  BY <1>3 DEF InRow
<1>12. Filled' = total
  BY <1>1, <1>11 DEF Filled
<1>13. BuffersOK' /\ NoLeak'
  <2>1. BuffersOK'
    <3>1. IsBuffer(cells)' /\ IsBuffer(offs)' /\ IsBuffer(blob)'
      BY <1>1, <1>2 DEF BuffersOK, IsBuffer, InBounds
    <3>2. IsBuffer(rows)' /\ IsBuffer(starts)'
      BY <1>4, <1>5
    <3> QED BY <3>1, <3>2 DEF BuffersOK
  <2>2. Allocated("rows", rows') = Allocated("rows", rows)
        /\ Allocated("starts", starts') = Allocated("starts", starts)
    BY <1>4, <1>5 DEF Allocated
  <2>3. NoLeak'
    BY <1>1, <1>2, <2>2 DEF NoLeak
  <2> QED BY <2>1, <2>3
<1>14. IndicesInBounds'
  BY <1>11, <1>13 DEF IndicesInBounds, BuffersOK, IsBuffer
<1>15. ShapeOK'
  <2>1. out'.count \in Nat /\ (pc' = "row" => out'.count < Len(reply.rows))
        /\ (pc' = "resolve" => out'.count = Len(reply.rows))
    BY <1>n, <1>c, <1>3
  <2>2. pc' \notin {"offs", "scalar", "growrows", "starts", "record"}
    BY <1>11
  <2>3. reply \in Replies /\ summed \in Nat
    BY <1>2 DEF IInv, ShapeOK
  <2> QED BY <1>1, <1>2, <1>6, <1>11, <2>1, <2>2, <2>3 DEF ShapeOK
<1>16. CountsOK'
  BY <1>1, <1>6, <1>10, <1>11 DEF CountsOK
<1>17. RowsOK'
  <2>1. \A k \in 0 .. total - 1 : k \in DOMAIN cells.at /\ k \in DOMAIN offs.at
    BY <1>2 DEF IInv, RowsOK
  <2>2. ASSUME NEW r \in 0 .. n
        PROVE  /\ r \in DOMAIN rows'.at /\ r \in DOMAIN starts'.at
               /\ rows'.at[r] = [count |-> rows'.at[r].count, cells |-> NULL]
               /\ rows'.at[r].count \in Nat /\ starts'.at[r] \in Nat
               /\ starts'.at[r] = End(r)' /\ End(r + 1)' <= total
    <3>1. CASE r = n
      BY <1>2, <1>4, <1>5, <1>6, <1>9, <1>10, <3>1
    <3>2. CASE r # n
      <4>1. r \in 0 .. n - 1 /\ r + 1 \in 0 .. n
        BY <1>2, <3>2
      <4> QED BY <1>4, <1>5, <1>7, <1>8, <1>9, <4>1
    <3> QED BY <3>1, <3>2
  <2>3. 0 .. out'.count - 1 = 0 .. n
    <3>1. out'.count - 1 = n
      BY <1>n, <1>c
    <3> QED BY <3>1
  <2> QED BY <1>1, <1>12, <2>1, <2>2, <2>3 DEF RowsOK
<1>18. DecodedRows'
  <2>1. \A k, pair : Kept(k, pair) => Kept(k, pair)'
    BY <1>1, <1>2, <1>12 DEF Kept
  <2>2. \A items, first, m : KeptRow(items, first, m) => KeptRow(items, first, m)'
    BY <2>1 DEF KeptRow
  <2> SUFFICES ASSUME NEW r \in 1 .. n + 1, NEW items, items = reply.rows[r].items
               PROVE  /\ rows'.at[r - 1].count = Rank(items, Len(items))
                      /\ KeptRow(items, starts.at[r - 1], Len(items) + 1)'
    BY <1>1, <1>6 DEF DecodedRows
  <2>3. CASE r = n + 1
    <3>1. items = Items /\ r - 1 = n /\ Len(items) + 1 = item /\ item - 1 = Len(items)
      <4>1. r - 1 = n
        BY <1>n, <2>3
      <4>2. items = Items
        BY <1>n, <2>3 DEF Items, Current
      <4>3. item = Len(Items) + 1 /\ Len(Items) \in Nat
        BY <1>2 DEF Ended
      <4> QED BY <4>1, <4>2, <4>3
    <3>2. starts'.at[r - 1] = End(n) /\ rows'.at[r - 1].count = inRow
      BY <1>4, <1>5, <1>6, <3>1
    <3>3. inRow = Rank(items, Len(items))
      BY <1>2, <3>1
    <3>4. KeptRow(items, End(n), Len(items) + 1)
      BY <1>2, <3>1
    <3>5. \A first : first = End(n) => KeptRow(items, first, Len(items) + 1)'
      BY <2>2, <3>4
    <3> QED BY <3>2, <3>3, <3>5 DEF KeptRow
  <2>4. CASE r # n + 1
    <3>1. r \in 1 .. n /\ r - 1 \in 0 .. n - 1
      BY <1>2, <2>4
    <3>2. rows.at[r - 1].count = Rank(items, Len(items)) /\ KeptRow(items, starts.at[r - 1], Len(items) + 1)
      BY <1>2, <3>1 DEF IInv, DecodedRows
    <3>3. \A first : first = starts.at[r - 1] => KeptRow(items, first, Len(items) + 1)'
      BY <2>2, <3>2
    <3> QED BY <1>8, <3>1, <3>2, <3>3 DEF KeptRow
  <2> QED BY <2>3, <2>4
<1> QED BY <1>11, <1>13, <1>14, <1>15, <1>16, <1>17, <1>18 DEF IInv, DecodedItems, ResultFaithful

(* Offsets become pointers into buffers that do not move any more.         *)
LEMMA ResolveInv == IInv /\ Resolve => IInv'
<1> SUFFICES ASSUME IInv, Resolve PROVE IInv'
  OBVIOUS
<1> DEFINE n == out.count
           newRows == [r \in 0 .. n - 1 |-> [rows.at[r] EXCEPT !.cells = Slice(r)]]
           newCells == [i \in 0 .. total - 1 |-> Rebased(i)]
<1>1. /\ pc = "resolve" /\ pc' = "idle" /\ ret' = "OK" /\ total' = 0 /\ summed' = 0 /\ inRow' = 0
      /\ UNCHANGED << reply, offs, starts, blob, heap, out >>
      /\ rows' = [rows EXCEPT !.at = newRows] /\ cells' = [cells EXCEPT !.at = newCells]
  BY DEF Resolve, Return
<1>2. /\ n \in Nat /\ n = Len(reply.rows) /\ total \in Nat /\ out.rows = rows.gen
      /\ BuffersOK /\ NoLeak /\ IsBuffer(rows) /\ IsBuffer(cells) /\ IsBuffer(offs) /\ IsBuffer(blob)
      /\ total <= cells.cap /\ n <= rows.cap /\ Filled = total
  BY <1>1, Sizes DEF IInv, BuffersOK, ShapeOK, Filled
<1>3. /\ IsBuffer(rows') /\ rows'.gen = rows.gen /\ rows'.cap = rows.cap /\ rows'.at = newRows
      /\ IsBuffer(cells') /\ cells'.gen = cells.gen /\ cells'.cap = cells.cap /\ cells'.at = newCells
  <2>a. DOMAIN newRows = 0 .. n - 1 /\ DOMAIN newCells = 0 .. total - 1
    OBVIOUS
  <2>b. rows.cap \in Nat /\ cells.cap \in Nat
    BY <1>2 DEF IsBuffer
  <2>1. DOMAIN newRows \subseteq 0 .. rows.cap - 1 /\ DOMAIN newCells \subseteq 0 .. cells.cap - 1
    <3> HIDE DEF newRows, newCells, n
    <3>1. n \in Nat /\ n <= rows.cap /\ total \in Nat /\ total <= cells.cap
      BY <1>2
    <3> QED BY <2>a, <2>b, <3>1
  <2> HIDE DEF newRows, newCells
  <2>2. /\ rows' = [gen |-> rows.gen, cap |-> rows.cap, at |-> newRows]
        /\ cells' = [gen |-> cells.gen, cap |-> cells.cap, at |-> newCells]
    BY <1>1, <1>2 DEF IsBuffer
  <2> QED BY <1>2, <2>1, <2>2 DEF IsBuffer, InBounds
<1> HIDE DEF newRows, newCells, n
<1>4. BuffersOK' /\ NoLeak'
  BY <1>1, <1>2, <1>3 DEF BuffersOK, NoLeak, Allocated, IsBuffer, InBounds
<1>5. IndicesInBounds'
  BY <1>1, <1>4 DEF IndicesInBounds, BuffersOK, IsBuffer
<1>6. ShapeOK' /\ CountsOK' /\ RowsOK'
  BY <1>1, <1>2 DEF ShapeOK, CountsOK, RowsOK, InRow, n
<1>7. ASSUME NEW k, NEW pair, Kept(k, pair) PROVE Says(k, pair)'
  <2>1. k \in 0 .. total - 1
    BY <1>2, <1>7 DEF Kept
  <2>2. k \in DOMAIN cells'.at /\ cells'.at[k] = Rebased(k)
    BY <1>3, <2>1 DEF newCells
  <2>3. CASE pair.tag = "num"
    <3>1. cells.at[k] = [col |-> pair.col, tag |-> "num", text |-> pair.text]
      BY <1>7, <2>3 DEF Kept
    <3>2. Rebased(k) = cells.at[k]
      BY <3>1 DEF Rebased
    <3> QED BY <2>2, <2>3, <3>1, <3>2 DEF Says
  <2>4. CASE pair.tag # "num"
    <3>1. /\ cells.at[k] = [col |-> pair.col, tag |-> pair.tag, ptr |-> cells.at[k].ptr]
          /\ offs.at[k] \in DOMAIN blob.at /\ blob.at[offs.at[k]] = pair.text
          /\ pair.tag \in {"str", "json"}
      BY <1>7, <2>4 DEF Kept
    <3>2. offs.at[k] # -1
      BY <1>2, <3>1 DEF IsBuffer, InBounds
    <3>3. Rebased(k) = [col |-> pair.col, tag |-> pair.tag,
                        ptr |-> [gen |-> blob.gen, at |-> offs.at[k]]]
      BY <3>1, <3>2 DEF Rebased
    <3> QED BY <1>1, <2>2, <2>4, <3>1, <3>3 DEF Says
  <2> QED BY <2>3, <2>4
<1>8. ResultFaithful'
  <2> SUFFICES ASSUME NEW r \in 1 .. n, NEW items, items = reply.rows[r].items
               PROVE  /\ out.rows = rows'.gen /\ r - 1 \in DOMAIN rows'.at
                      /\ rows'.at[r - 1].count = Rank(items, Len(items))
                      /\ \A i \in CellItems(items) :
                            /\ rows'.at[r - 1].cells.gen = cells'.gen
                            /\ Says(rows.at[r - 1].cells.at + Rank(items, i) - 1, items[i])'
    BY <1>1, <1>2 DEF ResultFaithful, n
  <2>1. r - 1 \in 0 .. n - 1
    BY <1>2
  <2>2. /\ rows.at[r - 1] = [count |-> rows.at[r - 1].count, cells |-> NULL]
        /\ rows.at[r - 1].count = Rank(items, Len(items))
        /\ KeptRow(items, starts.at[r - 1], Len(items) + 1)
    BY <1>1, <2>1 DEF IInv, RowsOK, DecodedRows, n
  <2>3. r - 1 \in DOMAIN rows'.at /\ rows'.at[r - 1] = [count |-> Rank(items, Len(items)), cells |-> Slice(r - 1)]
    BY <1>3, <2>1, <2>2 DEF newRows
  <2>4. Len(items) \in Nat
    BY <1>1, <1>2, Sizes DEF n
  <2>5. ASSUME NEW i \in CellItems(items)
        PROVE  /\ rows'.at[r - 1].cells.gen = cells'.gen
               /\ Says(rows.at[r - 1].cells.at + Rank(items, i) - 1, items[i])'
    <3>1. i \in 1 .. Len(items) /\ items[i].kind = "cell" /\ i < Len(items) + 1
      BY <2>4 DEF CellItems
    <3>2. rows.at[r - 1].count # 0
      BY <2>2, <2>4, <3>1, RankOfPair, RankType
    <3>3. Slice(r - 1) = [gen |-> cells.gen, at |-> starts.at[r - 1]]
      BY <3>2 DEF Slice
    <3>4. Kept(starts.at[r - 1] + Rank(items, i) - 1, items[i])
      BY <2>2, <3>1 DEF KeptRow
    <3>5. \A k : k = starts.at[r - 1] + Rank(items, i) - 1 => Says(k, items[i])'
      BY <1>7, <3>4
    <3>6. rows'.at[r - 1].cells.gen = cells'.gen /\ rows'.at[r - 1].cells.at = starts.at[r - 1]
      BY <1>3, <2>3, <3>3
    <3> QED BY <3>5, <3>6 DEF Says
  <2> QED BY <1>2, <1>3, <2>3, <2>5
<1> QED BY <1>1, <1>4, <1>5, <1>6, <1>8 DEF IInv

LEMMA NextInv == IInv /\ [Next]_vars => IInv'
<1> SUFFICES ASSUME IInv, [Next]_vars PROVE IInv'
  OBVIOUS
<1>1. CASE Next
  BY <1>1, RequestFailsInv, QueryInv, RowInv, SumInv, FieldInv, PairInv, GrowOffsInv, ScalarInv,
     GrowRowsInv, GrowStartsInv, RecordInv, ResolveInv DEF Next
<1>2. CASE UNCHANGED vars
  <2>1. BuffersOK' /\ IndicesInBounds' /\ NoLeak'
    BY <1>2 DEF vars, IInv, BuffersOK, IndicesInBounds, NoLeak
  <2>2. ShapeOK' /\ CountsOK'
    BY <1>2 DEF vars, IInv, ShapeOK, CountsOK, End, Items, Current, Ended, AtPair, Token
  <2>3. \A n : End(n)' = End(n)
    BY <1>2 DEF vars, End
  <2>4. Filled' = Filled
    BY <1>2, <2>3 DEF vars, Filled
  <2>5. \A k, pair : (Kept(k, pair)' <=> Kept(k, pair)) /\ (Says(k, pair)' <=> Says(k, pair))
    BY <1>2, <2>4 DEF vars, Kept, Says
  <2>6. RowsOK'
    BY <1>2, <2>3, <2>4 DEF vars, IInv, RowsOK
  <2>7. \A items, first, n : KeptRow(items, first, n)' <=> KeptRow(items, first, n)
    BY <2>5 DEF KeptRow
  <2>8. pc # "idle" => DecodedRows' /\ DecodedItems'
    BY <1>2, <2>3, <2>7 DEF vars, IInv, DecodedRows, DecodedItems, Items, Current
  <2>9. ResultFaithful'
    BY <1>2, <2>5 DEF vars, IInv, ResultFaithful
  <2>10. pc' = pc
    BY <1>2 DEF vars
  <2> QED BY <2>1, <2>2, <2>6, <2>8, <2>9, <2>10 DEF IInv
<1> QED BY <1>1, <1>2

LEMMA Invariance == Spec => []IInv
BY InitInv, NextInv, PTL DEF Spec

(* A result handed out with MDB_OK holds the reply's rows, columns and     *)
(* values in order, and every pointer in it leads to where its buffer is   *)
(* now.                                                                    *)
THEOREM RowsAreFaithful == Spec => []ResultFaithful
<1>1. IInv => ResultFaithful
  BY DEF IInv
<1> QED BY <1>1, Invariance, PTL

(* The decoder writes inside its four buffers, which grow apart.           *)
THEOREM WritesInBounds == Spec => []IndicesInBounds
<1>1. IInv => IndicesInBounds
  BY DEF IInv
<1> QED BY <1>1, Invariance, PTL

(* Every block allocated for rows is one that the client still points at.  *)
THEOREM NothingLeaks == Spec => []NoLeak
<1>1. IInv => NoLeak
  BY DEF IInv
<1> QED BY <1>1, Invariance, PTL
==============================================================================
