---------------------------- MODULE QueryDecode -----------------------------
(***************************************************************************)
(* mongreldb_query_page after the reply arrived: the rows are decoded into *)
(* five growing buffers that the client owns, any of which may move while  *)
(* rows that were already decoded refer to it.  The code therefore records *)
(* offsets while it parses and turns them into pointers once all buffers   *)
(* have stopped moving.                                                    *)
(*                                                                         *)
(* A row is the items mongreldb_query_page consumes from left to right; a  *)
(* block of memory is a buffer's name and a generation that changes when   *)
(* realloc moves it; a pointer is a generation and an index.  A string of  *)
(* values_blob is one element: that an sbuf keeps its bytes while it moves *)
(* is what Sbuf shows.                                                     *)
(***************************************************************************)
EXTENDS Integers, Sequences, FiniteSetsExt

CONSTANTS
    Replies,    \* The replies the daemon may give.
    CellCap,    \* First capacity of the cell buffers: 16 in the code.
    RowCap,     \* First capacity of the row buffers: 8 in the code.
    Faults,     \* The buffers whose realloc may fail.
    NULL

(* reply : [kind : {"rows", "norows", "broken", "garbage"}, rows : Seq(row)] *)
(*         "garbage" is a body that is not a JSON object at all            *)
(* row   : [kind : {"row", "bad"}, items : Seq(item)]                      *)
(* item  : [kind : {"cells", "other", "bad"}], where "cells" opens an      *)
(*         array, whose pairs follow it, and "other" is a field to skip,   *)
(*         or a pair [kind : {"cell"}, col, tag, text], where tag is       *)
(*         "str", "json", "num", "badcol" or "badval"                      *)
(* "bad" stands for any token the parser refuses at that place.            *)

ASSUME DecodeAssumption ==
    /\ CellCap \in Nat \ {0} /\ RowCap \in Nat \ {0}
    /\ Faults \subseteq {"rows", "cells", "offs", "starts", "blob"}
    /\ \A r \in Replies :
          /\ Len(r.rows) \in Nat
          /\ r.kind \in {"norows", "broken", "garbage"} => Len(r.rows) = 0
          /\ \A n \in 1 .. Len(r.rows) : Len(r.rows[n].items) \in Nat

VARIABLES
    pc,         \* Where the call is, or "idle".
    reply,      \* The reply being decoded.
    item,       \* What the cursor reads next: an item of the current row.
    rows,       \* c->rows_arr, c->rows_cap
    cells,      \* c->cells_arr, c->cells_cap
    offs,       \* c->cell_str_offs, c->cell_str_offs_cap
    starts,     \* c->row_cell_starts, c->row_cell_starts_cap
    blob,       \* c->values_blob; its cap is how many strings it holds.
    heap,       \* The blocks of these buffers that are allocated.
    total,      \* Local total_cells.
    summed,     \* Local r of the loop that adds up total_cells.
    inRow,      \* Local cells_in_row.
    out,        \* *out_result: count and the rows pointer.
    ret         \* Result of the last call.

buffers == << rows, cells, offs, starts, blob, heap >>
locals == << item, total, summed, inRow >>
vars == << pc, reply, item, rows, cells, offs, starts, blob, heap, total,
           summed, inRow, out, ret >>

(* at gives what was written, by its 0-based index.                        *)
Fresh == [gen |-> 0, cap |-> 0, at |-> [i \in {} |-> NULL]]

Empty == [count |-> 0, rows |-> NULL]

(* The buffer b after realloc to n entries: in place, or moved.            *)
GrownTo(b, n) == {[b EXCEPT !.cap = n, !.gen = g] :
                     g \in {b.gen + 1} \cup (IF b.cap = 0 THEN {} ELSE {b.gen})}

(* base, doubled until k entries fit.                                      *)
Doubled(base, k) == IF base >= k THEN base
                    ELSE Min({c \in {base * 2^j : j \in 1 .. k} : c >= k})

(* Mutant: one entry late.                                                 *)
WithRoomLate(b, full, first, k) ==
    IF ~full \/ (b.cap > 0 /\ k = b.cap + 1) THEN {b}
    ELSE GrownTo(b, Doubled(IF b.cap = 0 THEN first ELSE 2 * b.cap, k))

(* b, or what realloc makes of it when it is full.                         *)
WithRoom(b, full, first, k) ==
    IF ~full THEN {b}
    ELSE GrownTo(b, Doubled(IF b.cap = 0 THEN first ELSE 2 * b.cap, k))

Move(name, old, new) == (heap \ {<< name, old.gen >>}) \cup {<< name, new.gen >>}

(* b[i] = x                                                                *)
Store(b, i, x) ==
    [b EXCEPT !.at = [k \in DOMAIN @ \cup {i} |-> IF k = i THEN x ELSE @[k]]]

Return(code) == /\ pc' = "idle" /\ ret' = code
                /\ item' = 0 /\ total' = 0 /\ summed' = 0 /\ inRow' = 0

Goto(next) == pc' = next /\ UNCHANGED ret

-----------------------------------------------------------------------------
Init == /\ pc = "idle" /\ reply = NULL
        /\ rows = Fresh /\ cells = Fresh /\ offs = Fresh /\ starts = Fresh
        /\ blob = Fresh /\ heap = {}
        /\ item = 0 /\ total = 0 /\ summed = 0 /\ inRow = 0
        /\ out = Empty /\ ret = "none"

(* Every call clears *out_result.  A request that fails returns before the *)
(* buffers are touched.                                                    *)
RequestFails ==
    /\ pc = "idle"
    /\ out' = Empty /\ reply' = NULL /\ ret' = "FAILED"
    /\ UNCHANGED << pc, buffers, locals >>

Forgotten == /\ rows' = Fresh /\ cells' = Fresh /\ offs' = Fresh /\ starts' = Fresh
             /\ blob' = Fresh

(* Mutant: the row starts are forgotten.                                   *)
ResetButStarts ==
    /\ heap' = heap \ {<< "rows", rows.gen >>, << "cells", cells.gen >>,
                       << "offs", offs.gen >>, << "blob", blob.gen >>}
    /\ Forgotten

(* Free the five buffers of the previous result.                           *)
Reset ==
    /\ heap' = heap \ {<< "rows", rows.gen >>, << "cells", cells.gen >>,
                       << "offs", offs.gen >>, << "starts", starts.gen >>,
                       << "blob", blob.gen >>}
    /\ Forgotten

(* The reply r arrived: reset, then find its "rows" array.                 *)
Query(r) ==
    /\ pc = "idle"
    /\ out' = Empty /\ reply' = r
    /\ Reset
    /\ CASE r.kind = "broken" -> Return("JSON")
         [] r.kind \in {"norows", "garbage"} \/ Len(r.rows) = 0 -> Return("OK")
         [] OTHER -> pc' = "row" /\ ret' = "busy" /\ UNCHANGED locals

(* The row object the cursor is at.                                        *)
Current == reply.rows[out.count + 1]
Items == Current.items

Row == /\ pc = "row"
       /\ IF Current.kind = "bad" THEN Return("JSON")
          ELSE /\ total' = 0 /\ summed' = 0
               /\ Goto("sum")
               /\ UNCHANGED << item, inRow >>
       /\ UNCHANGED << reply, buffers, out >>

(* The first cell of a row follows those of the rows so far.               *)
Sum == /\ pc = "sum"
       /\ IF summed < out.count
          THEN /\ total' = total + rows.at[summed].count
               /\ summed' = summed + 1
               /\ UNCHANGED << item, inRow, pc, ret >>
          ELSE /\ item' = 1 /\ inRow' = 0
               /\ Goto("field")
               /\ UNCHANGED << total, summed >>
       /\ UNCHANGED << reply, buffers, out >>

Ended == item = Len(Items) + 1
Token == Items[item]
AtPair == ~Ended /\ Token.kind = "cell"

(* The next field of a row object: skipped unless it is a "cells" array.   *)
Field ==
    /\ pc = "field"
    /\ \/ /\ Ended
          /\ Goto("growrows") /\ UNCHANGED locals
       \/ /\ ~Ended /\ Token.kind = "bad"
          /\ Return("JSON")
       \/ /\ ~Ended /\ Token.kind \in {"other", "cells"}
          /\ item' = item + 1
          /\ Goto(IF Token.kind = "cells" THEN "pair" ELSE "field")
          /\ UNCHANGED << total, summed, inRow >>
    /\ UNCHANGED << reply, buffers, out >>

(* The column id of the next pair, and room for its cell.                  *)
Pair ==
    /\ pc = "pair"
    /\ \/ /\ ~AtPair
          /\ Goto("field") /\ UNCHANGED << locals, cells, heap >>
       \/ /\ AtPair /\ Token.tag = "badcol"
          /\ Return("JSON") /\ UNCHANGED << cells, heap >>
       \/ /\ AtPair /\ Token.tag # "badcol"
          /\ \/ /\ \E b \in WithRoom(cells, total + 1 > cells.cap, CellCap, total + 1) :
                   /\ cells' = Store(b, total, [col |-> Token.col, tag |-> "null"])
                   /\ heap' = Move("cells", cells, b)
                /\ Goto("offs") /\ UNCHANGED locals
             \/ /\ total + 1 > cells.cap /\ "cells" \in Faults
                /\ Return("NOMEM") /\ UNCHANGED << cells, heap >>
    /\ UNCHANGED << reply, rows, offs, starts, blob, out >>

(* The parallel offsets grow with a capacity of their own.                 *)
GrowOffs ==
    /\ pc = "offs"
    /\ \/ /\ \E b \in WithRoom(offs, total + 1 > offs.cap, CellCap, total + 1) :
                offs' = b /\ heap' = Move("offs", offs, b)
          /\ Goto("scalar") /\ UNCHANGED locals
       \/ /\ total + 1 > offs.cap /\ "offs" \in Faults
          /\ Return("NOMEM") /\ UNCHANGED << offs, heap >>
    /\ UNCHANGED << reply, rows, cells, starts, blob, out >>

(* parse_scalar_into: a number is stored in the cell; a string or a nested *)
(* value goes to the blob, which may move, and its offset is recorded      *)
(* beside a pointer that is only good until the blob moves again.          *)
StoreCell(value) == cells' = Store(cells, total, value)

Number == /\ Token.tag = "num"
          /\ StoreCell([col |-> Token.col, tag |-> "num", text |-> Token.text])
          /\ offs' = Store(offs, total, -1)
          /\ UNCHANGED << blob, heap >>

Text == /\ Token.tag \in {"str", "json"}
        /\ \E b \in GrownTo(blob, blob.cap + 1) :
              /\ blob' = Store(b, blob.cap, Token.text)
              /\ heap' = Move("blob", blob, b)
              /\ StoreCell([col |-> Token.col, tag |-> Token.tag,
                            ptr |-> [gen |-> b.gen, at |-> blob.cap]])
        /\ offs' = Store(offs, total, blob.cap)

Scalar ==
    /\ pc = "scalar"
    /\ \/ /\ Number \/ Text
          /\ total' = total + 1 /\ inRow' = inRow + 1 /\ item' = item + 1
          /\ Goto("pair") /\ UNCHANGED summed
       \/ /\ \/ Token.tag = "badval"
             \/ Token.tag \in {"str", "json"} /\ "blob" \in Faults
          /\ Return("JSON")
          /\ offs' = Store(offs, total, -1)
          /\ UNCHANGED << cells, blob, heap >>
    /\ UNCHANGED << reply, rows, starts, out >>

(* Room for the row, then for its start.                                   *)
GrowRows ==
    /\ pc = "growrows"
    /\ \/ /\ \E b \in WithRoom(rows, out.count = rows.cap, RowCap, 0) :
                rows' = b /\ heap' = Move("rows", rows, b)
          /\ Goto("starts") /\ UNCHANGED locals
       \/ /\ out.count = rows.cap /\ "rows" \in Faults
          /\ Return("NOMEM") /\ UNCHANGED << rows, heap >>
    /\ UNCHANGED << reply, cells, offs, starts, blob, out >>

GrowStarts ==
    /\ pc = "starts"
    /\ \/ /\ \E b \in WithRoom(starts, out.count = starts.cap, RowCap, out.count + 1) :
                starts' = b /\ heap' = Move("starts", starts, b)
          /\ Goto("record") /\ UNCHANGED locals
       \/ /\ out.count = starts.cap /\ "starts" \in Faults
          /\ Return("NOMEM") /\ UNCHANGED << starts, heap >>
    /\ UNCHANGED << reply, rows, cells, offs, blob, out >>

(* The row and where its cells start: an offset, not a pointer.            *)
RowCellStart == total - inRow

Record == /\ pc = "record"
          /\ starts' = Store(starts, out.count, RowCellStart)
          /\ rows' = Store(rows, out.count, [count |-> inRow, cells |-> NULL])
          /\ out' = [count |-> out.count + 1, rows |-> rows.gen]
          /\ Goto(IF out.count + 1 = Len(reply.rows) THEN "resolve" ELSE "row")
          /\ UNCHANGED << reply, cells, offs, blob, heap, locals >>

(* Nothing moves any more: offsets become pointers.                        *)
Slice(r) == IF rows.at[r].count = 0 THEN NULL
            ELSE [gen |-> cells.gen, at |-> starts.at[r]]

(* Mutant: the pointer made while the blob was still moving.               *)
NotRebased(i) == cells.at[i]

Rebased(i) == IF offs.at[i] # -1 /\ cells.at[i].tag \in {"str", "json"}
              THEN [cells.at[i] EXCEPT !.ptr = [gen |-> blob.gen, at |-> offs.at[i]]]
              ELSE cells.at[i]

Resolve ==
    /\ pc = "resolve"
    /\ rows' = [rows EXCEPT !.at = [r \in 0 .. out.count - 1 |->
                                       [rows.at[r] EXCEPT !.cells = Slice(r)]]]
    /\ cells' = [cells EXCEPT !.at = [i \in 0 .. total - 1 |-> Rebased(i)]]
    /\ Return("OK")
    /\ UNCHANGED << reply, offs, starts, blob, heap, out >>

Next == \/ RequestFails
        \/ \E r \in Replies : Query(r)
        \/ Row \/ Sum \/ Field \/ Pair \/ GrowOffs \/ Scalar
        \/ GrowRows \/ GrowStarts \/ Record \/ Resolve

Spec == Init /\ [][Next]_vars

-----------------------------------------------------------------------------
(* The pairs of a row, and how many there are up to item i.                *)
CellItems(items) == {i \in 1 .. Len(items) : items[i].kind = "cell"}

Rank(items, i) == Cardinality({j \in 1 .. i : items[j].kind = "cell"})

(* The cell a caller reads at index k says what a pair of the reply says,  *)
(* and its pointer leads into the blob where that is now.                  *)
Says(k, pair) ==
    /\ k \in DOMAIN cells.at
    /\ cells.at[k].col = pair.col /\ cells.at[k].tag = pair.tag
    /\ pair.tag = "num" => cells.at[k].text = pair.text
    /\ pair.tag \in {"str", "json"} =>
          /\ cells.at[k].ptr.gen = blob.gen
          /\ cells.at[k].ptr.at \in DOMAIN blob.at
          /\ blob.at[cells.at[k].ptr.at] = pair.text

(* A result handed out with MDB_OK holds exactly the rows, columns and     *)
(* values of the reply, in order, and every pointer in it leads to live    *)
(* memory, however often each buffer moved under the rows decoded before.  *)
ResultFaithful ==
    pc = "idle" /\ ret = "OK" =>
        /\ out.count = Len(reply.rows)
        /\ \A r \in 1 .. out.count :
              LET row == rows.at[r - 1]
                  items == reply.rows[r].items
              IN  /\ out.rows = rows.gen /\ r - 1 \in DOMAIN rows.at
                  /\ row.count = Rank(items, Len(items))
                  /\ \A i \in CellItems(items) :
                        /\ row.cells.gen = cells.gen
                        /\ Says(row.cells.at + Rank(items, i) - 1, items[i])

(* Every index the decoder writes at lies inside the buffer it writes to:  *)
(* the two cell buffers and the two row buffers grow with separate         *)
(* capacities, and the next query starts all of them from nothing again.   *)
InBounds(b) == DOMAIN b.at \subseteq 0 .. b.cap - 1

IndicesInBounds ==
    /\ pc \in {"offs", "scalar"} => total < cells.cap
    /\ pc = "scalar" => total < offs.cap
    /\ pc \in {"starts", "record"} => out.count < rows.cap
    /\ pc = "record" => out.count < starts.cap
    /\ InBounds(rows) /\ InBounds(cells) /\ InBounds(offs) /\ InBounds(starts)

(* The client owns every block that is allocated: none is lost when a      *)
(* buffer moves, when a call fails half way, or when the next one resets.  *)
Allocated(name, b) == IF b.cap = 0 THEN {} ELSE {<< name, b.gen >>}

NoLeak == heap = Allocated("rows", rows) \cup Allocated("cells", cells)
                 \cup Allocated("offs", offs) \cup Allocated("starts", starts)
                 \cup Allocated("blob", blob)
=============================================================================
