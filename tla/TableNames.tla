----------------------------- MODULE TableNames -----------------------------
(***************************************************************************)
(* mongreldb_table_names: the reply's strings go into one growing buffer,  *)
(* an array that grows by itself keeps their offsets, and once both have   *)
(* stopped moving the offsets become the pointers the caller gets.         *)
(*                                                                         *)
(* names_cap is changed before the realloc it announces, so that after a   *)
(* failure it is more than the array has.  A block of memory is a name and *)
(* a generation, as in QueryDecode; a name is what the reply has between   *)
(* two quotes (its escapes are not decoded).                               *)
(***************************************************************************)
EXTENDS Integers, Sequences

CONSTANTS
    Names,      \* What stands between two quotes of a reply.
    Replies,    \* The replies the daemon may give.
    FirstCap,   \* First capacity of the array: 8 in the code.
    Faults,     \* The allocations that may fail: "blob", "array".
    NULL

(* "other" is a body that is no array; unless closed, what follows the     *)
(* items is something the parser refuses.                                  *)
IsReply(r) == /\ DOMAIN r = {"kind", "items", "closed"}
              /\ r.kind \in {"array", "other"} /\ r.items \in Seq(Names)
              /\ r.closed \in BOOLEAN

ASSUME NamesAssumption ==
    /\ FirstCap \in Nat \ {0} /\ Faults \subseteq {"blob", "array"}
    /\ \A r \in Replies : IsReply(r)
    /\ NULL \notin Nat

VARIABLES
    pc,         \* Where the call is, or "idle".
    reply,      \* The reply being decoded.
    read,       \* How many of its items were read.
    arr,        \* c->names_arr: the entries its block has; a pointer is the
                \*   blob's generation and an index, an offset has none (0).
    cap,        \* c->names_cap
    blob,       \* c->names_blob
    heap,       \* The blocks of both that are allocated.
    count,      \* *out_count
    names,      \* *out_names: the generation of the array, or NULL.
    ret         \* Result of the last call.

buffers == << arr, cap, blob, heap >>
vars == << pc, reply, read, arr, cap, blob, heap, count, names, ret >>

NoBlock == [gen |-> 0, at |-> << >>]
Junk == [gen |-> 0, off |-> 0]

Block(name, b) == IF b = NoBlock THEN {} ELSE {<< name, b.gen >>}

(* The array after realloc to n entries: in place, or moved.               *)
Grown(n) == {[gen |-> g, at |-> arr.at \o [i \in 1 .. n - Len(arr.at) |-> Junk]] :
                g \in {arr.gen + 1} \cup (IF arr.gen = 0 THEN {} ELSE {arr.gen})}

Return(code) == pc' = "idle" /\ ret' = code

Init == /\ pc = "idle" /\ ret = "none" /\ read = 0
        /\ reply = [kind |-> "other", items |-> << >>, closed |-> TRUE]
        /\ arr = NoBlock /\ cap = 0 /\ blob = NoBlock /\ heap = {}
        /\ count = 0 /\ names = NULL

-----------------------------------------------------------------------------
(* do_request fails.                                                       *)
RequestFails == /\ pc = "idle"
                /\ count' = 0 /\ names' = NULL /\ ret' = "REQUEST"
                /\ UNCHANGED << pc, reply, read, buffers >>

(* Mutant: the capacity of the last call is kept.                          *)
ResetButCap == /\ arr' = NoBlock /\ blob' = NoBlock /\ UNCHANGED cap
               /\ heap' = heap \ (Block("array", arr) \cup Block("blob", blob))

(* The names of the last call are freed, and its capacity is forgotten.    *)
Reset == /\ arr' = NoBlock /\ blob' = NoBlock /\ cap' = 0
         /\ heap' = heap \ (Block("array", arr) \cup Block("blob", blob))

Empty(r) == r.kind = "other" \/ (r.items = << >> /\ r.closed)

Call(r) == /\ pc = "idle"
           /\ reply' = r /\ read' = 0 /\ count' = 0 /\ names' = NULL
           /\ Reset
           /\ IF Empty(r) THEN Return("OK") ELSE pc' = "item" /\ UNCHANGED ret

(* The next string goes behind those in the blob, which may move.          *)
AppendName ==
    /\ \E g \in {blob.gen + 1} \cup (IF blob.gen = 0 THEN {} ELSE {blob.gen}) :
          blob' = [gen |-> g, at |-> Append(blob.at, reply.items[read + 1])]
    /\ heap' = (heap \ Block("blob", blob)) \cup Block("blob", blob')

(* A string is appended, and its NUL, or the call ends here: with no more  *)
(* strings, or with no room for this one or only for its NUL.              *)
Item ==
    /\ pc = "item"
    /\ \/ /\ read = Len(reply.items)
          /\ Return("JSON") /\ UNCHANGED << read, blob, heap >>
       \/ /\ read < Len(reply.items) /\ "blob" \in Faults
          /\ Return("NOMEM") /\ UNCHANGED read
          /\ AppendName \/ UNCHANGED << blob, heap >>
       \/ /\ read < Len(reply.items) /\ AppendName
          /\ read' = read + 1 /\ pc' = "grow" /\ UNCHANGED ret
    /\ UNCHANGED << reply, arr, cap, count, names >>

(* realloc of the array to cap' entries; names_cap has changed already.    *)
Resize(next) ==
    \/ /\ arr' \in Grown(cap')
       /\ heap' = (heap \ Block("array", arr)) \cup Block("array", arr')
       /\ pc' = next /\ UNCHANGED ret
    \/ "array" \in Faults /\ Return("NOMEM") /\ UNCHANGED << arr, heap >>

Grow ==
    /\ pc = "grow"
    /\ IF cap = 0 THEN cap' = FirstCap /\ Resize("store")
       ELSE IF count = cap THEN cap' = 2 * cap /\ Resize("store")
       ELSE pc' = "store" /\ UNCHANGED << arr, cap, heap, ret >>
    /\ UNCHANGED << reply, read, blob, count, names >>

(* Mutant: the length of the blob is read after the append.                *)
BaseAfter == Len(blob.at) + 1

(* The offset of the string that was appended last.                        *)
Base == Len(blob.at)

Store ==
    /\ pc = "store"
    /\ arr' = [arr EXCEPT !.at[count + 1] = [gen |-> 0, off |-> Base]]
    /\ count' = count + 1
    /\ IF read < Len(reply.items) THEN pc' = "item" /\ UNCHANGED ret
       ELSE IF reply.closed THEN pc' = "last" /\ UNCHANGED ret
       ELSE Return("JSON")
    /\ UNCHANGED << reply, read, cap, blob, heap, names >>

(* Room for the NULL behind the names.                                     *)
GrowLast ==
    /\ pc = "last"
    /\ IF count = cap THEN cap' = count + 1 /\ Resize("resolve")
       ELSE pc' = "resolve" /\ UNCHANGED << arr, cap, heap, ret >>
    /\ UNCHANGED << reply, read, blob, count, names >>

Resolve ==
    /\ pc = "resolve"
    /\ arr' = [arr EXCEPT !.at = [i \in DOMAIN arr.at |->
                  CASE i <= count -> [gen |-> blob.gen, off |-> arr.at[i].off]
                    [] i = count + 1 -> NULL
                    [] OTHER -> arr.at[i]]]
    /\ names' = arr.gen /\ Return("OK")
    /\ UNCHANGED << reply, read, cap, blob, heap, count >>

(* Mutant: the strings are forgotten.                                      *)
FreedArray == Block("array", arr)

(* What mongreldb_close frees of these.                                    *)
Freed == Block("array", arr) \cup Block("blob", blob)

(* mongreldb_close, and the next client.                                   *)
Close == /\ pc = "idle"
         /\ heap' = heap \ Freed
         /\ arr' = NoBlock /\ cap' = 0 /\ blob' = NoBlock
         /\ count' = 0 /\ names' = NULL /\ ret' = "none"
         /\ UNCHANGED << pc, reply, read >>

Next == \/ RequestFails \/ (\E r \in Replies : Call(r)) \/ Item \/ Grow
        \/ Store \/ GrowLast \/ Resolve \/ Close

Spec == Init /\ [][Next]_vars

-----------------------------------------------------------------------------
(* MDB_OK gives the caller the names of the reply, all and in order, each  *)
(* in memory that is allocated, with a NULL behind them; any other result  *)
(* gives no array.                                                         *)
NamesFaithful ==
    pc = "idle" =>
        IF names = NULL THEN ret = "OK" => count = 0 /\ Empty(reply)
        ELSE /\ ret = "OK" /\ count = Len(reply.items)
             /\ names = arr.gen /\ {<< "array", names >>, << "blob", blob.gen >>} \subseteq heap
             /\ \A i \in 1 .. count : /\ arr.at[i].gen = blob.gen
                                      /\ arr.at[i].off \in DOMAIN blob.at
                                      /\ blob.at[arr.at[i].off] = reply.items[i]
             /\ arr.at[count + 1] = NULL

(* What is written at names_arr[count], a name's offset or the NULL behind *)
(* them, is inside the block, though names_cap may be more than the block  *)
(* has after an allocation that failed.                                    *)
IndicesInBounds == pc \in {"store", "resolve"} => count + 1 \in DOMAIN arr.at

(* Every allocated block is one that mongreldb_close will free.            *)
NoLeak == heap \subseteq Block("array", arr) \cup Block("blob", blob)
=============================================================================
