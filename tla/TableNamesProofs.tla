-------------------------- MODULE TableNamesProofs --------------------------
(* Theorems about TableNames, for every reply, every first capacity and    *)
(* every pattern of failing allocations.                                   *)
EXTENDS TableNames, TLAPS, SequenceTheorems

Entry == [gen : Nat, off : Nat] \cup {NULL}

TypeOK ==
    /\ pc \in {"idle", "item", "grow", "store", "last", "resolve"}
    /\ IsReply(reply)
    /\ read \in 0 .. Len(reply.items) /\ count \in Nat /\ cap \in Nat
    /\ arr \in [gen : Nat, at : Seq(Entry)]
    /\ blob \in [gen : Nat, at : Seq(Names)]

(* While a call runs, names_cap is what the array has: a failure that made *)
(* it more ended its call, and the next one forgets it.                    *)
CapacityOK ==
    pc # "idle" =>
        /\ cap = Len(arr.at) /\ count <= cap
        /\ pc \in {"store", "resolve"} => count < cap

(* The strings and offsets of the names read so far.                       *)
DecodedOK ==
    pc # "idle" =>
        /\ names = NULL /\ ~Empty(reply)
        /\ read = IF pc \in {"grow", "store"} THEN count + 1 ELSE count
        /\ pc \in {"last", "resolve"} => read = Len(reply.items) /\ read > 0
        /\ Len(blob.at) = read
        /\ \A i \in 1 .. read : blob.at[i] = reply.items[i]
        /\ \A i \in 1 .. count : arr.at[i] = [gen |-> 0, off |-> i]

HeapOK == heap = Block("array", arr) \cup Block("blob", blob)

IInv == TypeOK /\ CapacityOK /\ DecodedOK /\ HeapOK /\ NamesFaithful

-----------------------------------------------------------------------------
(* realloc to n entries keeps those there are and adds Junk.               *)
LEMMA GrownShape ==
    ASSUME TypeOK, NEW n \in Nat, n >= Len(arr.at), NEW a \in Grown(n)
    PROVE  /\ a \in [gen : Nat, at : Seq(Entry)] /\ Len(a.at) = n
           /\ \A i \in 1 .. Len(arr.at) : a.at[i] = arr.at[i]
<1> DEFINE more == [i \in 1 .. n - Len(arr.at) |-> Junk]
<1>1. arr.at \in Seq(Entry) /\ Len(arr.at) \in Nat /\ arr.gen \in Nat
  BY DEF TypeOK
<1>2. n - Len(arr.at) \in Nat /\ Junk \in Entry
  BY <1>1 DEF Junk, Entry
<1>3. more \in Seq(Entry) /\ Len(more) = n - Len(arr.at)
  BY <1>2
<1>4. /\ arr.at \o more \in Seq(Entry) /\ Len(arr.at \o more) = n
      /\ \A i \in 1 .. Len(arr.at) : (arr.at \o more)[i] = arr.at[i]
  <2> HIDE DEF more
  <2>1. /\ arr.at \o more \in Seq(Entry)
        /\ Len(arr.at \o more) = Len(arr.at) + Len(more)
        /\ \A i \in 1 .. Len(arr.at) + Len(more) : (arr.at \o more)[i] =
              IF i <= Len(arr.at) THEN arr.at[i] ELSE more[i - Len(arr.at)]
    BY <1>1, <1>3, ConcatProperties
  <2> QED BY <2>1, <1>1, <1>3
<1>5. PICK g \in {arr.gen + 1} \cup (IF arr.gen = 0 THEN {} ELSE {arr.gen}) :
          a = [gen |-> g, at |-> arr.at \o more]
  BY DEF Grown
<1>6. g \in Nat
  BY <1>1
<1> HIDE DEF more
<1> QED BY <1>4, <1>5, <1>6

(* No memory, no names, no call.                                           *)
LEMMA InitInv == Init => IInv
<1> SUFFICES ASSUME Init PROVE IInv
  OBVIOUS
<1>1. TypeOK
  BY EmptySeq DEF Init, TypeOK, IsReply, NoBlock
<1>2. CapacityOK /\ DecodedOK /\ HeapOK /\ NamesFaithful
  BY DEF Init, CapacityOK, DecodedOK, HeapOK, NamesFaithful, Block
<1> QED BY <1>1, <1>2 DEF IInv

(* A realloc of the array, whatever comes of it.  After one that failed    *)
(* names_cap is wrong, and no call runs.                                   *)
LEMMA ResizeInv ==
    ASSUME IInv, NEW n \in Nat, n >= Len(arr.at), count < n,
           pc \in {"grow", "last"}, cap' = n,
           NEW next, next = IF pc = "grow" THEN "store" ELSE "resolve",
           Resize(next), UNCHANGED << reply, read, blob, count, names >>
    PROVE  IInv'
<1>1. TypeOK /\ CapacityOK /\ DecodedOK /\ HeapOK
  BY DEF IInv
<1>2. CASE arr' \in Grown(n) /\ heap' = (heap \ Block("array", arr)) \cup Block("array", arr')
           /\ pc' = next /\ UNCHANGED ret
  <2>1. /\ arr' \in [gen : Nat, at : Seq(Entry)] /\ Len(arr'.at) = n
        /\ \A i \in 1 .. Len(arr.at) : arr'.at[i] = arr.at[i]
    BY <1>1, <1>2, GrownShape
  <2>2. TypeOK'
    BY <1>1, <1>2, <2>1 DEF TypeOK, IsReply
  <2>3. CapacityOK'
    <3>1. count \in Nat /\ count <= n /\ cap' = Len(arr'.at)
      BY <1>1, <2>1 DEF TypeOK
    <3> QED BY <2>1, <3>1 DEF CapacityOK
  <2>4. DecodedOK'
    <3>1. pc # "idle" /\ count \in Nat /\ count <= Len(arr.at) /\ Len(arr.at) \in Nat
      BY <1>1 DEF CapacityOK, TypeOK
    <3>2. \A i \in 1 .. count : arr'.at[i] = [gen |-> 0, off |-> i]
      <4> SUFFICES ASSUME NEW i \in 1 .. count
                   PROVE  arr'.at[i] = [gen |-> 0, off |-> i]
        OBVIOUS
      <4>1. i \in 1 .. Len(arr.at)
        BY <3>1
      <4>2. arr.at[i] = [gen |-> 0, off |-> i]
        BY <1>1, <3>1 DEF DecodedOK
      <4> QED BY <2>1, <4>1, <4>2
    <3> QED BY <1>1, <1>2, <3>1, <3>2 DEF DecodedOK, Empty
  <2>5. HeapOK'
    BY <1>1, <1>2 DEF HeapOK, Block
  <2>6. NamesFaithful'
    BY <1>2 DEF NamesFaithful
  <2> QED BY <2>2, <2>3, <2>4, <2>5, <2>6 DEF IInv
<1>3. CASE Return("NOMEM") /\ UNCHANGED << arr, heap >>
  <2>1. TypeOK'
    BY <1>1, <1>3 DEF TypeOK, Return, IsReply
  <2>2. CapacityOK' /\ DecodedOK' /\ HeapOK'
    BY <1>1, <1>3 DEF CapacityOK, DecodedOK, HeapOK, Return, Block
  <2>3. names' = NULL /\ ret' # "OK"
    BY <1>1, <1>3 DEF DecodedOK, Return
  <2> QED BY <2>1, <2>2, <2>3 DEF IInv, NamesFaithful
<1> QED BY <1>2, <1>3 DEF Resize

(* Every step of a call keeps the invariant.                               *)
LEMMA NextInv == IInv /\ [Next]_vars => IInv'
<1> SUFFICES ASSUME IInv, [Next]_vars PROVE IInv'
  OBVIOUS
<1>t. TypeOK /\ CapacityOK /\ DecodedOK /\ HeapOK /\ NamesFaithful
  BY DEF IInv
<1>n. /\ arr.at \in Seq(Entry) /\ Len(arr.at) \in Nat
      /\ blob.at \in Seq(Names) /\ Len(blob.at) \in Nat
      /\ reply.items \in Seq(Names) /\ Len(reply.items) \in Nat
      /\ read \in Nat /\ count \in Nat /\ cap \in Nat
      /\ arr.gen \in Nat /\ blob.gen \in Nat
  BY <1>t DEF TypeOK, IsReply
<1>1. CASE RequestFails
  <2>1. TypeOK'
    BY <1>t, <1>1 DEF TypeOK, RequestFails, buffers, IsReply
  <2>2. CapacityOK' /\ DecodedOK' /\ HeapOK'
    BY <1>t, <1>1 DEF CapacityOK, DecodedOK, HeapOK, RequestFails, buffers, Block
  <2> QED BY <1>1, <2>1, <2>2 DEF IInv, NamesFaithful, RequestFails
<1>2. ASSUME NEW r \in Replies, Call(r)
      PROVE  IInv'
  <2>0. IsReply(r) /\ Len(r.items) \in Nat
    BY NamesAssumption DEF IsReply
  <2>1. /\ arr' = NoBlock /\ blob' = NoBlock /\ cap' = 0 /\ heap' = {}
        /\ reply' = r /\ read' = 0 /\ count' = 0 /\ names' = NULL
        /\ pc' \in {"idle", "item"}
        /\ pc' = "item" => ~Empty(r)
        /\ pc' = "idle" => Empty(r)
    BY <1>t, <1>2 DEF Call, Reset, HeapOK, Return
  <2>2. TypeOK'
    BY <2>0, <2>1, EmptySeq DEF TypeOK, NoBlock
  <2>3. CapacityOK' /\ DecodedOK' /\ HeapOK' /\ NamesFaithful'
    BY <2>1, EmptySeq DEF CapacityOK, DecodedOK, HeapOK, NamesFaithful, NoBlock, Block, Empty
  <2> QED BY <2>2, <2>3 DEF IInv
<1>3. CASE Item
  <2>0. pc = "item" /\ names = NULL /\ read = count /\ Len(blob.at) = read
    BY <1>t, <1>3 DEF Item, DecodedOK
  <2>1. CASE /\ Return("JSON") \/ Return("NOMEM")
             /\ UNCHANGED << read, blob, heap, reply, arr, cap, count, names >>
    <3>1. TypeOK'
      BY <1>t, <2>1 DEF TypeOK, Return, IsReply
    <3>2. CapacityOK' /\ DecodedOK' /\ HeapOK'
      BY <1>t, <2>1 DEF CapacityOK, DecodedOK, HeapOK, Return, Block
    <3> QED BY <2>0, <2>1, <3>1, <3>2 DEF IInv, NamesFaithful, Return
  <2>2. ASSUME read < Len(reply.items), NEW g \in Nat,
               blob' = [gen |-> g, at |-> Append(blob.at, reply.items[read + 1])],
               heap' = (heap \ Block("blob", blob)) \cup Block("blob", blob'),
               UNCHANGED << reply, arr, cap, count, names >>,
               \/ read' = read + 1 /\ pc' = "grow" /\ UNCHANGED ret
               \/ UNCHANGED read /\ Return("NOMEM")
        PROVE  IInv'
    <3> DEFINE name == reply.items[read + 1]
    <3>1. name \in Names
      BY <1>n, <2>2, ElementOfSeq
    <3>2. /\ Append(blob.at, name) \in Seq(Names)
          /\ Len(Append(blob.at, name)) = read + 1
          /\ \A i \in 1 .. read + 1 : Append(blob.at, name)[i] =
                 IF i <= read THEN blob.at[i] ELSE name
      BY <1>n, <2>0, <3>1
    <3>3. \A i \in 1 .. read + 1 : Append(blob.at, name)[i] = reply.items[i]
      BY <1>t, <1>n, <2>0, <3>2 DEF DecodedOK
    <3> HIDE DEF name
    <3>4. blob' = [gen |-> g, at |-> Append(blob.at, name)]
      BY <2>2 DEF name
    <3>5. TypeOK'
      BY <1>t, <1>n, <2>2, <3>2, <3>4 DEF TypeOK, IsReply, Return
    <3>6. CapacityOK'
      BY <1>t, <2>0, <2>2 DEF CapacityOK, Return
    <3>7. DecodedOK'
      <4>1. CASE read' = read + 1 /\ pc' = "grow"
        BY <1>t, <1>n, <2>0, <2>2, <3>2, <3>3, <3>4, <4>1 DEF DecodedOK, Empty
      <4>2. CASE pc' = "idle"
        BY <4>2 DEF DecodedOK
      <4> QED BY <2>2, <4>1, <4>2 DEF Return
    <3>8. HeapOK'
      BY <1>t, <2>2 DEF HeapOK, Block
    <3> QED BY <2>0, <2>2, <3>5, <3>6, <3>7, <3>8 DEF IInv, NamesFaithful, Return
  <2>3. CASE AppendName /\ read < Len(reply.items)
    <3>1. PICK g \in {blob.gen + 1} \cup (IF blob.gen = 0 THEN {} ELSE {blob.gen}) :
             blob' = [gen |-> g, at |-> Append(blob.at, reply.items[read + 1])]
      BY <2>3 DEF AppendName
    <3>2. g \in Nat /\ heap' = (heap \ Block("blob", blob)) \cup Block("blob", blob')
      BY <1>n, <2>3 DEF AppendName
    <3>3. /\ UNCHANGED << reply, arr, cap, count, names >>
          /\ \/ read' = read + 1 /\ pc' = "grow" /\ UNCHANGED ret
             \/ UNCHANGED read /\ Return("NOMEM")
      BY <1>n, <1>3, <2>3 DEF Item
    <3> QED BY <2>2, <2>3, <3>1, <3>2, <3>3
  <2> QED BY <2>1, <2>3, <1>3 DEF Item
<1>4. CASE Grow
  <2>0. pc = "grow" /\ cap = Len(arr.at) /\ count <= cap
    BY <1>t, <1>4 DEF Grow, CapacityOK
  <2>1. CASE cap = 0 \/ count = cap
    <3>1. PICK n \in Nat : n = IF cap = 0 THEN FirstCap ELSE 2 * cap
      BY <1>n, NamesAssumption
    <3>2. cap' = n /\ n >= Len(arr.at) /\ count < n
      BY <1>n, <1>4, <2>0, <2>1, <3>1, NamesAssumption DEF Grow
    <3>3. Resize("store") /\ UNCHANGED << reply, read, blob, count, names >>
      BY <1>4, <2>1 DEF Grow
    <3> QED BY <2>0, <3>2, <3>3, ResizeInv
  <2>2. CASE cap # 0 /\ count # cap
    <3>1. pc' = "store" /\ UNCHANGED << reply, read, arr, cap, blob, heap, count, names, ret >>
      BY <1>4, <2>2 DEF Grow
    <3>2. TypeOK' /\ HeapOK'
      BY <1>t, <3>1 DEF TypeOK, IsReply, HeapOK, Block
    <3>3. CapacityOK'
      BY <1>n, <2>0, <2>2, <3>1 DEF CapacityOK
    <3>4. DecodedOK'
      BY <1>t, <2>0, <3>1 DEF DecodedOK, Empty
    <3> QED BY <3>1, <3>2, <3>3, <3>4 DEF IInv, NamesFaithful
  <2> QED BY <2>1, <2>2
<1>5. CASE Store
  <2>0. /\ pc = "store" /\ cap = Len(arr.at) /\ count < cap /\ names = NULL
        /\ read = count + 1 /\ Len(blob.at) = read /\ read <= Len(reply.items)
    BY <1>t, <1>5 DEF Store, CapacityOK, DecodedOK, TypeOK
  <2> DEFINE e == [gen |-> 0, off |-> Base]
             at == [arr.at EXCEPT ![count + 1] = e]
  <2>1. e = [gen |-> 0, off |-> count + 1] /\ e \in Entry /\ count + 1 \in 1 .. Len(arr.at)
    BY <1>n, <2>0 DEF Base, Entry
  <2>2. /\ at \in Seq(Entry) /\ Len(at) = Len(arr.at)
        /\ \A j \in 1 .. Len(arr.at) : at[j] = IF j = count + 1 THEN e ELSE arr.at[j]
    <3> HIDE DEF e
    <3> QED BY <1>n, <2>1, ExceptSeq
  <2>3. \A i \in 1 .. count + 1 : at[i] = [gen |-> 0, off |-> i]
    <3> SUFFICES ASSUME NEW i \in 1 .. count + 1 PROVE at[i] = [gen |-> 0, off |-> i]
      OBVIOUS
    <3> HIDE DEF at, e
    <3>1. at[i] = IF i = count + 1 THEN e ELSE arr.at[i]
      BY <1>n, <2>0, <2>2
    <3>2. i # count + 1 => arr.at[i] = [gen |-> 0, off |-> i]
      BY <1>t, <1>n, <2>0 DEF DecodedOK
    <3> QED BY <2>1, <3>1, <3>2
  <2>4. arr' = [arr EXCEPT !.at = at]
    BY <1>5 DEF Store
  <2> HIDE DEF at, e
  <2>5. arr'.gen = arr.gen /\ arr'.at = at /\ arr' \in [gen : Nat, at : Seq(Entry)]
    BY <1>t, <2>2, <2>4 DEF TypeOK
  <2>6. /\ count' = count + 1 /\ UNCHANGED << reply, read, cap, blob, heap, names >>
        /\ \/ pc' = "item" /\ read < Len(reply.items) /\ UNCHANGED ret
           \/ pc' = "last" /\ read = Len(reply.items) /\ UNCHANGED ret
           \/ pc' = "idle" /\ ret' = "JSON"
    BY <1>n, <1>5, <2>0 DEF Store, Return
  <2>7. TypeOK'
    BY <1>t, <1>n, <2>5, <2>6 DEF TypeOK, IsReply
  <2>8. CapacityOK'
    BY <1>n, <2>0, <2>2, <2>5, <2>6 DEF CapacityOK
  <2>9. DecodedOK'
    BY <1>t, <1>n, <2>0, <2>3, <2>5, <2>6 DEF DecodedOK, Empty
  <2>10. HeapOK'
    <3>1. arr' # NoBlock /\ arr # NoBlock
      BY <1>n, <2>0, <2>2, <2>5, EmptySeq DEF NoBlock
    <3> QED BY <1>t, <2>5, <2>6, <3>1 DEF HeapOK, Block
  <2>11. NamesFaithful'
    BY <2>0, <2>6 DEF NamesFaithful
  <2> QED BY <2>7, <2>8, <2>9, <2>10, <2>11 DEF IInv
<1>6. CASE GrowLast
  <2>0. pc = "last" /\ cap = Len(arr.at) /\ count <= cap
    BY <1>t, <1>6 DEF GrowLast, CapacityOK
  <2>1. CASE count = cap
    <3>1. cap' = count + 1 /\ count + 1 \in Nat /\ count + 1 >= Len(arr.at) /\ count < count + 1
      BY <1>n, <1>6, <2>0, <2>1 DEF GrowLast
    <3>2. Resize("resolve") /\ UNCHANGED << reply, read, blob, count, names >>
      BY <1>6, <2>1 DEF GrowLast
    <3> QED BY <2>0, <3>1, <3>2, ResizeInv
  <2>2. CASE count # cap
    <3>1. /\ pc' = "resolve"
          /\ UNCHANGED << reply, read, arr, cap, blob, heap, count, names, ret >>
      BY <1>6, <2>2 DEF GrowLast
    <3>2. TypeOK' /\ HeapOK'
      BY <1>t, <3>1 DEF TypeOK, IsReply, HeapOK, Block
    <3>3. CapacityOK'
      BY <1>n, <2>0, <2>2, <3>1 DEF CapacityOK
    <3>4. DecodedOK'
      BY <1>t, <2>0, <3>1 DEF DecodedOK, Empty
    <3> QED BY <3>1, <3>2, <3>3, <3>4 DEF IInv, NamesFaithful
  <2> QED BY <2>1, <2>2
<1>7. CASE Resolve
  <2>0. /\ pc = "resolve" /\ cap = Len(arr.at) /\ count < cap
        /\ read = count /\ Len(blob.at) = count /\ count = Len(reply.items) /\ count > 0
        /\ \A i \in 1 .. count : blob.at[i] = reply.items[i]
        /\ \A i \in 1 .. count : arr.at[i] = [gen |-> 0, off |-> i]
    BY <1>t, <1>7 DEF Resolve, CapacityOK, DecodedOK
  <2> DEFINE at == [i \in DOMAIN arr.at |->
                      CASE i <= count -> [gen |-> blob.gen, off |-> arr.at[i].off]
                        [] i = count + 1 -> NULL
                        [] OTHER -> arr.at[i]]
  <2>1. DOMAIN arr.at = 1 .. Len(arr.at)
    BY <1>n
  <2>2. \A i \in 1 .. count : at[i] = [gen |-> blob.gen, off |-> i]
    <3> SUFFICES ASSUME NEW i \in 1 .. count PROVE at[i] = [gen |-> blob.gen, off |-> i]
      OBVIOUS
    <3>1. i \in DOMAIN arr.at /\ i <= count /\ i # count + 1
      BY <1>n, <2>0, <2>1
    <3>2. arr.at[i] = [gen |-> 0, off |-> i]
      BY <2>0
    <3>3. arr.at[i].off = i
      BY <3>2
    <3>4. at[i] = [gen |-> blob.gen, off |-> arr.at[i].off]
      BY <3>1
    <3> QED BY <3>3, <3>4
  <2>3. at[count + 1] = NULL
    BY <1>n, <2>0, <2>1
  <2>4. \A i \in 1 .. Len(arr.at) : at[i] \in Entry
    <3> SUFFICES ASSUME NEW i \in 1 .. Len(arr.at) PROVE at[i] \in Entry
      OBVIOUS
    <3>1. CASE i <= count
      <4>1. at[i] = [gen |-> blob.gen, off |-> i]
        <5> HIDE DEF at
        <5> QED BY <1>n, <2>2, <3>1
      <4> QED BY <1>n, <4>1 DEF Entry
    <3>2. CASE i = count + 1
      BY <2>3, <3>2 DEF Entry
    <3>3. CASE i > count + 1
      <4>1. at[i] = arr.at[i]
        BY <1>n, <2>1, <3>3
      <4> QED BY <1>n, <4>1, ElementOfSeq
    <3> QED BY <1>n, <3>1, <3>2, <3>3
  <2>5. at \in Seq(Entry) /\ Len(at) = Len(arr.at)
    <3>1. at = [i \in 1 .. Len(arr.at) |-> at[i]]
      BY <2>1
    <3> HIDE DEF at
    <3>2. at \in [1 .. Len(arr.at) -> Entry]
      BY <2>4, <3>1
    <3>3. at \in Seq(Entry)
      BY <1>n, <3>2, SeqDef
    <3> QED BY <1>n, <3>2, <3>3, LenProperties
  <2>6. /\ arr' = [arr EXCEPT !.at = at] /\ names' = arr.gen
        /\ pc' = "idle" /\ ret' = "OK"
        /\ UNCHANGED << reply, read, cap, blob, heap, count >>
    BY <1>7 DEF Resolve, Return
  <2> HIDE DEF at
  <2>7. arr'.gen = arr.gen /\ arr'.at = at /\ arr' \in [gen : Nat, at : Seq(Entry)]
    BY <1>t, <2>5, <2>6 DEF TypeOK
  <2>8. TypeOK'
    BY <1>t, <2>6, <2>7 DEF TypeOK, IsReply
  <2>9. CapacityOK' /\ DecodedOK'
    BY <2>6 DEF CapacityOK, DecodedOK
  <2>10. arr # NoBlock /\ arr' # NoBlock /\ blob # NoBlock
    BY <1>n, <2>0, <2>5, <2>7, EmptySeq DEF NoBlock
  <2>11. HeapOK'
    BY <1>t, <2>6, <2>7, <2>10 DEF HeapOK, Block
  <2>12. NamesFaithful'
    <3>1. names' # NULL /\ names' = arr'.gen
      BY <1>n, <2>6, <2>7, NamesAssumption
    <3>2. {<< "array", names' >>, << "blob", blob'.gen >>} \subseteq heap'
      BY <1>t, <2>6, <2>10 DEF HeapOK, Block
    <3>3. \A i \in 1 .. count : /\ at[i].gen = blob.gen /\ at[i].off = i
                               /\ i \in DOMAIN blob.at
                               /\ blob.at[i] = reply.items[i]
      <4> TAKE i \in 1 .. count
      <4>1. at[i] = [gen |-> blob.gen, off |-> i]
        BY <2>2
      <4>2. i \in DOMAIN blob.at /\ blob.at[i] = reply.items[i]
        BY <1>n, <2>0
      <4> QED BY <4>1, <4>2
    <3> QED BY <2>0, <2>3, <2>6, <2>7, <3>1, <3>2, <3>3 DEF NamesFaithful
  <2> QED BY <2>8, <2>9, <2>11, <2>12 DEF IInv
<1>8. CASE Close
  <2>1. TypeOK'
    BY <1>t, <1>8, EmptySeq DEF TypeOK, Close, NoBlock, IsReply
  <2>2. CapacityOK' /\ DecodedOK' /\ HeapOK'
    BY <1>t, <1>8 DEF CapacityOK, DecodedOK, HeapOK, Close, Freed, Block
  <2> QED BY <1>8, <2>1, <2>2 DEF IInv, NamesFaithful, Close
<1>9. CASE UNCHANGED vars
  <2>1. TypeOK' /\ CapacityOK' /\ DecodedOK' /\ HeapOK'
    BY <1>t, <1>9 DEF TypeOK, IsReply, CapacityOK, DecodedOK, HeapOK, vars, buffers, Block, Empty
  <2>2. NamesFaithful'
    BY <1>t, <1>9 DEF NamesFaithful, vars, buffers, Empty
  <2> QED BY <2>1, <2>2 DEF IInv
<1> QED BY <1>1, <1>2, <1>3, <1>4, <1>5, <1>6, <1>7, <1>8, <1>9 DEF Next

(* IInv holds always.                                                      *)
LEMMA Invariance == Spec => []IInv
BY InitInv, NextInv, PTL DEF Spec

-----------------------------------------------------------------------------
(* A caller of mongreldb_table_names that gets MDB_OK gets the reply's     *)
(* names, in memory that is allocated, and a NULL behind them.             *)
THEOREM NamesAreFaithful == Spec => []NamesFaithful
<1>1. IInv => NamesFaithful
  BY DEF IInv
<1> QED BY <1>1, Invariance, PTL

(* No write to names_arr leaves its block, although a failed realloc of an *)
(* earlier call left names_cap above what was there.                       *)
THEOREM WritesInBounds == Spec => []IndicesInBounds
<1>1. IInv => IndicesInBounds
  <2> SUFFICES ASSUME IInv, pc \in {"store", "resolve"}
               PROVE  count + 1 \in DOMAIN arr.at
    BY DEF IndicesInBounds
  <2>1. /\ arr.at \in Seq(Entry) /\ Len(arr.at) \in Nat /\ count \in Nat
        /\ count < Len(arr.at)
    BY DEF IInv, TypeOK, CapacityOK
  <2> QED BY <2>1
<1> QED BY <1>1, Invariance, PTL

(* Whatever is allocated for names is what mongreldb_close frees.          *)
THEOREM NothingLeaks == Spec => []NoLeak
<1>1. IInv => NoLeak
  BY DEF IInv, HeapOK, NoLeak
<1> QED BY <1>1, Invariance, PTL
=============================================================================
