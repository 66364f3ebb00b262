----------------------------- MODULE SbufProofs -----------------------------
(***************************************************************************)
(* Proofs about Sbuf for every size_t width, every allocator limit and     *)
(* every set of payloads.                                                  *)
(***************************************************************************)
EXTENDS Sbuf, SequenceTheorems, TLAPS

(* What the locals of a running call say about the buffer: the need it     *)
(* computed did not wrap, the capacity it is about to ask for covers it,   *)
(* and once the room is there it is there for the whole write.             *)
LocalsOK ==
    /\ pc = "idle" => arg = << >> /\ extra = 0 /\ op = "none"
    /\ pc = "idle" <=> ret # "busy"
    /\ Len(arg) <= extra
    /\ pc \in {"grow", "realloc"} => need = len + extra + 1 /\ ncap >= 1
    /\ pc = "realloc" => need <= ncap
    /\ pc = "write" => len + extra + 1 <= cap

(* Blocks never exceed what the allocator grants, so SIZE_MAX - 1 - len in *)
(* the guard of sbuf_reserve does not wrap.                                *)
BufferOK == cap = Len(block) /\ len <= cap /\ cap <= MaxAlloc

(* Terminated, between the statements of a call too.                       *)
ContentsOK ==
    len > 0 => \/ len < Len(block) /\ block[len + 1] = NUL
               \/ block[len] = NUL

IInv == TypeOK /\ BufferOK /\ LocalsOK /\ ContentsOK

-----------------------------------------------------------------------------
(* The guard at the head of sbuf_reserve is exact: when it lets a request  *)
(* through, len + extra + 1 is a size_t and is computed without wrapping.  *)
LEMMA GuardExact ==
    ASSUME NEW l \in SizeT, l <= MaxAlloc, NEW x \in SizeT,
           ~(x > Wrap(SizeMax - 1 - l))
    PROVE  l + x + 1 \in SizeT /\ Wrap(l + x + 1) = l + x + 1
<1>1. SizeMax - 1 - l \in SizeT
  BY SizesAssumption DEF SizeT
<1>2. Wrap(SizeMax - 1 - l) = SizeMax - 1 - l
  BY <1>1 DEF Wrap
<1>3. l + x + 1 \in SizeT
  BY <1>1, <1>2, SizesAssumption DEF SizeT
<1> QED BY <1>3 DEF Wrap

(* Doubling below the clamp stays a size_t and strictly grows.             *)
LEMMA DoublingExact ==
    ASSUME NEW n \in SizeT, n >= 1, ~(n > SizeMax \div 2)
    PROVE  n * 2 \in SizeT /\ Wrap(n * 2) = n * 2 /\ n * 2 > n
<1>1. n * 2 \in SizeT
  BY SizesAssumption DEF SizeT
<1> QED BY <1>1 DEF Wrap, SizeT

(* The shape of the block after a write.                                   *)
LEMMA WrittenShape ==
    ASSUME NEW b \in Seq(Byte \cup {Junk}), block = b, arg \in Seq(Byte),
           len \in Nat
    PROVE  /\ Written \in Seq(Byte \cup {Junk})
           /\ Len(Written) = Len(b)
<1>1. \A i \in 1 .. Len(b) : Written[i] \in Byte \cup {Junk}
  <2> SUFFICES ASSUME NEW i \in 1 .. Len(b) PROVE Written[i] \in Byte \cup {Junk}
    OBVIOUS
  <2>1. CASE i \in len + 1 .. len + Len(arg)
    <3>1. i - len \in 1 .. Len(arg)
      BY <2>1
    <3>2. arg[i - len] \in Byte
      BY <3>1
    <3> QED BY <2>1, <3>2 DEF Written
  <2>2. CASE i \notin len + 1 .. len + Len(arg)
    <3>1. b[i] \in Byte \cup {Junk}
      OBVIOUS
    <3> QED BY <2>2, <3>1, BytesAssumption DEF Written
  <2> QED BY <2>1, <2>2
<1>2. Written = [i \in 1 .. Len(b) |-> Written[i]]
  BY DEF Written
<1>3. Len(b) \in Nat
  OBVIOUS
<1> QED BY <1>1, <1>2, <1>3

-----------------------------------------------------------------------------
(* An empty sbuf, before any call, satisfies the invariant.                *)
LEMMA InitInv == Init => IInv
<1> SUFFICES ASSUME Init PROVE IInv
  OBVIOUS
<1>1. TypeOK
  BY SizesAssumption DEF Init, TypeOK, SizeT
<1>2. BufferOK /\ LocalsOK /\ ContentsOK
  BY SizesAssumption DEF Init, BufferOK, LocalsOK, ContentsOK
<1> QED BY <1>1, <1>2 DEF IInv

(* One step per action: the statements of a call in the order they run.    *)
LEMMA NextInv == IInv /\ [Next]_vars => IInv'
<1> SUFFICES ASSUME IInv, [Next]_vars PROVE IInv'
  OBVIOUS
<1>t. TypeOK /\ BufferOK /\ LocalsOK /\ ContentsOK
  BY DEF IInv
<1>s. /\ SizeMax \in Nat /\ MaxAlloc \in Nat /\ MaxAlloc < SizeMax
      /\ InitCap \in SizeT /\ InitCap >= 1
  BY SizesAssumption DEF SizeT
<1>l. Len(block) \in Nat /\ Len(arg) \in Nat /\ len \in Nat /\ extra \in Nat
  BY <1>t DEF TypeOK, SizeT
<1>1. ASSUME NEW caller \in {"append", "scalar", "terminate"},
             NEW bytes \in Seq(Byte), NEW room \in SizeT,
             Len(bytes) <= room, Enter(caller, bytes, room)
      PROVE  IInv'
  <2>1. TypeOK'
    BY <1>t, <1>1 DEF TypeOK, Enter
  <2>2. BufferOK' /\ LocalsOK' /\ ContentsOK'
    BY <1>t, <1>1 DEF BufferOK, LocalsOK, ContentsOK, Enter
  <2> QED BY <2>1, <2>2 DEF IInv
<1>2. CASE CallAppend
  <2>1. PICK p \in Payloads : Enter("append", p, Len(p))
    BY <1>2 DEF CallAppend
  <2>2. p \in Seq(Byte) /\ Len(p) \in SizeT
    BY <1>s, BytesAssumption DEF SizeT
  <2> QED BY <1>1, <2>1, <2>2
<1>3. CASE CallScalar
  <2>0. PICK p \in Payloads : \E raw \in Len(p) .. MaxAlloc : Enter("scalar", p, raw)
    BY <1>3 DEF CallScalar
  <2>1. PICK raw \in Len(p) .. MaxAlloc : Enter("scalar", p, raw)
    BY <2>0
  <2>2. p \in Seq(Byte) /\ Len(p) \in Nat
    BY BytesAssumption
  <2>3. raw \in SizeT /\ Len(p) <= raw
    BY <1>s, <2>2 DEF SizeT
  <2> QED BY <1>1, <2>1, <2>2, <2>3
<1>4. CASE CallTerminate
  <2>1. 1 \in SizeT
    BY <1>s DEF SizeT
  <2>2. << >> \in Seq(Byte) /\ Len(<< >>) <= 1
    OBVIOUS
  <2> QED BY <1>1, <1>4, <2>1, <2>2 DEF CallTerminate
<1>5. CASE Free
  <2>1. TypeOK'
    BY <1>t, <1>5, <1>s DEF TypeOK, Free, SizeT
  <2>2. BufferOK' /\ LocalsOK' /\ ContentsOK'
    BY <1>t, <1>5, <1>s DEF BufferOK, LocalsOK, ContentsOK, Free
  <2> QED BY <2>1, <2>2 DEF IInv
<1>6. CASE Refuse
  <2>1. TypeOK'
    BY <1>t, <1>6, <1>s DEF TypeOK, Refuse, Return, NoCall, buffer, SizeT
  <2>2. BufferOK' /\ LocalsOK' /\ ContentsOK'
    BY <1>t, <1>6 DEF BufferOK, LocalsOK, ContentsOK, Refuse, Return, NoCall, buffer
  <2> QED BY <2>1, <2>2 DEF IInv
<1>7. CASE Measure
  <2>1. len \in SizeT /\ extra \in SizeT /\ len <= MaxAlloc
    BY <1>t, <1>l, <1>s DEF TypeOK, BufferOK, SizeT
  <2>g. ~(extra > Wrap(SizeMax - 1 - len))
    BY <1>7 DEF Measure, Overflows
  <2>2. need' = len + extra + 1 /\ need' \in SizeT
    BY <2>1, <2>g, <1>7, GuardExact DEF Measure
  <2>3. CASE need' <= cap
    <3>1. pc' = "write" /\ ncap' = ncap
      BY <1>7, <2>3 DEF Measure
    <3>2. TypeOK'
      BY <1>t, <1>7, <2>2, <3>1 DEF TypeOK, Measure
    <3>3. BufferOK' /\ LocalsOK' /\ ContentsOK'
      BY <1>t, <1>7, <2>2, <2>3, <3>1 DEF BufferOK, LocalsOK, ContentsOK, Measure
    <3> QED BY <3>2, <3>3 DEF IInv
  <2>4. CASE ~(need' <= cap)
    <3>1. pc' = "grow" /\ ncap' = (IF cap # 0 THEN cap ELSE InitCap)
      BY <1>7, <2>4 DEF Measure
    <3>2. ncap' \in SizeT /\ ncap' >= 1
      BY <1>t, <1>s, <3>1 DEF TypeOK, SizeT
    <3>3. TypeOK'
      BY <1>t, <1>7, <2>2, <3>1, <3>2 DEF TypeOK, Measure
    <3>4. BufferOK' /\ LocalsOK' /\ ContentsOK'
      BY <1>t, <1>7, <2>2, <3>1, <3>2 DEF BufferOK, LocalsOK, ContentsOK, Measure
    <3> QED BY <3>3, <3>4 DEF IInv
  <2> QED BY <2>3, <2>4
<1>8. CASE Grow
  <2>1. CASE ncap > SizeMax \div 2
    <3>1. ncap' = need /\ pc' = "realloc"
      BY <1>8, <2>1 DEF Grow
    <3>2. TypeOK'
      BY <1>t, <1>8, <3>1 DEF TypeOK, Grow
    <3>3. need >= 1
      BY <1>t, <1>8, <1>l DEF LocalsOK, Grow
    <3>4. BufferOK' /\ LocalsOK' /\ ContentsOK'
      BY <1>t, <1>8, <1>l, <3>1, <3>3 DEF BufferOK, LocalsOK, ContentsOK, Grow
    <3> QED BY <3>2, <3>4 DEF IInv
  <2>2. CASE ~(ncap > SizeMax \div 2)
    <3>1. ncap' = Wrap(ncap * 2) /\ pc' = pc
      BY <1>8, <2>2 DEF Grow
    <3>2. ncap \in SizeT /\ ncap >= 1
      BY <1>t, <1>8 DEF TypeOK, LocalsOK, Grow
    <3>3. ncap' \in SizeT /\ ncap' >= 1
      BY <2>2, <3>1, <3>2, DoublingExact DEF SizeT
    <3>4. TypeOK'
      BY <1>t, <1>8, <3>1, <3>3 DEF TypeOK, Grow
    <3>5. BufferOK' /\ LocalsOK' /\ ContentsOK'
      BY <1>t, <1>8, <3>1, <3>3 DEF BufferOK, LocalsOK, ContentsOK, Grow
    <3> QED BY <3>4, <3>5 DEF IInv
  <2> QED BY <2>1, <2>2
<1>9. CASE GrowDone
  <2>1. TypeOK'
    BY <1>t, <1>9 DEF TypeOK, GrowDone
  <2>2. BufferOK' /\ LocalsOK' /\ ContentsOK'
    BY <1>t, <1>9 DEF BufferOK, LocalsOK, ContentsOK, GrowDone
  <2> QED BY <2>1, <2>2 DEF IInv
<1>10. CASE Realloc
  <2>1. need = len + extra + 1 /\ need <= ncap /\ ncap <= MaxAlloc /\ ncap \in Nat
    BY <1>t, <1>10 DEF LocalsOK, TypeOK, Realloc, SizeT
  <2>2. block' \in Seq(Byte \cup {Junk}) /\ Len(block') = ncap
    <3>1. \A i \in 1 .. ncap : (IF i <= Len(block) THEN block[i] ELSE Junk) \in Byte \cup {Junk}
      BY <1>t, <1>l, <2>1 DEF TypeOK
    <3> QED BY <1>10, <2>1, <3>1 DEF Realloc
  <2>3. \A i \in 1 .. ncap : i <= Len(block) => block'[i] = block[i]
    BY <1>10, <2>1 DEF Realloc
  <2>4. TypeOK'
    BY <1>t, <1>10, <2>1, <2>2 DEF TypeOK, Realloc
  <2>5. BufferOK' /\ LocalsOK'
    BY <1>t, <1>10, <1>l, <2>1, <2>2 DEF BufferOK, LocalsOK, Realloc
  <2>6. ContentsOK'
    BY <1>t, <1>10, <1>l, <2>1, <2>2, <2>3 DEF ContentsOK, BufferOK, Realloc
  <2> QED BY <2>4, <2>5, <2>6 DEF IInv
<1>11. CASE ReallocFails
  <2>1. TypeOK'
    BY <1>t, <1>11, <1>s DEF TypeOK, ReallocFails, Return, NoCall, buffer, SizeT
  <2>2. BufferOK' /\ LocalsOK' /\ ContentsOK'
    BY <1>t, <1>11 DEF BufferOK, LocalsOK, ContentsOK, ReallocFails, Return, NoCall, buffer
  <2> QED BY <2>1, <2>2 DEF IInv
<1>12. CASE Write
  <2>1. len + Len(arg) + 1 <= Len(block)
    BY <1>t, <1>l, <1>12 DEF BufferOK, LocalsOK, Write
  <2>2. block' \in Seq(Byte \cup {Junk}) /\ Len(block') = Len(block)
    BY <1>t, <1>l, <1>12, WrittenShape DEF TypeOK, Write
  <2>3. block'[len + Len(arg) + 1] = NUL
    <3>1. len + Len(arg) + 1 \in 1 .. Len(block)
      BY <1>l, <2>1
    <3>2. Written[len + Len(arg) + 1] = NUL
      BY <1>l, <3>1 DEF Written
    <3> QED BY <1>12, <3>2 DEF Write
  <2>4. len' \in Nat /\ len' <= Len(block) /\ len' \in {len + Len(arg), len + Len(arg) + 1}
    BY <1>12, <1>l, <2>1 DEF Write
  <2>5. TypeOK'
    <3>1. len' \in SizeT
      BY <1>t, <1>s, <2>4 DEF BufferOK, SizeT
    <3> QED BY <1>t, <1>12, <1>s, <2>2, <3>1 DEF TypeOK, Write, Return, NoCall, SizeT
  <2>6. BufferOK' /\ LocalsOK'
    BY <1>t, <1>12, <2>2, <2>4 DEF BufferOK, LocalsOK, Write, Return, NoCall
  <2>7. ContentsOK'
    BY <1>l, <2>1, <2>2, <2>3, <2>4 DEF ContentsOK
  <2> QED BY <2>5, <2>6, <2>7 DEF IInv
<1>13. CASE UNCHANGED vars
  <2>1. TypeOK'
    BY <1>t, <1>13 DEF TypeOK, vars
  <2>2. BufferOK' /\ LocalsOK' /\ ContentsOK'
    BY <1>t, <1>13 DEF BufferOK, LocalsOK, ContentsOK, vars
  <2> QED BY <2>1, <2>2 DEF IInv
<1> QED
  BY <1>2, <1>3, <1>4, <1>5, <1>6, <1>7, <1>8, <1>9, <1>10, <1>11, <1>12, <1>13
     DEF Next, Step

(* Every reachable state of the buffer and of a call in it satisfies the   *)
(* inductive invariant.                                                    *)
THEOREM Invariance == Spec => []IInv
BY InitInv, NextInv, PTL DEF Spec

(* Every variable of the buffer and of a running call keeps its C type.    *)
THEOREM TypeCorrect == Spec => []TypeOK
<1>1. IInv => TypeOK
  BY DEF IInv
<1> QED BY <1>1, Invariance, PTL

(* No write after a successful sbuf_reserve leaves the allocated block.    *)
THEOREM MemorySafe == Spec => []WritesInBounds
<1>1. IInv => WritesInBounds
  BY DEF IInv, TypeOK, BufferOK, LocalsOK, WritesInBounds, SizeT
<1> QED BY <1>1, Invariance, PTL

(* The contents stay a C string.                                           *)
THEOREM AlwaysTerminated == Spec => []Terminated
<1>1. IInv => Terminated
  BY DEF IInv, BufferOK, ContentsOK, Terminated
<1> QED BY <1>1, Invariance, PTL

(* s->cap is the size of the block s->data points to.                      *)
THEOREM CapacityCorrect == Spec => []CapacityIsReal
<1>1. IInv => CapacityIsReal
  BY DEF IInv, BufferOK, CapacityIsReal
<1> QED BY <1>1, Invariance, PTL

(* The doubling loop of sbuf_reserve never wraps around.                   *)
THEOREM GrowthMonotone == Spec => GrowthIsMonotone
<1>1. IInv /\ [Next]_vars => [pc = "grow" => ncap' = ncap \/ ncap' > ncap]_vars
  <2> SUFFICES ASSUME IInv, [Next]_vars, pc = "grow", ncap' # ncap
               PROVE  ncap' > ncap
    OBVIOUS
  <2>1. Grow
    BY DEF Next, CallAppend, CallScalar, CallTerminate, Enter, Free, Step, Refuse,
           Measure, GrowDone, Realloc, ReallocFails, Write, vars
  <2>2. CASE ncap > SizeMax \div 2
    BY <2>1, <2>2 DEF Grow, IInv, TypeOK, SizeT
  <2>3. CASE ~(ncap > SizeMax \div 2)
    <3>1. ncap \in SizeT /\ ncap >= 1 /\ ncap' = Wrap(ncap * 2)
      BY <2>1, <2>3 DEF Grow, IInv, TypeOK, LocalsOK
    <3> QED BY <2>3, <3>1, DoublingExact
  <2> QED BY <2>2, <2>3
<1> QED BY <1>1, Invariance, PTL DEF Spec, GrowthIsMonotone

-----------------------------------------------------------------------------
(* The bytes of the buffer, as the abstract string sees them.              *)
LEMMA ContentsShape ==
    ASSUME NEW b \in Seq(Byte \cup {Junk}), NEW n \in Nat, n <= Len(b)
    PROVE  /\ SubSeq(b, 1, n) \in Seq(Byte \cup {Junk})
           /\ Len(SubSeq(b, 1, n)) = n
           /\ \A i \in 1 .. n : SubSeq(b, 1, n)[i] = b[i]
<1>1. \A i \in 1 .. n : b[i] \in Byte \cup {Junk}
  OBVIOUS
<1>2. /\ SubSeq(b, 1, n) \in Seq(Byte \cup {Junk})
      /\ Len(SubSeq(b, 1, n)) = (IF 1 <= n THEN n - 1 + 1 ELSE 0)
      /\ \A i \in 1 .. n - 1 + 1 : SubSeq(b, 1, n)[i] = b[1 + i - 1]
  BY <1>1, SubSeqProperties
<1> QED BY <1>2

(* realloc moves the contents, it does not change them.                    *)
LEMMA ReallocKeeps == IInv /\ Realloc => Contents' = Contents
<1> SUFFICES ASSUME IInv, Realloc PROVE Contents' = Contents
  OBVIOUS
<1>1. /\ block \in Seq(Byte \cup {Junk}) /\ len \in Nat /\ len <= Len(block)
      /\ ncap \in Nat /\ len <= ncap /\ Len(block) \in Nat
  BY DEF IInv, TypeOK, BufferOK, LocalsOK, Realloc, SizeT
<1>2. IInv'
  BY NextInv DEF Next, Step
<1>3. /\ block' \in Seq(Byte \cup {Junk}) /\ len' = len /\ len <= Len(block')
  BY <1>1, <1>2 DEF IInv, TypeOK, BufferOK, Realloc
<1>4. \A i \in 1 .. len : block'[i] = block[i]
  BY <1>1 DEF Realloc
<1>5. /\ Contents \in Seq(Byte \cup {Junk}) /\ Len(Contents) = len
      /\ \A i \in 1 .. len : Contents[i] = block[i]
  BY <1>1, ContentsShape DEF Contents
<1>6. /\ Contents' \in Seq(Byte \cup {Junk}) /\ Len(Contents') = len
      /\ \A i \in 1 .. len : Contents'[i] = block'[i]
  BY <1>1, <1>3, ContentsShape DEF Contents
<1> QED BY <1>4, <1>5, <1>6, SeqEqual

(* A write adds exactly the pending bytes.                                 *)
LEMMA WriteAppends == IInv /\ Write => Contents' = Contents \o Pending
<1> SUFFICES ASSUME IInv, Write PROVE Contents' = Contents \o Pending
  OBVIOUS
<1> DEFINE Cell == Byte \cup {Junk}
<1>1. /\ block \in Seq(Cell) /\ arg \in Seq(Byte) /\ len \in Nat
      /\ Len(block) \in Nat /\ Len(arg) \in Nat
      /\ len + Len(arg) + 1 <= Len(block)
  BY DEF IInv, TypeOK, BufferOK, LocalsOK, Write, SizeT
<1>2. /\ Pending \in Seq(Cell)
      /\ len' = len + Len(Pending)
      /\ Len(Pending) \in {Len(arg), Len(arg) + 1}
      /\ \A i \in 1 .. Len(Pending) :
            Pending[i] = IF i <= Len(arg) THEN arg[i] ELSE NUL
  <2>1. arg \in Seq(Cell) /\ NUL \in Cell
    BY <1>1, SeqMonotonic, BytesAssumption
  <2>2. CASE op = "scalar"
    <3>1. Pending = Append(arg, NUL) /\ len' = len + Len(arg) + 1
      BY <2>2, <1>1 DEF Pending, Write
    <3>2. /\ Append(arg, NUL) \in Seq(Cell)
          /\ Len(Append(arg, NUL)) = Len(arg) + 1
          /\ \A i \in 1 .. Len(arg) + 1 :
                Append(arg, NUL)[i] = IF i <= Len(arg) THEN arg[i] ELSE NUL
      BY <2>1, <1>1
    <3>3. Len(Pending) = Len(arg) + 1 /\ len' = len + Len(Pending)
      BY <3>1, <3>2, <1>1
    <3>4. Pending \in Seq(Cell)
      BY <3>1, <3>2
    <3>5. \A i \in 1 .. Len(Pending) :
             Pending[i] = IF i <= Len(arg) THEN arg[i] ELSE NUL
      BY <3>1, <3>2
    <3> HIDE DEF Cell
    <3> QED BY <3>3, <3>4, <3>5
  <2>3. CASE op # "scalar"
    BY <2>1, <2>3, <1>1 DEF Pending, Write
  <2> QED BY <2>2, <2>3
<1>3. IInv'
  BY NextInv DEF Next, Step
<1>4. block' \in Seq(Cell) /\ Len(block') = Len(block) /\ len' <= Len(block')
  BY <1>1, <1>2, <1>3, WrittenShape DEF IInv, TypeOK, BufferOK, Write
<1>5. \A i \in 1 .. len' :
        block'[i] = IF i <= len THEN block[i] ELSE Pending[i - len]
  <2> SUFFICES ASSUME NEW i \in 1 .. len'
               PROVE  block'[i] = IF i <= len THEN block[i] ELSE Pending[i - len]
    OBVIOUS
  <2>1. i \in Nat /\ i \in 1 .. Len(block)
    BY <1>1, <1>2, <1>4
  <2>2. block'[i] = IF i \in len + 1 .. len + Len(arg) THEN arg[i - len]
                    ELSE IF i = len + Len(arg) + 1 THEN NUL ELSE block[i]
    BY <2>1 DEF Write, Written
  <2>3. CASE i <= len
    <3>1. i \notin len + 1 .. len + Len(arg) /\ i # len + Len(arg) + 1
      BY <2>1, <2>3, <1>1
    <3> QED BY <3>1, <2>2, <2>3
  <2>4. CASE i > len /\ i <= len + Len(arg)
    <3>1. /\ i \in len + 1 .. len + Len(arg) /\ ~(i <= len)
          /\ i - len \in 1 .. Len(Pending) /\ i - len <= Len(arg)
      BY <2>1, <2>4, <1>1, <1>2
    <3>2. Pending[i - len] = arg[i - len]
      BY <3>1, <1>2
    <3> QED BY <3>1, <3>2, <2>2
  <2>5. CASE i > len + Len(arg)
    <3>1. i <= len + Len(Pending)
      BY <1>2
    <3>2. /\ i \notin len + 1 .. len + Len(arg) /\ i = len + Len(arg) + 1
          /\ i - len \in 1 .. Len(Pending) /\ ~(i - len <= Len(arg)) /\ ~(i <= len)
      BY <3>1, <2>1, <2>5, <1>1, <1>2
    <3>3. Pending[i - len] = NUL
      BY <3>2, <1>2
    <3> QED BY <3>2, <3>3, <2>2
  <2>6. i <= len \/ (i > len /\ i <= len + Len(arg)) \/ i > len + Len(arg)
    BY <2>1, <1>1
  <2> QED BY <2>3, <2>4, <2>5, <2>6
<1>6. /\ Contents \in Seq(Cell) /\ Len(Contents) = len
      /\ \A i \in 1 .. len : Contents[i] = block[i]
  BY <1>1, ContentsShape DEF Contents
<1>7. /\ Contents' \in Seq(Cell) /\ Len(Contents') = len'
      /\ \A i \in 1 .. len' : Contents'[i] = block'[i]
  BY <1>1, <1>2, <1>4, ContentsShape DEF Contents
<1>8. /\ Contents \o Pending \in Seq(Cell)
      /\ Len(Contents \o Pending) = len + Len(Pending)
      /\ \A i \in 1 .. len + Len(Pending) : (Contents \o Pending)[i] =
              IF i <= len THEN Contents[i] ELSE Pending[i - len]
  BY <1>2, <1>6, ConcatProperties
<1>9. \A i \in 1 .. len' : Contents'[i] = (Contents \o Pending)[i]
  <2> SUFFICES ASSUME NEW i \in 1 .. len'
               PROVE  Contents'[i] = (Contents \o Pending)[i]
    OBVIOUS
  <2>1. /\ Contents'[i] = IF i <= len THEN block[i] ELSE Pending[i - len]
        /\ i \in 1 .. len + Len(Pending)
    BY <1>2, <1>5, <1>7
  <2>2. (Contents \o Pending)[i] = IF i <= len THEN Contents[i] ELSE Pending[i - len]
    BY <2>1, <1>8
  <2>3. i <= len => Contents[i] = block[i]
    BY <1>6, <1>1, <2>1
  <2> QED BY <2>1, <2>2, <2>3
<1>10. Len(Contents') = Len(Contents \o Pending)
  BY <1>2, <1>7, <1>8
<1>11. \A i \in 1 .. Len(Contents') : Contents'[i] = (Contents \o Pending)[i]
  BY <1>7, <1>9
<1> HIDE DEF Cell
<1> QED BY <1>7, <1>8, <1>10, <1>11, SeqEqual

(* Seen through its first len bytes, an sbuf is a string to which an append *)
(* adds all of its bytes or, reporting a failure, none.                     *)
THEOREM ImplementsByteString == Spec => IsByteString
<1>1. Init => Str!Init
  <2> SUFFICES ASSUME Init PROVE Str!Init
    OBVIOUS
  <2>1. Contents = << >> /\ Pending = << >>
    BY SubSeqEmpty DEF Init, Contents, Pending
  <2> QED BY <2>1 DEF Init, Str!Init
<1>2. IInv /\ [Next]_vars => [Str!Next]_(Str!vars)
  <2> SUFFICES ASSUME IInv, [Next]_vars PROVE [Str!Next]_(Str!vars)
    OBVIOUS
  <2>i. pc = "idle" => Pending = << >>
    BY DEF IInv, LocalsOK, Pending
  <2>r. pc = "idle" <=> ret # "busy"
    BY DEF IInv, LocalsOK
  <2>1. ASSUME NEW caller \in {"append", "scalar", "terminate"},
               NEW p \in Payloads \cup {<< >>}, NEW room,
               Enter(caller, p, room)
        PROVE  Str!Ask
    <3>1. ret # "busy" /\ ret' = "busy" /\ Contents' = Contents
      BY <2>1, <2>r DEF Enter, Contents
    <3>2. Pending' \in {p, Append(p, NUL)}
      BY <2>1 DEF Enter, Pending
    <3> QED BY <3>1, <3>2 DEF Str!Ask
  <2>2. CASE CallAppend
    BY <2>1, <2>2 DEF CallAppend, Str!Next
  <2>3. CASE CallScalar
    BY <2>1, <2>3 DEF CallScalar, Str!Next
  <2>4. CASE CallTerminate
    BY <2>1, <2>4 DEF CallTerminate, Str!Next
  <2>5. CASE Free
    <3>1. Contents' = << >>
      BY <2>5, SubSeqEmpty DEF Free, Contents
    <3>2. Pending' = Pending /\ ret' = ret /\ ret # "busy"
      BY <2>5, <2>r DEF Free, Pending
    <3> QED BY <3>1, <3>2 DEF Str!Clear, Str!Next
  <2>6. CASE Refuse \/ ReallocFails
    <3>1. Contents' = Contents /\ Pending' = << >> /\ ret' = "fail" /\ ret = "busy"
      BY <2>6, <2>r DEF Refuse, ReallocFails, Return, NoCall, buffer, Contents, Pending
    <3> QED BY <3>1 DEF Str!Refuse, Str!Next
  <2>7. CASE Measure \/ Grow \/ GrowDone
    <3>1. Contents' = Contents /\ Pending' = Pending /\ ret' = ret
      BY <2>7 DEF Measure, Grow, GrowDone, Contents, Pending
    <3> QED BY <3>1 DEF Str!vars
  <2>8. CASE Realloc
    <3>1. Contents' = Contents /\ Pending' = Pending /\ ret' = ret
      BY <2>8, ReallocKeeps DEF Realloc, Pending
    <3> QED BY <3>1 DEF Str!vars
  <2>9. CASE Write
    <3>1. Contents' = Contents \o Pending
      BY <2>9, WriteAppends
    <3>2. Pending' = << >> /\ ret' = "ok" /\ ret = "busy"
      BY <2>9, <2>r DEF Write, Return, NoCall, Pending
    <3> QED BY <3>1, <3>2 DEF Str!Succeed, Str!Next
  <2>10. CASE UNCHANGED vars
    BY <2>10 DEF vars, Contents, Pending, Str!vars
  <2> QED
    BY <2>2, <2>3, <2>4, <2>5, <2>6, <2>7, <2>8, <2>9, <2>10 DEF Next, Step
<1> QED BY <1>1, <1>2, Invariance, PTL DEF Spec, IsByteString, Str!Spec
=============================================================================
