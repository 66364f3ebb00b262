-------------------------------- MODULE Sbuf --------------------------------
(***************************************************************************)
(* The dynamic byte buffer every other part of the client is built on:     *)
(* sbuf_init, sbuf_free, sbuf_reserve and sbuf_append, and the two callers *)
(* that reserve room and then write into the block themselves              *)
(* (parse_scalar_into, and do_request terminating the response body).      *)
(*                                                                         *)
(* All sizes are C size_t values: arithmetic is modulo SizeMax + 1.  The   *)
(* statements of sbuf_reserve are separate steps, so that the sizes it     *)
(* computes on the way, and the loop that doubles them, are visible.       *)
(***************************************************************************)
EXTENDS Naturals, Integers, Sequences

CONSTANTS
    SizeMax,    \* SIZE_MAX of the build.
    MaxAlloc,   \* The largest block the allocator ever grants.
    InitCap,    \* Capacity of a first allocation: 64 in the code.
    Byte,       \* The values of a char.
    NUL,        \* The byte '\0'.
    Junk,       \* What a cell of a fresh block holds.
    Payloads    \* The byte strings callers append.

SizeT == 0 .. SizeMax

(* An object can not be as large as SIZE_MAX: no allocator grants it.      *)
ASSUME SizesAssumption ==
    /\ SizeMax \in Nat
    /\ MaxAlloc \in Nat
    /\ MaxAlloc < SizeMax
    /\ InitCap \in 1 .. SizeMax

ASSUME BytesAssumption ==
    /\ NUL \in Byte
    /\ Payloads \subseteq Seq(Byte)
    /\ \A p \in Payloads : Len(p) <= MaxAlloc

VARIABLES
    block,      \* The bytes of s->data; << >> when s->data is NULL.
    len,        \* s->len
    cap,        \* s->cap
    pc,         \* The statement the running call has reached, or "idle".
    op,         \* Which caller is running.
    arg,        \* The bytes it will write.
    extra,      \* The room it asks sbuf_reserve for.
    need,       \* Local of sbuf_reserve: len + extra + 1.
    ncap,       \* Local of sbuf_reserve: the capacity to allocate.
    ret         \* "busy" during a call, then its result.

buffer == << block, len, cap >>
locals == << op, arg, extra, need, ncap >>
vars == << block, len, cap, pc, op, arg, extra, need, ncap, ret >>

(* The value size_t arithmetic gives for the integer n.                    *)
Wrap(n) == IF n \in SizeT THEN n ELSE n % (SizeMax + 1)

NoCall == op' = "none" /\ arg' = << >> /\ extra' = 0 /\ need' = 0 /\ ncap' = 0

Return(result) == pc' = "idle" /\ ret' = result /\ NoCall

-----------------------------------------------------------------------------
Init == /\ block = << >> /\ len = 0 /\ cap = 0
        /\ pc = "idle" /\ ret = "ok"
        /\ op = "none" /\ arg = << >> /\ extra = 0 /\ need = 0 /\ ncap = 0

Enter(caller, bytes, room) ==
    /\ pc = "idle"
    /\ pc' = "guard" /\ ret' = "busy"
    /\ op' = caller /\ arg' = bytes /\ extra' = room
    /\ UNCHANGED << block, len, cap, need, ncap >>

(* sbuf_append, sbuf_append_str, sbuf_append_char.                         *)
CallAppend == \E p \in Payloads : Enter("append", p, Len(p))

(* parse_scalar_into: room for the raw text of a value, into which at most *)
(* as many bytes are decoded, then a NUL that the length includes.         *)
CallScalar ==
    \E p \in Payloads : \E raw \in Len(p) .. MaxAlloc : Enter("scalar", p, raw)

(* do_request: sbuf_reserve(&c->recv, 1), then data[len] = '\0'.           *)
CallTerminate == Enter("terminate", << >>, 1)

Free == /\ pc = "idle"
        /\ block' = << >> /\ len' = 0 /\ cap' = 0
        /\ UNCHANGED << pc, op, arg, extra, need, ncap, ret >>

-----------------------------------------------------------------------------
(* Mutants: no guard; a guard that forgets the terminator.                 *)
NeverOverflows == FALSE
OverflowsBare == extra > Wrap(SizeMax - len)

(* The overflow guard at the head of sbuf_reserve.                         *)
Overflows == extra > Wrap(SizeMax - 1 - len)

Refuse == /\ pc = "guard" /\ Overflows
          /\ Return("fail")
          /\ UNCHANGED buffer

(* Mutant: the loop starts from the capacity, which may be 0.              *)
MeasureFromZero == /\ pc = "guard" /\ ~Overflows
                   /\ need' = Wrap(len + extra + 1)
                   /\ IF need' <= cap
                      THEN pc' = "write" /\ UNCHANGED ncap
                      ELSE pc' = "grow" /\ ncap' = cap
                   /\ UNCHANGED << block, len, cap, op, arg, extra, ret >>

Measure == /\ pc = "guard" /\ ~Overflows
           /\ need' = Wrap(len + extra + 1)
           /\ IF need' <= cap
              THEN pc' = "write" /\ UNCHANGED ncap
              ELSE pc' = "grow" /\ ncap' = (IF cap # 0 THEN cap ELSE InitCap)
           /\ UNCHANGED << block, len, cap, op, arg, extra, ret >>

(* Mutant: doubling without the clamp.                                     *)
GrowUnclamped == /\ pc = "grow" /\ need > ncap
                 /\ ncap' = Wrap(ncap * 2)
                 /\ UNCHANGED << block, len, cap, pc, op, arg, extra, need, ret >>

(* The loop: double, or take the exact need when doubling would overflow.  *)
Grow == /\ pc = "grow" /\ need > ncap
        /\ IF ncap > SizeMax \div 2
           THEN ncap' = need /\ pc' = "realloc"
           ELSE ncap' = Wrap(ncap * 2) /\ UNCHANGED pc
        /\ UNCHANGED << block, len, cap, op, arg, extra, need, ret >>

GrowDone == /\ pc = "grow" /\ need <= ncap
            /\ pc' = "realloc"
            /\ UNCHANGED << block, len, cap, op, arg, extra, need, ncap, ret >>

(* Mutant: a fresh block without the old bytes.                            *)
ReallocForgets == /\ pc = "realloc" /\ ncap <= MaxAlloc
                  /\ block' = [i \in 1 .. ncap |-> Junk]
                  /\ cap' = ncap
                  /\ pc' = "write"
                  /\ UNCHANGED << len, op, arg, extra, need, ncap, ret >>

Realloc == /\ pc = "realloc" /\ ncap <= MaxAlloc
           /\ block' = [i \in 1 .. ncap |->
                           IF i <= Len(block) THEN block[i] ELSE Junk]
           /\ cap' = ncap
           /\ pc' = "write"
           /\ UNCHANGED << len, op, arg, extra, need, ncap, ret >>

(* Mutant: the new capacity is recorded before realloc is checked.         *)
ReallocFailsLate == /\ pc = "realloc"
                    /\ Return("fail")
                    /\ cap' = ncap
                    /\ UNCHANGED << block, len >>

(* realloc may fail whatever the size; s->data and s->cap are kept.        *)
ReallocFails == /\ pc = "realloc"
                /\ Return("fail")
                /\ UNCHANGED buffer

(* Mutant: no terminator.                                                  *)
WrittenBare == [i \in 1 .. Len(block) |->
                   IF i \in len + 1 .. len + Len(arg) THEN arg[i - len] ELSE block[i]]

(* The block with the bytes of arg at data[len] onwards and a NUL after.   *)
Written == [i \in 1 .. Len(block) |->
               IF i \in len + 1 .. len + Len(arg) THEN arg[i - len]
               ELSE IF i = len + Len(arg) + 1 THEN NUL ELSE block[i]]

Write == /\ pc = "write"
         /\ block' = Written
         /\ len' = len + Len(arg) + (IF op = "scalar" THEN 1 ELSE 0)
         /\ Return("ok")
         /\ UNCHANGED cap

Step == Refuse \/ Measure \/ Grow \/ GrowDone \/ Realloc \/ ReallocFails \/ Write

Next == CallAppend \/ CallScalar \/ CallTerminate \/ Free \/ Step

(* A function that was entered runs on: the calls are ordinary C calls.    *)
Spec == Init /\ [][Next]_vars /\ WF_vars(Step)

-----------------------------------------------------------------------------
TypeOK ==
    /\ block \in Seq(Byte \cup {Junk})
    /\ len \in SizeT /\ cap \in SizeT
    /\ pc \in {"idle", "guard", "grow", "realloc", "write"}
    /\ op \in {"none", "append", "scalar", "terminate"}
    /\ arg \in Seq(Byte)
    /\ extra \in SizeT /\ need \in SizeT /\ ncap \in SizeT
    /\ ret \in {"busy", "ok", "fail"}

(* Memory safety of every write an sbuf user makes after a successful      *)
(* sbuf_reserve: the bytes and their terminator lie inside the block that  *)
(* is really allocated, whatever sizes wrapped on the way.                 *)
WritesInBounds == pc = "write" => len + Len(arg) + 1 <= Len(block)

(* s->data is a C string at every return of a writer: a NUL follows the    *)
(* contents, or is their last byte when parse_scalar_into counted it.  So  *)
(* last_error and the bodies handed out never run off the block.           *)
Terminated ==
    pc = "idle" /\ len > 0 =>
        \/ len < Len(block) /\ block[len + 1] = NUL
        \/ len <= Len(block) /\ block[len] = NUL

(* The recorded capacity is the size of the block: realloc is never asked  *)
(* to shrink, and no reader trusts room that is not there.                 *)
CapacityIsReal == cap = Len(block) /\ len <= cap

(* The doubling loop only ever moves up: 2 * ncap never wraps around zero. *)
GrowthIsMonotone == [][pc = "grow" => ncap' = ncap \/ ncap' > ncap]_vars

(* sbuf_reserve returns: the doubling loop can not run for ever.           *)
CallsReturn == pc # "idle" ~> pc = "idle"

(* An append adds all of its bytes or none, and tells which: the reader of *)
(* the first len bytes can not see capacities, moves or terminators.       *)
Contents == SubSeq(block, 1, len)

Pending == IF op = "scalar" THEN Append(arg, NUL) ELSE arg

Str == INSTANCE ByteString WITH str <- Contents, asked <- Pending

IsByteString == Str!Spec
=============================================================================
