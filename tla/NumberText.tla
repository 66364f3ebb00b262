------------------------------ MODULE NumberText ------------------------------
(***************************************************************************)
(* Numbers of a reply: json_get_number and parse_scalar_into copy the text *)
(* of a number into a buffer of fixed size, cutting it there, and have the *)
(* C library convert the copy.                                             *)
(*                                                                         *)
(* A text is a sequence of bytes, the run of characters that jp_number     *)
(* skips.  A double is the text strtod was given: its rounding is left out.*)
(***************************************************************************)
EXTENDS JsonText

CONSTANTS
    BufSize,    \* sizeof(buf), 64.
    MaxInt      \* INT64_MAX.

TenTo[n \in 0 .. BufSize] == IF n = 0 THEN 1 ELSE 10 * TenTo[n - 1]

(* The characters that fit hold more digits than any 64-bit integer.       *)
ASSUME NumberAssumption ==
    BufSize \in Nat \ (0 .. 3) /\ MaxInt \in Nat /\ TenTo[BufSize - 3] > MaxInt

Minus == 45
Point == 46
Digits == 48 .. 57
Exponents == {69, 101}

Clamp(n) == CASE n > MaxInt      -> MaxInt
              [] n < -MaxInt - 1 -> -MaxInt - 1
              [] OTHER           -> n

(* The value of the digits that end at each byte.                          *)
Value(s) ==
    LET value[k \in 0 .. Len(s)] ==
          IF k = 0 THEN 0
          ELSE IF s[k] \in Digits THEN 10 * value[k - 1] + s[k] - 48 ELSE 0
    IN  value

Signed(s, n) == IF s # << >> /\ s[1] = Minus THEN -n ELSE n

(* strtoll in base 10: a sign, the digits up to the first other byte, and  *)
(* the nearest limit for what is out of range.                             *)
Strtoll(s) ==
    LET read == {k \in 0 .. Len(s) :
                   \A i \in 1 .. k : s[i] \in Digits \/ (i = 1 /\ s[i] = Minus)}
        last == CHOOSE k \in read : \A j \in read : j <= k
    IN  Clamp(Signed(s, Value(s)[last]))

(* Mutant: one character less is kept.                                     *)
CutShort(t) == IF Len(t) >= BufSize - 1 THEN SubSeq(t, 1, BufSize - 2) ELSE t

(* What is copied: the last byte of the buffer is the NUL.                 *)
Cut(t) == IF Len(t) >= BufSize THEN SubSeq(t, 1, BufSize - 1) ELSE t

(* is_int: what was copied has neither a point nor an exponent.            *)
LooksInt(s) == \A i \in DOMAIN s : s[i] \notin {Point} \cup Exponents

(* A cell of a row (parse_scalar_into).                                    *)
Cell(t) == IF LooksInt(Cut(t)) THEN [tag |-> "int64", v |-> Strtoll(Cut(t))]
           ELSE [tag |-> "double", v |-> Cut(t)]

(* The integer of a field (json_get_number): 1e3 is 1.                     *)
Field(t) == Strtoll(Cut(t))

-----------------------------------------------------------------------------
(* Numbers as RFC 8259 has them: what the bytes of t from i to j are, or   *)
(* the first j.                                                            *)
PastSign(t, i, signs) == IF i <= Len(t) /\ t[i] \in signs THEN i + 1 ELSE i

AreDigits(t, i, j) == i <= j /\ \A k \in i .. j : t[k] \in Digits

IsInteger(t, j) == LET i == PastSign(t, 1, {Minus}) IN
                   AreDigits(t, i, j) /\ (t[i] = 48 => i = j)

IsFraction(t, i, j) == i <= j => t[i] = Point /\ AreDigits(t, i + 1, j)

IsExponent(t, i, j) ==
    i <= j => t[i] \in Exponents /\ AreDigits(t, PastSign(t, i + 1, Signs), j)

IsNumber(t) ==
    \E i, j \in 0 .. Len(t) :
        i <= j /\ IsInteger(t, i) /\ IsFraction(t, i + 1, j) /\ IsExponent(t, j + 1, Len(t))

(* Of the integers there are, the one that is closest to n.                *)
Nearest(n) ==
    LET off(m) == IF m < n THEN n - m ELSE m - n
        all == (-MaxInt - 1) .. MaxInt
    IN  CHOOSE m \in all : \A k \in all : off(m) <= off(k)

(* An integer of a reply, however long, is read as itself or as the limit  *)
(* it is beyond (that the copy is cut never makes it a smaller one); and a *)
(* number that is spelled otherwise, and fits, is a double, and whole.     *)
NumberIsRead ==
    pc = "find" /\ at = 1 /\ text = NoText =>
        /\ IsInteger(raw, Len(raw)) =>
              LET n == Nearest(Signed(raw, Value(raw)[Len(raw)])) IN
              Cell(raw) = [tag |-> "int64", v |-> n] /\ Field(raw) = n
        /\ IsNumber(raw) /\ ~ IsInteger(raw, Len(raw)) /\ Len(raw) < BufSize =>
              Cell(raw) = [tag |-> "double", v |-> raw]
=============================================================================
