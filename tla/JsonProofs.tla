------------------------------ MODULE JsonProofs ------------------------------
(***************************************************************************)
(* Theorems about JsonText, for every string an application stages and     *)
(* every reply, however it is spelled; about NumberText, for every number  *)
(* of a reply and every size of the buffer and of an integer; about        *)
(* JsonWalk, for every reply: of any length, with brackets as deep as it   *)
(* likes; and about RequestBody, for the body of every request.            *)
(*                                                                         *)
(* What a string means, the value of its digits and where a value ends are *)
(* functions defined by recursion, so that what is proved of them is       *)
(* proved by induction, which the first section derives from the fact that *)
(* every set of naturals has a least element.                              *)
(***************************************************************************)
EXTENDS NumberText, JsonWire, SequenceTheorems, WellFoundedInduction, TLAPS

LEMMA Least ==
    ASSUME NEW T, T \subseteq Nat, T # {}
    PROVE  \E m \in T : m \in Nat /\ \A k \in T : k \in Nat /\ m <= k
<1> DEFINE R == OpToRel(<, Nat)
<1>1. IsWellFoundedOn(R, Nat)
  BY NatLessThanWellFounded
<1>2. \A x, y \in Nat : x < y => << x, y >> \in R
  BY DEF OpToRel
<1> HIDE DEF R
<1>3. PICK m \in T : \A y \in T : ~ (<< y, m >> \in R)
  BY <1>1, WFMin
<1>4. m \in Nat
  OBVIOUS
<1>5. ASSUME NEW k \in T PROVE k \in Nat /\ m <= k
  <2>1. k \in Nat /\ ~ (k < m)
    BY <1>2, <1>3, <1>4
  <2> QED BY <1>4, <2>1
<1> QED BY <1>4, <1>5

LEMMA Induct ==
    ASSUME NEW P, 0 \in P, \A n \in Nat : n \in P => n + 1 \in P
    PROVE  Nat \subseteq P
<1> SUFFICES ASSUME Nat \ P # {} PROVE FALSE
  OBVIOUS
<1>1. PICK m \in Nat \ P : m \in Nat /\ \A k \in Nat \ P : k \in Nat /\ m <= k
  <2> DEFINE T == Nat \ P
  <2>1. T \subseteq Nat /\ T # {}
    OBVIOUS
  <2> HIDE DEF T
  <2>2. \E m \in T : m \in Nat /\ \A k \in T : k \in Nat /\ m <= k
    BY <2>1, Least
  <2> QED BY <2>2 DEF T
<1>2. m # 0 /\ m - 1 \in Nat /\ (m - 1) + 1 = m
  BY <1>1
<1>3. m - 1 \in P
  BY <1>1, <1>2
<1> QED BY <1>1, <1>2, <1>3

(* What holds of whatever it holds of all below, holds of all.             *)
LEMMA ByRank ==
    ASSUME NEW D, NEW rank \in [D -> Nat], NEW P,
           \A d \in D : (\A c \in D : rank[c] < rank[d] => c \in P) => d \in P
    PROVE  D \subseteq P
<1> SUFFICES ASSUME NEW x \in D, x \notin P PROVE FALSE
  OBVIOUS
<1> DEFINE T == {rank[d] : d \in D \ P}
<1>1. T \subseteq Nat /\ T # {}
  OBVIOUS
<1> HIDE DEF T
<1>2. PICK m \in T : m \in Nat /\ \A k \in T : k \in Nat /\ m <= k
  BY <1>1, Least
<1>3. PICK d \in D \ P : rank[d] = m
  BY DEF T
<1>4. ASSUME NEW c \in D, rank[c] < rank[d] PROVE c \in P
  <2> SUFFICES ASSUME c \notin P PROVE FALSE
    OBVIOUS
  <2>1. rank[c] \in T
    BY DEF T
  <2>2. rank[c] \in Nat /\ m <= rank[c]
    BY <1>2, <2>1
  <2> QED BY <1>2, <1>3, <1>4, <2>2
<1> QED BY <1>3, <1>4

Sound(D, Ok) == {f \in [D -> UNION {Ok[d] : d \in D}] : \A d \in D : f[d] \in Ok[d]}

(* What step says of d depends on what it says of what has a lower rank.   *)
Recursive(D, Ok, rank, top, step) ==
    /\ rank \in [D -> Nat] /\ top \in Nat /\ \A d \in D : rank[d] < top
    /\ \A d \in D : Ok[d] # {}
    /\ \A f \in Sound(D, Ok), d \in D : step[<< f, d >>] \in Ok[d]
    /\ \A f, g \in Sound(D, Ok), d \in D :
          (\A c \in D : rank[c] < rank[d] => f[c] = g[c]) => step[<< f, d >>] = step[<< g, d >>]

LEMMA Recursion ==
    ASSUME NEW D, NEW Ok, NEW rank, NEW top, NEW step, Recursive(D, Ok, rank, top, step)
    PROVE  \E f \in Sound(D, Ok) : f = [d \in D |-> step[<< f, d >>]]
<1> USE DEF Recursive
<1> DEFINE Fix(n) == \E f \in Sound(D, Ok) : \A d \in D : rank[d] < n => f[d] = step[<< f, d >>]
           P == {n \in Nat : Fix(n)}
<1>1. 0 \in P
  <2> DEFINE f == [d \in D |-> CHOOSE x \in Ok[d] : TRUE]
  <2>1. f \in Sound(D, Ok)
    BY DEF Sound
  <2>2. ASSUME NEW d \in D PROVE ~ (rank[d] < 0)
    <3>1. rank[d] \in Nat
      OBVIOUS
    <3> QED BY <3>1
  <2> HIDE DEF f
  <2>3. Fix(0)
    BY <2>1, <2>2
  <2> QED BY <2>3
<1>2. ASSUME NEW n \in Nat, n \in P PROVE n + 1 \in P
  <2>1. PICK f \in Sound(D, Ok) : \A d \in D : rank[d] < n => f[d] = step[<< f, d >>]
    BY <1>2
  <2> DEFINE g == [d \in D |-> IF rank[d] = n THEN step[<< f, d >>] ELSE f[d]]
  <2>2. g \in Sound(D, Ok)
    BY DEF Sound
  <2>3. ASSUME NEW d \in D, rank[d] < n + 1 PROVE g[d] = step[<< g, d >>]
    <3>1. ASSUME NEW c \in D, rank[c] < rank[d] PROVE f[c] = g[c]
      <4>1. rank[c] \in Nat /\ rank[d] \in Nat
        OBVIOUS
      <4>2. rank[c] # n
        BY <2>3, <3>1, <4>1
      <4> QED BY <4>2
    <3> HIDE DEF g
    <3>2. step[<< f, d >>] = step[<< g, d >>]
      BY <2>2, <3>1
    <3>3. g[d] = step[<< f, d >>]
      <4>1. rank[d] \in Nat
        OBVIOUS
      <4>2. CASE rank[d] = n
        BY <4>2 DEF g
      <4>3. CASE rank[d] # n
        <5>1. rank[d] < n
          BY <2>3, <4>1, <4>3
        <5>2. g[d] = f[d]
          BY <4>3 DEF g
        <5> QED BY <2>1, <5>1, <5>2
      <4> QED BY <4>2, <4>3
    <3> QED BY <3>2, <3>3
  <2> HIDE DEF g
  <2>4. Fix(n + 1)
    BY <2>2, <2>3
  <2> QED BY <2>4
<1>3. top \in P
  <2> HIDE DEF P
  <2> QED BY <1>1, <1>2, Induct
<1>4. PICK f \in Sound(D, Ok) : \A d \in D : rank[d] < top => f[d] = step[<< f, d >>]
  BY <1>3
<1>5. f = [d \in D |-> step[<< f, d >>]]
  BY <1>4 DEF Sound
<1> QED BY <1>5

(* A function of the numbers up to n may be defined by what each of its    *)
(* values makes of the one before it.                                      *)
Stepwise(S, n, zero, next) ==
    \E f \in [0 .. n -> S] :
        f[0] = zero /\ \A k \in 1 .. n : f[k] = next[<< f[k - 1], k >>]

LEMMA StepByStep ==
    ASSUME NEW S, NEW n \in Nat, NEW zero \in S, NEW next \in [S \X (1 .. n) -> S]
    PROVE  Stepwise(S, n, zero, next)
<1> DEFINE D == 0 .. n
           Ok == [k \in D |-> S]
           rank == [k \in D |-> k]
           top == n + 1
           body(f, k) == IF k = 0 THEN zero ELSE next[<< f[k - 1], k >>]
           step == [fk \in Sound(D, Ok) \X D |-> body(fk[1], fk[2])]
<1>1. /\ rank \in [D -> Nat] /\ top \in Nat /\ \A k \in D : rank[k] < top
      /\ \A k \in D : Ok[k] # {}
  OBVIOUS
<1>2. Sound(D, Ok) \subseteq [D -> S]
  BY DEF Sound
<1>3. \A f \in Sound(D, Ok), k \in D : step[<< f, k >>] = body(f, k)
  OBVIOUS
<1>4. ASSUME NEW f \in Sound(D, Ok), NEW k \in D PROVE body(f, k) \in S
  <2>1. CASE k = 0
    BY <2>1
  <2>2. CASE k # 0
    <3>1. k \in 1 .. n /\ k - 1 \in D
      BY <2>2
    <3>2. f[k - 1] \in S
      BY <1>2, <3>1
    <3> QED BY <2>2, <3>1, <3>2
  <2> QED BY <2>1, <2>2
<1>5. ASSUME NEW f \in Sound(D, Ok), NEW g \in Sound(D, Ok), NEW k \in D,
             \A i \in D : rank[i] < rank[k] => f[i] = g[i]
      PROVE  body(f, k) = body(g, k)
  <2>1. CASE k = 0
    BY <2>1
  <2>2. CASE k # 0
    <3>1. k - 1 \in D /\ rank[k - 1] < rank[k]
      BY <2>2
    <3>2. f[k - 1] = g[k - 1]
      BY <1>5, <3>1
    <3> QED BY <2>2, <3>2
  <2> QED BY <2>1, <2>2
<1>6. \A k \in D : Ok[k] = S
  OBVIOUS
<1>7. D = 0 .. n
  OBVIOUS
<1> HIDE DEF D, Ok, rank, top, step
<1>8. Recursive(D, Ok, rank, top, step)
  <2> HIDE DEF body
  <2>1. \A f \in Sound(D, Ok), k \in D : step[<< f, k >>] \in Ok[k]
    BY <1>3, <1>4, <1>6
  <2>2. \A f, g \in Sound(D, Ok), k \in D :
           (\A i \in D : rank[i] < rank[k] => f[i] = g[i]) => step[<< f, k >>] = step[<< g, k >>]
    BY <1>3, <1>5
  <2> QED BY <1>1, <2>1, <2>2 DEF Recursive
<1>9. PICK f \in Sound(D, Ok) : f = [k \in D |-> step[<< f, k >>]]
  BY <1>8, Recursion
<1>10. f = [k \in 0 .. n |-> body(f, k)]
  BY <1>3, <1>7, <1>9
<1>11. f \in [0 .. n -> S]
  BY <1>2, <1>7
<1>12. f[0] = zero /\ \A k \in 1 .. n : f[k] = next[<< f[k - 1], k >>]
  BY <1>10
<1> QED BY <1>11, <1>12 DEF Stepwise

-----------------------------------------------------------------------------
(* first[k] is where r has the spelling of the k-th of n characters of s,  *)
(* and first[n + 1] where it goes on behind them.                          *)
Starts(s, n, r, first) ==
    /\ first[1] = 1
    /\ \A k \in 1 .. n + 1 : first[k] \in Nat \ {0} /\ first[k] <= first[n + 1]
    /\ \A k \in 1 .. n :
          /\ first[k + 1] = first[k] + Len(Spelled(s[k]))
          /\ \A j \in 1 .. Len(Spelled(s[k])) : r[first[k] + j - 1] = Spelled(s[k])[j]

(* The document has all of the text, then the closing quote, then the rest. *)
Close(first) == first[Len(text) + 1]

Sent(first) == /\ Starts(text, Len(text), raw, first)
               /\ Close(first) <= Len(raw) /\ raw[Close(first)] = Quote
               /\ SubSeq(raw, Close(first) + 1, Len(raw)) \in Tails

(* jp_string is at the start of a spelling, or within a \u escape behind   *)
(* its u; the unescape loop is at the start of one, and has decoded the    *)
(* characters before it.                                                   *)
Finding(first) ==
    \E k \in 1 .. Len(text) + 1 :
        \/ at = first[k]
        \/ k <= Len(text) /\ Len(Spelled(text[k])) = 6 /\ at \in first[k] + 2 .. first[k] + 5

Decoding(first) ==
    \E k \in 1 .. Len(text) + 1 : at = first[k] /\ out = SubSeq(text, 1, k - 1)

Reached(first) == /\ pc = "find" => Finding(first)
                  /\ pc = "decode" => end = Close(first) /\ Decoding(first)
                  /\ pc = "done" => end = Close(first) /\ out = text

ShapeOK ==
    /\ pc \in {"idle", "escape", "find", "decode", "done", "fail"}
    /\ text \in Texts \cup {NoText}
    /\ raw \in Seq(0 .. 255) /\ out \in Seq(0 .. 255) /\ at \in Nat \ {0}
    /\ pc = "idle" => text = NoText /\ raw = << >> /\ at = 1
    /\ pc = "escape" => text # NoText /\ at <= Len(text) + 1
    /\ pc = "find" => at <= Len(raw) + 1
    /\ pc \in {"decode", "done"} => end \in 1 .. Len(raw)
    /\ pc \in {"idle", "escape", "find"} => out = << >>

SpelledOK ==
    text # NoText =>
        /\ pc = "escape" => \E first : Starts(text, at - 1, raw, first) /\ first[at] = Len(raw) + 1
        /\ pc # "escape" => pc # "fail" /\ \E first : Sent(first) /\ Reached(first)

IInv == ShapeOK /\ DecodeFits /\ SpelledOK

-----------------------------------------------------------------------------
(* A character stands for itself, or behind a backslash as a letter that   *)
(* the decoder turns into it, or as \u00 and its two digits.               *)
Plain(c) == Spelled(c) = << c >> /\ c \notin {Quote, Backslash}

Lettered(c) == \E x \in 0 .. 255 \ {LetterU} :
                  Spelled(c) = << Backslash, x >> /\ Unescaped(x) = c

Hexed(c) == \E h, l \in (48 .. 57) \cup (97 .. 102) :
               /\ Spelled(c) = << Backslash, LetterU, 48, 48, h, l >>
               /\ HexNumber(48, 48, h, l) = c /\ c \in 0 .. 127

LEMMA HexDigits ==
    ASSUME NEW n \in 0 .. 15
    PROVE  HexDigit(n) \in (48 .. 57) \cup (97 .. 102) /\ HexValue(HexDigit(n)) = n
BY DEF HexDigit, HexValue

(* What the two digits of a \u00 escape may be.                             *)
Hexes == (48 .. 57) \cup (65 .. 70) \cup (97 .. 102)

LEMMA ReadDigit ==
    ASSUME NEW phase \in {"space", "zero", "digits"}, NEW v \in Nat, NEW sum,
           NEW c \in Hexes, phase = "space" => c = 48,
           sum = 16 * v + HexValue(c)
    PROVE  LET read == Read([phase |-> phase, sign |-> 1, value |-> v], c) IN
           /\ phase = "space" => read = [phase |-> "zero", sign |-> 1, value |-> sum]
           /\ phase # "space" => read = [phase |-> "digits", sign |-> 1, value |-> sum]
<1> DEFINE n == [phase |-> phase, sign |-> 1, value |-> v]
<1>1. HexValue(c) \in 0 .. 15 /\ c \notin Spaces /\ c \notin Signs /\ c \notin HexMarks
  BY DEF HexValue, Spaces, Signs, HexMarks, Hexes
<1>2. n.phase = phase /\ n.sign = 1 /\ n.value = v
  OBVIOUS
<1> HIDE DEF n
<1>3. Read(n, c) = [phase |-> IF c = 48 /\ phase \in {"space", "signed"} THEN "zero" ELSE "digits",
                    sign |-> 1, value |-> sum]
  BY <1>1, <1>2 DEF Read
<1> QED BY <1>3 DEF n

LEMMA HexSum ==
    ASSUME NEW h \in Hexes, NEW l \in Hexes
    PROVE  HexNumber(48, 48, h, l) = 16 * HexValue(h) + HexValue(l)
<1>1. HexValue(48) = 0 /\ HexValue(h) \in Nat /\ HexValue(l) \in Nat /\ 48 \in Hexes
  BY DEF HexValue, Hexes
<1>2. Read(Unread, 48) = [phase |-> "zero", sign |-> 1, value |-> 0]
  BY <1>1, ReadDigit DEF Unread
<1>3. Read([phase |-> "zero", sign |-> 1, value |-> 0], 48)
         = [phase |-> "digits", sign |-> 1, value |-> 0]
  BY <1>1, ReadDigit
<1>4. Read([phase |-> "digits", sign |-> 1, value |-> 0], h)
         = [phase |-> "digits", sign |-> 1, value |-> HexValue(h)]
  BY <1>1, ReadDigit
<1>5. Read([phase |-> "digits", sign |-> 1, value |-> HexValue(h)], l)
         = [phase |-> "digits", sign |-> 1, value |-> 16 * HexValue(h) + HexValue(l)]
  BY <1>1, ReadDigit
<1> QED BY <1>1, <1>2, <1>3, <1>4, <1>5 DEF HexNumber

LEMMA Spellings == ASSUME NEW c \in 1 .. 255 PROVE Plain(c) \/ Lettered(c) \/ Hexed(c)
<1>1. CASE c \in Special
  <2>1. Spelled(c) = << Backslash, c >>
    BY <1>1 DEF Spelled, Letter, Special, Quote, Backslash
  <2>2. c \in 0 .. 255 \ {LetterU} /\ Unescaped(c) = c
    BY <1>1 DEF Special, Unescaped, Quote, Backslash, LetterU
  <2> QED BY <2>1, <2>2 DEF Lettered
<1>2. CASE c \in {8, 9, 10, 12, 13}
  <2>1. Spelled(c) = << Backslash, Letter[c] >>
    BY <1>2 DEF Spelled, Letter, Special, Quote, Backslash
  <2>2. Letter[c] \in 0 .. 255 \ {LetterU} /\ Unescaped(Letter[c]) = c
    BY <1>2 DEF Letter, Unescaped, LetterU
  <2> QED BY <2>1, <2>2 DEF Lettered
<1>3. CASE c < 32 /\ c \notin {8, 9, 10, 12, 13}
  <2> DEFINE h == HexDigit(c \div 16)
             l == HexDigit(c % 16)
  <2>1. Spelled(c) = << Backslash, LetterU, 48, 48, h, l >>
    BY <1>3 DEF Spelled, Letter, Special, Quote, Backslash
  <2>2. c \div 16 \in 0 .. 15 /\ c % 16 \in 0 .. 15 /\ 16 * (c \div 16) + (c % 16) = c
    BY <1>3
  <2>3. /\ h \in (48 .. 57) \cup (97 .. 102) /\ HexValue(h) = c \div 16
        /\ l \in (48 .. 57) \cup (97 .. 102) /\ HexValue(l) = c % 16
    BY <2>2, HexDigits
  <2> HIDE DEF h, l
  <2>4. HexNumber(48, 48, h, l) = c
    BY <2>2, <2>3, HexSum DEF Hexes
  <2>5. c \in 0 .. 127
    BY <1>3
  <2> QED BY <2>1, <2>3, <2>4, <2>5 DEF Hexed
<1>4. CASE c >= 32 /\ c \notin Special
  BY <1>4 DEF Plain, Spelled, Letter, Special, Quote, Backslash
<1> QED BY <1>1, <1>2, <1>3, <1>4

(* What jp_string and the decoder need to know of a spelling.              *)
LEMMA SpelledShape ==
    ASSUME NEW c \in 1 .. 255
    PROVE  /\ Spelled(c) \in Seq(0 .. 255)
           /\ Len(Spelled(c)) \in {1, 2, 6}
           /\ Spelled(c)[1] # Quote
           /\ Spelled(c)[1] = Backslash <=> Len(Spelled(c)) # 1
           /\ Len(Spelled(c)) = 6 => \A j \in 3 .. 6 : Spelled(c)[j] \notin {Quote, Backslash}
<1>1. CASE Plain(c)
  BY <1>1 DEF Plain
<1>2. CASE Lettered(c)
  <2>1. PICK x \in 0 .. 255 \ {LetterU} : Spelled(c) = << Backslash, x >>
    BY <1>2 DEF Lettered
  <2> QED BY <2>1 DEF Quote, Backslash
<1>3. CASE Hexed(c)
  <2>1. PICK h, l \in (48 .. 57) \cup (97 .. 102) :
           Spelled(c) = << Backslash, LetterU, 48, 48, h, l >>
    BY <1>3 DEF Hexed
  <2>2. << Backslash, LetterU, 48, 48, h, l >> \in Seq(0 .. 255)
    BY DEF Backslash, LetterU
  <2>3. /\ Len(<< Backslash, LetterU, 48, 48, h, l >>) = 6
        /\ << Backslash, LetterU, 48, 48, h, l >>[1] = Backslash
        /\ \A j \in 3 .. 6 : << Backslash, LetterU, 48, 48, h, l >>[j] \in {48, h, l}
    OBVIOUS
  <2> QED BY <2>1, <2>2, <2>3 DEF Quote, Backslash
<1> QED BY Spellings, <1>1, <1>2, <1>3

-----------------------------------------------------------------------------
(* A character of a text, and what is written for it.                      *)
LEMMA Written ==
    ASSUME NEW s \in Seq(1 .. 255), NEW k \in 1 .. Len(s)
    PROVE  s[k] \in 1 .. 255 /\ Spelled(s[k]) \in Seq(0 .. 255) /\ Len(Spelled(s[k])) \in Nat
<1>1. s[k] \in 1 .. 255
  BY ElementOfSeq
<1>2. Spelled(s[k]) \in Seq(0 .. 255)
  BY <1>1, SpelledShape
<1> QED BY <1>1, <1>2

LEMMA Inner ==
    ASSUME NEW p \in Nat \ {0}, NEW size \in Nat, NEW l \in Nat, p + size <= l + 1,
           NEW j \in 1 .. size
    PROVE  p + j - 1 \in 1 .. l
OBVIOUS

(* What was written stays where it is when more is appended.               *)
LEMMA StartsStay ==
    ASSUME NEW s \in Seq(1 .. 255), NEW n \in 0 .. Len(s), NEW r \in Seq(0 .. 255),
           NEW first, Starts(s, n, r, first), first[n + 1] = Len(r) + 1,
           NEW more \in Seq(0 .. 255)
    PROVE  Starts(s, n, r \o more, first)
<1> SUFFICES ASSUME NEW k \in 1 .. n, NEW j \in 1 .. Len(Spelled(s[k]))
             PROVE  (r \o more)[first[k] + j - 1] = Spelled(s[k])[j]
  BY DEF Starts
<1>1. Len(Spelled(s[k])) \in Nat
  <2>1. Len(s) \in Nat /\ n \in Nat /\ n <= Len(s)
    OBVIOUS
  <2>2. k \in 1 .. Len(s)
    BY <2>1
  <2> QED BY <2>2, Written
<1>2. /\ r[first[k] + j - 1] = Spelled(s[k])[j]
      /\ first[k] \in Nat \ {0} /\ first[k + 1] <= Len(r) + 1
      /\ first[k + 1] = first[k] + Len(Spelled(s[k]))
  BY DEF Starts
<1>3. first[k] + j - 1 \in 1 .. Len(r)
  <2>1. first[k] + Len(Spelled(s[k])) <= Len(r) + 1 /\ first[k] \in Nat \ {0}
    BY <1>2
  <2>2. Len(r) \in Nat
    OBVIOUS
  <2> QED BY <1>1, <2>1, <2>2, Inner
<1> QED BY <1>2, <1>3

LEMMA StartsOn ==
    ASSUME NEW s \in Seq(1 .. 255), NEW n \in Nat, n < Len(s), NEW r \in Seq(0 .. 255),
           NEW first, Starts(s, n, r, first), first[n + 1] = Len(r) + 1
    PROVE  LET more == r \o Spelled(s[n + 1]) IN
           \E f : Starts(s, n + 1, more, f) /\ f[n + 2] = Len(more) + 1
<1> DEFINE c == Spelled(s[n + 1])
           more == r \o c
           f == [k \in 1 .. n + 2 |-> IF k = n + 2 THEN Len(more) + 1 ELSE first[k]]
<1>1. c \in Seq(0 .. 255) /\ Len(c) \in Nat
  <2>1. n + 1 \in 1 .. Len(s)
    OBVIOUS
  <2> QED BY <2>1, Written
<1>2. Starts(s, n, more, first)
  <2>1. n \in 0 .. Len(s)
    OBVIOUS
  <2> HIDE DEF c
  <2> QED BY <1>1, <2>1, StartsStay
<1>3. /\ Len(more) = Len(r) + Len(c) /\ Len(r) \in Nat
      /\ \A j \in 1 .. Len(c) : more[Len(r) + j] = c[j]
  <2> HIDE DEF c
  <2> QED BY <1>1
<1>4. f[n + 2] = Len(more) + 1 /\ \A k \in 1 .. n + 1 : f[k] = first[k]
  <2> HIDE DEF more
  <2> QED OBVIOUS
<1> HIDE DEF f, more
<1>5. \A k \in 1 .. n + 2 : f[k] \in Nat \ {0} /\ f[k] <= f[n + 2]
  <2> HIDE DEF c
  <2> SUFFICES ASSUME NEW k \in 1 .. n + 2 PROVE f[k] \in Nat \ {0} /\ f[k] <= f[n + 2]
    OBVIOUS
  <2>1. CASE k = n + 2
    BY <1>1, <1>3, <1>4, <2>1
  <2>2. CASE k # n + 2
    <3>1. k \in 1 .. n + 1 /\ f[k] = first[k]
      BY <1>4, <2>2
    <3>2. first[k] \in Nat \ {0} /\ first[k] <= Len(r) + 1
      BY <3>1 DEF Starts
    <3> QED BY <1>1, <1>3, <1>4, <3>1, <3>2
  <2> QED BY <2>1, <2>2
<1>6. ASSUME NEW k \in 1 .. n + 1
      PROVE  /\ f[k + 1] = f[k] + Len(Spelled(s[k]))
             /\ \A j \in 1 .. Len(Spelled(s[k])) : more[f[k] + j - 1] = Spelled(s[k])[j]
  <2>1. CASE k = n + 1
    <3> HIDE DEF c
    <3>1. f[k] = Len(r) + 1 /\ f[k + 1] = Len(r) + Len(c) + 1
      BY <1>3, <1>4, <2>1
    <3>2. \A j \in 1 .. Len(c) : f[k] + j - 1 = Len(r) + j
      BY <1>1, <1>3, <3>1
    <3>3. f[k + 1] = f[k] + Len(c) /\ \A j \in 1 .. Len(c) : more[f[k] + j - 1] = c[j]
      BY <1>1, <1>3, <3>1, <3>2
    <3>4. Spelled(s[k]) = c
      BY <2>1 DEF c
    <3> QED BY <3>3, <3>4
  <2>2. CASE k # n + 1
    <3>1. k \in 1 .. n /\ k + 1 \in 1 .. n + 1 /\ f[k] = first[k] /\ f[k + 1] = first[k + 1]
      BY <1>4, <2>2
    <3>2. /\ first[k + 1] = first[k] + Len(Spelled(s[k]))
          /\ \A j \in 1 .. Len(Spelled(s[k])) : more[first[k] + j - 1] = Spelled(s[k])[j]
      BY <1>2, <3>1 DEF Starts
    <3> QED BY <3>1, <3>2
  <2> QED BY <2>1, <2>2
<1>7. f[1] = 1
  <2>1. 1 \in 1 .. n + 1
    OBVIOUS
  <2> QED BY <1>4, <2>1 DEF Starts
<1>8. (n + 1) + 1 = n + 2
  OBVIOUS
<1>9. Starts(s, n + 1, more, f)
  BY <1>5, <1>6, <1>7, <1>8 DEF Starts
<1> QED BY <1>4, <1>9 DEF more

LEMMA InitInv == Init => IInv
BY TextAssumption DEF Init, IInv, ShapeOK, DecodeFits, SpelledOK

LEMMA StageInv == IInv /\ Stage => IInv'
<1> SUFFICES ASSUME IInv, Stage PROVE IInv'
  OBVIOUS
<1>1. /\ text' \in Texts /\ text' # NoText /\ pc' = "escape" /\ raw' = << >> /\ at' = 1
      /\ UNCHANGED << end, out >> /\ out' = << >> /\ Len(text') \in Nat
  BY TextAssumption DEF Stage, IInv, ShapeOK
<1>2. ShapeOK' /\ DecodeFits'
  BY <1>1 DEF IInv, ShapeOK, DecodeFits
<1>3. SpelledOK'
  <2> DEFINE f == [k \in 1 .. 1 |-> 1]
  <2>1. f[1] = 1 /\ \A k \in 1 .. 1 : f[k] = 1
    OBVIOUS
  <2> HIDE DEF f
  <2>2. Starts(text', 0, << >>, f)
    BY <2>1 DEF Starts
  <2>3. f[at'] = Len(raw') + 1 /\ at' - 1 = 0
    BY <1>1, <2>1
  <2> QED BY <1>1, <2>2, <2>3 DEF SpelledOK
<1> QED BY <1>2, <1>3 DEF IInv

LEMMA HearInv == IInv /\ Hear => IInv'
<1> SUFFICES ASSUME IInv, Hear PROVE IInv'
  OBVIOUS
<1>1. /\ raw' \in Seq(0 .. 255) /\ text' = NoText /\ pc' = "find" /\ at' = 1
      /\ UNCHANGED << end, out >> /\ out' = << >>
  BY TextAssumption DEF Hear, IInv, ShapeOK
<1> QED BY <1>1 DEF IInv, ShapeOK, DecodeFits, SpelledOK

LEMMA EscapeInv == IInv /\ Escape => IInv'
<1> SUFFICES ASSUME IInv, Escape PROVE IInv'
  OBVIOUS
<1>1. /\ pc = "escape" /\ pc' = "escape" /\ at <= Len(text) /\ at' = at + 1
      /\ raw' = raw \o Spelled(text[at]) /\ UNCHANGED << text, end, out >>
      /\ text \in Texts /\ text # NoText /\ at \in Nat \ {0} /\ raw \in Seq(0 .. 255)
  BY DEF Escape, IInv, ShapeOK
<1>2. text \in Seq(1 .. 255)
  BY <1>1, TextAssumption
<1>3. Spelled(text[at]) \in Seq(0 .. 255)
  <2>1. at \in 1 .. Len(text)
    BY <1>1, <1>2
  <2> QED BY <1>2, <2>1, Written
<1>4. raw' \in Seq(0 .. 255) /\ at' \in Nat \ {0} /\ at' <= Len(text) + 1
  BY <1>1, <1>2, <1>3
<1>5. ShapeOK' /\ DecodeFits'
  BY <1>1, <1>4 DEF IInv, ShapeOK, DecodeFits
<1>6. PICK first : Starts(text, at - 1, raw, first) /\ first[at] = Len(raw) + 1
  BY <1>1 DEF IInv, SpelledOK
<1>7. \E f : Starts(text, at, raw', f) /\ f[at + 1] = Len(raw') + 1
  <2>1. at - 1 \in Nat /\ at - 1 < Len(text) /\ (at - 1) + 1 = at /\ (at - 1) + 2 = at + 1
    BY <1>1, <1>2
  <2> QED BY <1>1, <1>2, <1>6, <2>1, StartsOn
<1>8. at' - 1 = at
  BY <1>1
<1> QED BY <1>1, <1>5, <1>7, <1>8 DEF IInv, SpelledOK

LEMMA Behind ==
    ASSUME NEW r \in Seq(0 .. 255), NEW t \in Seq(0 .. 255)
    PROVE  SubSeq(r \o t, Len(r) + 1, Len(r \o t)) = t
<1>1. Len(r \o t) = Len(r) + Len(t) /\ \A j \in 1 .. Len(t) : (r \o t)[Len(r) + j] = t[j]
  OBVIOUS
<1>2. SubSeq(r \o t, Len(r) + 1, Len(r \o t)) = [j \in 1 .. Len(t) |-> (r \o t)[Len(r) + j]]
  BY <1>1
<1>3. t = [j \in 1 .. Len(t) |-> t[j]]
  OBVIOUS
<1> QED BY <1>1, <1>2, <1>3

(* e is the spellings r, the closing quote and the tail t behind it.       *)
Ended(r, t, e) ==
    /\ e \in Seq(0 .. 255) /\ Len(e) = Len(r) + 1 + Len(t)
    /\ e[Len(r) + 1] = Quote
    /\ \E more \in Seq(0 .. 255) : e = r \o more
    /\ SubSeq(e, Len(r) + 1 + 1, Len(e)) = t

LEMMA Ending ==
    ASSUME NEW r \in Seq(0 .. 255), NEW t \in Seq(0 .. 255)
    PROVE  Ended(r, t, (r \o << Quote >>) \o t)
<1> DEFINE e == (r \o << Quote >>) \o t
<1>1. e \in Seq(0 .. 255) /\ Len(e) = Len(r) + 1 + Len(t)
  BY DEF Quote
<1>2. e[Len(r) + 1] = Quote
  BY DEF Quote
<1>3. << Quote >> \in Seq(0 .. 255) /\ << Quote >> \o t \in Seq(0 .. 255)
  BY DEF Quote
<1>4. e = r \o (<< Quote >> \o t)
  BY <1>3, ConcatAssociative
<1>5. SubSeq(e, Len(r) + 1 + 1, Len(e)) = t
  <2> DEFINE p == r \o << Quote >>
  <2>1. p \in Seq(0 .. 255) /\ Len(p) = Len(r) + 1
    BY DEF Quote
  <2> HIDE DEF p
  <2>2. SubSeq(p \o t, Len(p) + 1, Len(p \o t)) = t
    BY <2>1, Behind
  <2> QED BY <2>1, <2>2 DEF p
<1> HIDE DEF e
<1>6. Ended(r, t, e)
  BY <1>1, <1>2, <1>3, <1>4, <1>5 DEF Ended
<1> QED BY <1>6 DEF e

LEMMA EscapeEndsInv == \A tail \in Tails : IInv /\ EscapeEnds(tail) => IInv'
<1> SUFFICES ASSUME NEW tail \in Tails, IInv, EscapeEnds(tail) PROVE IInv'
  OBVIOUS
<1> DEFINE n == Len(text)
<1>1. /\ pc = "escape" /\ pc' = "find" /\ at = n + 1 /\ at' = 1
      /\ raw' = (raw \o << Quote >>) \o tail /\ UNCHANGED << text, end, out >> /\ out = << >>
      /\ text \in Seq(1 .. 255) /\ text # NoText /\ text \in Texts
      /\ raw \in Seq(0 .. 255) /\ tail \in Seq(0 .. 255)
  BY TextAssumption DEF EscapeEnds, IInv, ShapeOK
<1>2. /\ raw' \in Seq(0 .. 255) /\ Len(raw') = Len(raw) + 1 + Len(tail)
      /\ raw'[Len(raw) + 1] = Quote
      /\ \E more \in Seq(0 .. 255) : raw' = raw \o more
      /\ SubSeq(raw', Len(raw) + 1 + 1, Len(raw')) = tail
  <2>1. Ended(raw, tail, (raw \o << Quote >>) \o tail)
    BY <1>1, Ending
  <2>2. raw' = (raw \o << Quote >>) \o tail
    BY <1>1
  <2>3. Ended(raw, tail, raw')
    BY <2>1, <2>2, Zenon
  <2> QED BY <2>3 DEF Ended
<1>3. Len(raw) \in Nat /\ Len(tail) \in Nat
  BY <1>1
<1>4. ShapeOK' /\ DecodeFits'
  BY <1>1, <1>2, <1>3 DEF IInv, ShapeOK, DecodeFits
<1>5. PICK first : Starts(text, n, raw, first) /\ first[n + 1] = Len(raw) + 1
  <2>1. at - 1 = n
    BY <1>1
  <2> QED BY <1>1, <2>1 DEF IInv, SpelledOK
<1>6. Starts(text, n, raw', first)
  <2>1. n \in 0 .. Len(text)
    BY <1>1
  <2>2. PICK more \in Seq(0 .. 255) : raw' = raw \o more
    BY <1>2
  <2>3. Starts(text, n, raw \o more, first)
    BY <1>1, <1>5, <2>1, StartsStay
  <2> QED BY <2>2, <2>3
<1>7. Close(first)' = Len(raw) + 1 /\ at' = first[1] /\ 1 \in 1 .. Len(text) + 1
  BY <1>1, <1>5 DEF Close, Starts
<1>8. Sent(first)'
  <2>1. /\ (Close(first) <= Len(raw))' /\ raw'[Close(first)'] = Quote
        /\ SubSeq(raw', Close(first)' + 1, Len(raw')) \in Tails
    <3>1. Len(raw) + 1 <= Len(raw')
      BY <1>2, <1>3
    <3>2. Close(first)' = Len(raw) + 1
      BY <1>7
    <3>3. raw'[Close(first)'] = Quote
      BY <1>2, <3>2
    <3>4. SubSeq(raw', Close(first)' + 1, Len(raw')) \in Tails
      BY <1>2, <3>2
    <3> QED BY <3>1, <3>2, <3>3, <3>4
  <2>2. text' = text /\ Starts(text, Len(text), raw', first)
    BY <1>1, <1>6
  <2> QED BY <2>1, <2>2 DEF Sent
<1>9. Reached(first)'
  BY <1>1, <1>7 DEF Reached, Finding
<1>10. SpelledOK'
  BY <1>1, <1>8, <1>9 DEF SpelledOK
<1> QED BY <1>4, <1>10 DEF IInv

-----------------------------------------------------------------------------
(* Where the spelling of the k-th character lies.                          *)
Placed(first, k, c) ==
    /\ Len(c) \in {1, 2, 6} /\ first[k] \in Nat \ {0}
    /\ first[k + 1] = first[k] + Len(c)
    /\ first[k] + Len(c) <= Close(first) /\ first[k] + Len(c) <= Len(raw)
    /\ \A j \in 1 .. Len(c) : raw[first[k] + j - 1] = c[j]

LEMMA Place ==
    ASSUME ShapeOK, text # NoText, NEW first, Sent(first), NEW k \in 1 .. Len(text)
    PROVE  text[k] \in 1 .. 255 /\ Placed(first, k, Spelled(text[k]))
<1> DEFINE c == Spelled(text[k])
<1>1. text \in Seq(1 .. 255)
  BY TextAssumption DEF ShapeOK
<1>2. text[k] \in 1 .. 255
  BY <1>1, Written
<1>3. Len(c) \in {1, 2, 6}
  BY <1>2, SpelledShape
<1>4. Len(text) \in Nat /\ k + 1 \in 1 .. Len(text) + 1 /\ Len(text) + 1 \in 1 .. Len(text) + 1
  BY <1>1
<1>5. /\ first[k] \in Nat \ {0} /\ first[k + 1] = first[k] + Len(c)
      /\ first[k + 1] <= Close(first) /\ Close(first) \in Nat
      /\ \A j \in 1 .. Len(c) : raw[first[k] + j - 1] = c[j]
  <2>1. /\ Starts(text, Len(text), raw, first) /\ Close(first) = first[Len(text) + 1]
    BY DEF Sent, Close
  <2>2. /\ first[k] \in Nat \ {0} /\ first[k + 1] = first[k] + Len(c)
        /\ \A j \in 1 .. Len(c) : raw[first[k] + j - 1] = c[j]
    BY <1>4, <2>1 DEF Starts
  <2> HIDE DEF c
  <2>3. first[k + 1] <= Close(first) /\ Close(first) \in Nat
    BY <1>4, <2>1 DEF Starts
  <2> QED BY <2>2, <2>3
<1>6. Close(first) <= Len(raw) /\ Len(raw) \in Nat
  BY DEF Sent, ShapeOK
<1> HIDE DEF c
<1>7. first[k] + Len(c) <= Len(raw) /\ first[k] + Len(c) <= Close(first)
  BY <1>3, <1>5, <1>6
<1>8. Placed(first, k, c)
  BY <1>3, <1>5, <1>7 DEF Placed
<1> QED BY <1>2, <1>8 DEF c

(* One turn of jp_string's loop in a spelling c that begins at f.          *)
Hides(c, size) ==
    /\ c[1] # Quote /\ (c[1] = Backslash <=> size # 1)
    /\ size = 6 => \A j \in 3 .. 6 : c[j] \notin {Quote, Backslash}

Inside(f, size, p) == size = 6 /\ p \in f + 2 .. f + 5

Within(f, size, p) == p = f \/ Inside(f, size, p)

Onward(r, p) == IF r[p] = Backslash THEN p + 2 ELSE p + 1

LEMMA StepOver ==
    ASSUME NEW f \in Nat \ {0}, NEW c, NEW size \in {1, 2, 6}, NEW r,
           \A j \in 1 .. size : r[f + j - 1] = c[j], Hides(c, size),
           NEW p \in Nat, Within(f, size, p)
    PROVE  /\ p < f + size /\ r[p] # Quote
           /\ Onward(r, p) = f + size \/ Inside(f, size, Onward(r, p))
<1> USE DEF Hides, Within, Inside
<1> SUFFICES ASSUME NEW q, q = IF r[p] = Backslash THEN p + 2 ELSE p + 1
             PROVE  /\ p < f + size /\ r[p] # Quote
                    /\ q = f + size \/ Inside(f, size, q)
  BY DEF Onward
<1>1. CASE p = f
  <2>1. 1 \in 1 .. size /\ f + 1 - 1 = p
    BY <1>1
  <2>2. r[p] = c[1]
    BY <2>1
  <2>3. q = IF size = 1 THEN f + 1 ELSE f + 2
    BY <1>1, <2>2
  <2> QED BY <1>1, <2>2, <2>3
<1>2. CASE size = 6 /\ p \in f + 2 .. f + 5
  <2>1. PICK j \in 3 .. 6 : p = f + j - 1
    <3>1. p - f + 1 \in 3 .. 6 /\ p = f + (p - f + 1) - 1
      BY <1>2
    <3> QED BY <3>1
  <2>2. r[p] = c[j]
    <3>1. j \in 1 .. size
      BY <1>2, <2>1
    <3> QED BY <2>1, <3>1
  <2>3. r[p] \notin {Quote, Backslash}
    BY <1>2, <2>1, <2>2
  <2>4. q = p + 1
    BY <2>3
  <2> QED BY <1>2, <2>3, <2>4
<1> QED BY <1>1, <1>2

(* The loop of jp_string goes from one spelling to the next, and stops at  *)
(* the quote behind the last.                                              *)
LEMMA FindsOn ==
    ASSUME ShapeOK, pc = "find", text # NoText, Find, NEW first, Sent(first), Finding(first)
    PROVE  /\ pc' # "fail"
           /\ pc' = "find" => Finding(first)'
           /\ pc' = "decode" => end' = Close(first)
<1>1. /\ UNCHANGED << text, raw, out >> /\ text \in Seq(1 .. 255)
      /\ at \in Nat \ {0} /\ Len(raw) \in Nat /\ Len(text) \in Nat
      /\ pc' \in {"find", "decode", "fail"}
  BY TextAssumption DEF Find, ShapeOK
<1>2. PICK k \in 1 .. Len(text) + 1 :
         \/ at = first[k]
         \/ k <= Len(text) /\ Len(Spelled(text[k])) = 6 /\ at \in first[k] + 2 .. first[k] + 5
  BY DEF Finding
<1>3. CASE k = Len(text) + 1
  <2>1. at = Close(first) /\ at <= Len(raw) /\ raw[at] = Quote
    BY <1>1, <1>2, <1>3 DEF Close, Sent
  <2>2. pc' = "decode" /\ end' = at
    BY <1>1, <2>1 DEF Find
  <2> QED BY <2>1, <2>2
<1>4. CASE k # Len(text) + 1
  <2>1. k \in 1 .. Len(text) /\ k + 1 \in 1 .. Len(text) + 1
    BY <1>1, <1>4
  <2> DEFINE f == first[k]
             c == Spelled(text[k])
             size == Len(c)
             q == Onward(raw, at)
  <2>2. text[k] \in 1 .. 255 /\ Placed(first, k, c)
    BY <2>1, Place
  <2>s. Hides(c, size)
    BY <2>2, SpelledShape DEF Hides
  <2>3. Within(f, size, at)
    BY <1>2 DEF Within, Inside
  <2> HIDE DEF c
  <2>p. /\ size \in {1, 2, 6} /\ f \in Nat \ {0}
        /\ first[k + 1] = f + size /\ f + size <= Len(raw)
        /\ \A j \in 1 .. size : raw[f + j - 1] = c[j]
    BY <2>2 DEF Placed
  <2> HIDE DEF f, size
  <2>4. /\ at < f + size /\ raw[at] # Quote
        /\ q = f + size \/ Inside(f, size, q)
    BY <1>1, <2>p, <2>s, <2>3, StepOver
  <2> HIDE DEF q
  <2>5. at < Len(raw)
    BY <1>1, <2>p, <2>4
  <2>6. pc' = "find" /\ at' = q
    BY <1>1, <2>4, <2>5 DEF Find, Skipped, q, Onward
  <2>7. Finding(first)'
    <3>1. CASE q = f + size
      <4>1. at' = first[k + 1]
        BY <2>p, <2>6, <3>1
      <4> QED BY <1>1, <2>1, <4>1 DEF Finding
    <3>2. CASE Inside(f, size, q)
      <4>1. k <= Len(text) /\ k \in 1 .. Len(text) + 1
        BY <1>1, <2>1
      <4>2. Len(Spelled(text[k])) = 6 /\ at' \in first[k] + 2 .. first[k] + 5
        BY <2>6, <3>2 DEF f, size, c, Inside
      <4> QED BY <1>1, <4>1, <4>2 DEF Finding
    <3> QED BY <2>4, <3>1, <3>2
  <2> QED BY <2>6, <2>7
<1> QED BY <1>3, <1>4

LEMMA FindInv == IInv /\ Find => IInv'
<1> SUFFICES ASSUME IInv, Find PROVE IInv'
  OBVIOUS
<1>1. /\ pc = "find" /\ UNCHANGED << text, raw, out >> /\ out = << >>
      /\ at \in Nat \ {0} /\ raw \in Seq(0 .. 255) /\ Len(raw) \in Nat /\ ShapeOK
  BY DEF Find, IInv, ShapeOK
<1>2. \/ pc' = "fail" /\ UNCHANGED << at, end >>
      \/ pc' = "decode" /\ at <= Len(raw) /\ raw[at] = Quote /\ end' = at /\ at' = 1
      \/ pc' = "find" /\ at <= Len(raw) /\ at' = at + Skipped /\ UNCHANGED end
  BY <1>1 DEF Find
<1>3. Skipped \in {1, 2} /\ (at <= Len(raw) => at + Skipped <= Len(raw) + 1)
  BY <1>1 DEF Skipped
<1>4. ShapeOK' /\ DecodeFits'
  <2>1. CASE pc' = "decode" /\ at <= Len(raw) /\ raw[at] = Quote /\ end' = at /\ at' = 1
    BY <1>1, <2>1 DEF ShapeOK, DecodeFits
  <2>2. CASE pc' = "fail" /\ UNCHANGED << at, end >>
    BY <1>1, <2>2 DEF ShapeOK, DecodeFits
  <2>3. CASE pc' = "find" /\ at <= Len(raw) /\ at' = at + Skipped /\ UNCHANGED end
    <3> HIDE DEF Skipped
    <3>1. at' \in Nat \ {0} /\ at' <= Len(raw) + 1
      BY <1>1, <1>3, <2>3
    <3> QED BY <1>1, <2>3, <3>1 DEF ShapeOK, DecodeFits
  <2> QED BY <1>2, <2>1, <2>2, <2>3
<1>5. SpelledOK'
  <2> SUFFICES ASSUME text # NoText PROVE SpelledOK'
    BY <1>1 DEF SpelledOK
  <2>1. PICK first : Sent(first) /\ Finding(first)
    BY <1>1 DEF IInv, SpelledOK, Reached
  <2>2. Sent(first)'
    BY <1>1, <2>1 DEF Sent, Close
  <2>3. /\ pc' # "fail" /\ pc' \in {"find", "decode"}
        /\ pc' = "find" => Finding(first)'
        /\ pc' = "decode" => end' = Close(first)
    BY <1>1, <1>2, <2>1, FindsOn
  <2>4. Close(first)' = Close(first)
    BY <1>1 DEF Close
  <2>5. pc' = "decode" => Decoding(first)'
    <3> SUFFICES ASSUME pc' = "decode" PROVE Decoding(first)'
      OBVIOUS
    <3>1. at' = 1 /\ out' = << >> /\ text' = text
      BY <1>1, <1>2
    <3>2. first[1] = 1 /\ SubSeq(text, 1, 0) = << >> /\ 1 \in 1 .. Len(text) + 1
      BY <1>1, <2>1, TextAssumption DEF Sent, Starts, ShapeOK
    <3> QED BY <3>1, <3>2 DEF Decoding
  <2>6. Reached(first)'
    BY <2>3, <2>4, <2>5 DEF Reached
  <2> QED BY <2>2, <2>3, <2>6 DEF SpelledOK
<1> QED BY <1>4, <1>5 DEF IInv

-----------------------------------------------------------------------------
LEMMA Taken ==
    ASSUME NEW s \in Seq(1 .. 255), NEW k \in 1 .. Len(s)
    PROVE  SubSeq(s, 1, k) = SubSeq(s, 1, k - 1) \o << s[k] >>
OBVIOUS

LEMMA TakenAll == ASSUME NEW s \in Seq(1 .. 255) PROVE SubSeq(s, 1, Len(s)) = s
OBVIOUS

(* The unescape loop turns each spelling back into its character.          *)
LEMMA DecodesOn ==
    ASSUME ShapeOK, pc = "decode", text # NoText, Decode, NEW first, Sent(first),
           end = Close(first), NEW k \in 1 .. Len(text), at = first[k]
    PROVE  pc' = "decode" /\ at' = first[k + 1] /\ out' = out \o << text[k] >>
<1> DEFINE c == Spelled(text[k])
<1>1. text[k] \in 1 .. 255 /\ Placed(first, k, c)
  BY Place
<1>2. Plain(text[k]) \/ Lettered(text[k]) \/ Hexed(text[k])
  BY <1>1, Spellings
<1>3. /\ at \in Nat \ {0} /\ first[k + 1] = at + Len(c) /\ at + Len(c) <= end
      /\ Len(c) \in {1, 2, 6} /\ end \in Nat
      /\ \A j \in 1 .. Len(c) : raw[at + j - 1] = c[j]
  <2>1. end \in Nat
    BY DEF ShapeOK
  <2> HIDE DEF c
  <2> QED BY <1>1, <2>1 DEF Placed
<1>4. CASE Plain(text[k])
  <2>1. c = << text[k] >> /\ text[k] # Backslash /\ Len(c) = 1 /\ c[1] = text[k]
    BY <1>4 DEF Plain
  <2> HIDE DEF c
  <2>2. raw[at] = text[k] /\ at < end /\ ~Hidden
    <3>1. 1 \in 1 .. Len(c) /\ at + 1 - 1 = at
      BY <1>3, <2>1
    <3>2. raw[at] = text[k]
      BY <1>3, <2>1, <3>1
    <3> QED BY <1>3, <2>1, <3>2 DEF Hidden
  <2>3. Write(<< raw[at] >>, 1)
    BY <1>3, <2>2 DEF Decode
  <2> QED BY <1>3, <2>1, <2>2, <2>3 DEF Write
<1>5. CASE Lettered(text[k])
  <2>1. PICK x \in 0 .. 255 \ {LetterU} : c = << Backslash, x >> /\ Unescaped(x) = text[k]
    BY <1>5 DEF Lettered
  <2>2. Len(c) = 2 /\ c[1] = Backslash /\ c[2] = x
    BY <2>1
  <2> HIDE DEF c
  <2>3. /\ 1 \in 1 .. Len(c) /\ 2 \in 1 .. Len(c) /\ at + 1 - 1 = at /\ at + 2 - 1 = at + 1
    BY <1>3, <2>2
  <2>4. raw[at] = Backslash /\ raw[at + 1] = x
    BY <1>3, <2>2, <2>3
  <2>5. at < end /\ Hidden /\ raw[at + 1] # LetterU
    BY <1>3, <2>2, <2>4 DEF Hidden
  <2>6. Write(<< Unescaped(raw[at + 1]) >>, 2)
    BY <1>3, <2>5 DEF Decode
  <2>7. Unescaped(raw[at + 1]) = text[k]
    BY <2>1, <2>4
  <2>8. Write(<< text[k] >>, 2)
    BY <2>6, <2>7
  <2> QED BY <1>3, <2>2, <2>8 DEF Write
<1>6. CASE Hexed(text[k])
  <2>1. PICK h, l \in (48 .. 57) \cup (97 .. 102) :
           /\ c = << Backslash, LetterU, 48, 48, h, l >>
           /\ HexNumber(48, 48, h, l) = text[k] /\ text[k] \in 0 .. 127
    BY <1>6 DEF Hexed
  <2>2. /\ Len(c) = 6 /\ c[1] = Backslash /\ c[2] = LetterU
        /\ c[3] = 48 /\ c[4] = 48 /\ c[5] = h /\ c[6] = l
    BY <2>1
  <2> HIDE DEF c
  <2>3. /\ \A j \in 1 .. 6 : raw[at + j - 1] = c[j]
        /\ at + 1 - 1 = at /\ at + 2 - 1 = at + 1 /\ at + 3 - 1 = at + 2
        /\ at + 4 - 1 = at + 3 /\ at + 5 - 1 = at + 4 /\ at + 6 - 1 = at + 5
    BY <1>3, <2>2
  <2>4. /\ raw[at] = Backslash /\ raw[at + 1] = LetterU
        /\ raw[at + 2] = 48 /\ raw[at + 3] = 48 /\ raw[at + 4] = h /\ raw[at + 5] = l
    BY <2>2, <2>3
  <2>5. at < end /\ Hidden /\ HasDigits
    <3>1. at + 6 <= end /\ at \in Nat /\ end \in Nat
      BY <1>3, <2>2
    <3>2. at < end /\ at + 1 < end /\ at + 5 < end
      BY <3>1
    <3> QED BY <2>4, <3>2 DEF Hidden, HasDigits
  <2>6. Ascii(text[k]) = << text[k] >>
    BY <2>1 DEF Ascii
  <2>7. Write(<< text[k] >>, 6)
    <3>1. Write(Ascii(HexNumber(raw[at + 2], raw[at + 3], raw[at + 4], raw[at + 5])), 6)
      BY <1>3, <2>4, <2>5 DEF Decode
    <3> QED BY <2>1, <2>4, <2>6, <3>1
  <2> QED BY <1>3, <2>2, <2>7 DEF Write
<1> QED BY <1>2, <1>4, <1>5, <1>6

(* One turn of the unescape loop, whatever it reads.                       *)
Decoded == /\ pc' = "decode" /\ at' \in Nat \ {0} /\ at' <= end
           /\ out' \in Seq(0 .. 255) /\ Len(out') < at'

LEMMA WritesInside ==
    ASSUME ShapeOK, DecodeFits, pc = "decode",
           NEW bytes \in Seq(0 .. 255), NEW width \in Nat, Len(bytes) <= width, width > 0,
           at + width <= end, Write(bytes, width)
    PROVE  Decoded
<1>1. /\ at \in Nat \ {0} /\ end \in Nat /\ out \in Seq(0 .. 255) /\ Len(out) < at
  BY DEF ShapeOK, DecodeFits
<1>2. out' = out \o bytes /\ at' = at + width /\ pc' = "decode"
  BY DEF Write
<1>3. out \o bytes \in Seq(0 .. 255) /\ Len(out \o bytes) = Len(out) + Len(bytes)
  BY <1>1, ConcatProperties
<1>4. Len(out) \in Nat /\ Len(bytes) \in Nat
  BY <1>1
<1> QED BY <1>1, <1>2, <1>3, <1>4 DEF Decoded

LEMMA NothingUndecoded == Undecoded \in Seq(0 .. 255) /\ Len(Undecoded) <= 2 /\ Len(Undecoded) <= 6
BY DEF Undecoded

LEMMA DecodeStep ==
    ASSUME ShapeOK, DecodeFits, Decode
    PROVE  /\ pc = "decode" /\ UNCHANGED << text, raw, end >>
           /\ \/ pc' = "done" /\ UNCHANGED << at, out >>
              \/ Decoded
<1>1. /\ pc = "decode" /\ UNCHANGED << text, raw, end >>
      /\ at \in Nat \ {0} /\ end \in Nat /\ out \in Seq(0 .. 255) /\ Len(out) < at
      /\ raw \in Seq(0 .. 255) /\ end <= Len(raw) /\ Len(raw) \in Nat
  BY DEF ShapeOK, DecodeFits, Decode
<1>2. CASE at < end /\ ~Hidden /\ Write(<< raw[at] >>, 1)
  <2>1. raw[at] \in 0 .. 255
    <3>1. at \in 1 .. Len(raw)
      BY <1>1, <1>2
    <3> QED BY <1>1, <3>1, ElementOfSeq
  <2> DEFINE bytes == << raw[at] >>
  <2>2. bytes \in Seq(0 .. 255) /\ Len(bytes) <= 1
    BY <2>1
  <2>3. at + 1 <= end /\ Write(bytes, 1)
    BY <1>1, <1>2
  <2> HIDE DEF bytes
  <2>4. Decoded
    BY <1>1, <2>2, <2>3, WritesInside
  <2> QED BY <1>1, <2>4
<1>3. CASE Hidden /\ Write(<< Unescaped(raw[at + 1]) >>, 2)
  <2>1. at + 1 < end
    BY <1>3 DEF Hidden
  <2>2. raw[at + 1] \in 0 .. 255
    <3>1. at + 1 \in 1 .. Len(raw)
      BY <1>1, <2>1
    <3> QED BY <1>1, <3>1, ElementOfSeq
  <2>3. Unescaped(raw[at + 1]) \in 0 .. 255
    BY <2>2 DEF Unescaped
  <2> DEFINE bytes == << Unescaped(raw[at + 1]) >>
  <2>4. bytes \in Seq(0 .. 255) /\ Len(bytes) <= 2
    BY <2>3
  <2>5. at + 2 <= end /\ Write(bytes, 2)
    BY <1>1, <1>3, <2>1
  <2> HIDE DEF bytes
  <2>6. Decoded
    BY <1>1, <2>4, <2>5, WritesInside
  <2> QED BY <1>1, <2>6
<1>4. CASE HasDigits /\ \E cp : Write(Ascii(cp), 6)
  <2>1. PICK cp : Write(Ascii(cp), 6)
    BY <1>4
  <2>2. Ascii(cp) \in Seq(0 .. 255) /\ Len(Ascii(cp)) <= 6
    <3>1. CASE cp \in 0 .. 127
      <4>1. << cp >> \in Seq(0 .. 255) /\ Len(<< cp >>) <= 6
        BY <3>1
      <4> QED BY <3>1, <4>1 DEF Ascii
    <3>2. CASE cp \notin 0 .. 127
      <4>1. Ascii(cp) = Undecoded
        BY <3>2 DEF Ascii
      <4> QED BY <4>1, NothingUndecoded
    <3> QED BY <3>1, <3>2
  <2>3. at + 6 <= end
    BY <1>1, <1>4 DEF HasDigits
  <2> QED BY <1>1, <2>1, <2>2, <2>3, WritesInside
<1>5. CASE Hidden /\ Write(Undecoded, 2)
  <2>1. at + 2 <= end
    BY <1>1, <1>5 DEF Hidden
  <2>2. Decoded
    BY <1>1, <1>5, <2>1, NothingUndecoded, WritesInside
  <2> QED BY <1>1, <2>2
<1>6. CASE pc' = "done" /\ UNCHANGED << at, out >>
  BY <1>1, <1>6
<1> QED BY <1>1, <1>2, <1>3, <1>4, <1>5, <1>6 DEF Decode

LEMMA DecodeInv == IInv /\ Decode => IInv'
<1> SUFFICES ASSUME IInv, Decode PROVE IInv'
  OBVIOUS
<1>1. /\ pc = "decode" /\ UNCHANGED << text, raw, end >>
      /\ \/ pc' = "done" /\ UNCHANGED << at, out >>
         \/ Decoded
  BY DecodeStep DEF IInv
<1>2. ShapeOK' /\ DecodeFits'
  BY <1>1 DEF IInv, ShapeOK, DecodeFits, Decoded
<1>3. SpelledOK'
  <2> SUFFICES ASSUME text # NoText PROVE SpelledOK'
    BY <1>1 DEF SpelledOK
  <2>1. PICK first : Sent(first) /\ end = Close(first) /\ Decoding(first)
    BY <1>1 DEF IInv, SpelledOK, Reached
  <2>2. Sent(first)' /\ Close(first)' = Close(first)
    BY <1>1, <2>1 DEF Sent, Close
  <2>3. PICK k \in 1 .. Len(text) + 1 : at = first[k] /\ out = SubSeq(text, 1, k - 1)
    BY <2>1 DEF Decoding
  <2>4. text \in Seq(1 .. 255) /\ Len(text) \in Nat /\ at \in Nat /\ end \in Nat
    BY <1>1, TextAssumption DEF IInv, ShapeOK
  <2>5. CASE k = Len(text) + 1
    <3>1. at = end /\ out = text
      <4>1. k - 1 = Len(text)
        BY <2>4, <2>5
      <4>2. SubSeq(text, 1, k - 1) = text
        BY <2>4, <4>1, TakenAll
      <4> QED BY <2>1, <2>3, <2>5, <4>2 DEF Close
    <3>2. pc' = "done" /\ out' = out
      BY <2>4, <3>1 DEF Decode
    <3>3. Reached(first)'
      BY <1>1, <2>1, <2>2, <3>1, <3>2 DEF Reached
    <3> QED BY <2>2, <3>2, <3>3 DEF SpelledOK
  <2>6. CASE k # Len(text) + 1
    <3>1. k \in 1 .. Len(text) /\ k + 1 \in 1 .. Len(text) + 1 /\ (k + 1) - 1 = k
      BY <2>4, <2>6
    <3>2. pc' = "decode" /\ at' = first[k + 1] /\ out' = out \o << text[k] >>
      BY <1>1, <2>1, <2>3, <3>1, DecodesOn DEF IInv
    <3>3. out' = SubSeq(text, 1, (k + 1) - 1)
      BY <2>3, <2>4, <3>1, <3>2, Taken
    <3>4. Decoding(first)'
      BY <1>1, <3>1, <3>2, <3>3 DEF Decoding
    <3>5. Reached(first)'
      BY <1>1, <2>1, <2>2, <3>2, <3>4 DEF Reached
    <3> QED BY <2>2, <3>2, <3>5 DEF SpelledOK
  <2> QED BY <2>5, <2>6
<1> QED BY <1>2, <1>3 DEF IInv

LEMMA NextInv == IInv /\ [Next]_vars => IInv'
<1> SUFFICES ASSUME IInv, [Next]_vars PROVE IInv'
  OBVIOUS
<1>1. CASE UNCHANGED vars
  BY <1>1 DEF vars, IInv, ShapeOK, DecodeFits, SpelledOK, Sent, Close, Reached, Finding, Decoding
<1> QED BY <1>1, StageInv, HearInv, EscapeInv, EscapeEndsInv, FindInv, DecodeInv DEF Next

LEMMA Invariance == Spec => []IInv
BY InitInv, NextInv, PTL DEF Spec

(* Every string an application stages, of any length and any characters,   *)
(* comes back as it was when the daemon returns it as it was spelled, and  *)
(* is told from what follows it in the document.                           *)
THEOREM StringsRoundTrip == Spec => []RoundTrip
<1>1. IInv => RoundTrip
  <2> SUFFICES ASSUME IInv, text # NoText
               PROVE  /\ pc # "fail"
                      /\ pc = "done" => out = text /\ SubSeq(raw, end + 1, Len(raw)) \in Tails
    BY DEF RoundTrip
  <2> QED BY DEF IInv, SpelledOK, Reached, Sent
<1> QED BY <1>1, Invariance, PTL

(* Whatever stands between the quotes of a reply, decoding it neither      *)
(* reads the closing quote nor overruns the memory reserved for it.        *)
THEOREM DecodingFits == Spec => []DecodeFits
<1>1. IInv => DecodeFits
  BY DEF IInv
<1> QED BY <1>1, Invariance, PTL

-----------------------------------------------------------------------------
(* What one, two and six bytes spell, and that no character is spelled by  *)
(* bytes that begin as another spelling does.                              *)
LEMMA Spelled1 ==
    ASSUME NEW bytes, NEW i, NEW c \in Spells(bytes, i, 1)
    PROVE  bytes[i] = c /\ c \in 32 .. 127 /\ c \notin {Quote, Backslash}
BY DEF Spells

LEMMA Spelled2 ==
    ASSUME NEW bytes, NEW i, NEW c \in Spells(bytes, i, 2)
    PROVE  /\ bytes[i] = Backslash /\ bytes[i + 1] # LetterU /\ c \in 0 .. 127
           /\ Unescaped(bytes[i + 1]) = c
<1>1. /\ c \in {Quote, Backslash, 47} \cup DOMAIN Letter
      /\ bytes[i] = Backslash /\ bytes[i + 1] = IF c \in DOMAIN Letter THEN Letter[c] ELSE c
  BY DEF Spells
<1>2. CASE c \in {8, 9, 10, 12, 13}
  BY <1>1, <1>2 DEF Letter, Unescaped, LetterU
<1>3. CASE c \in {Quote, Backslash, 47}
  BY <1>1, <1>3 DEF Letter, Unescaped, LetterU, Quote, Backslash
<1> QED BY <1>1, <1>2, <1>3 DEF Letter

LEMMA Spelled6 ==
    ASSUME NEW bytes \in Seq(0 .. 255), NEW i \in 1 .. Len(bytes), i + 5 <= Len(bytes),
           NEW c \in Spells(bytes, i, 6)
    PROVE  /\ bytes[i] = Backslash /\ bytes[i + 1] = LetterU
           /\ bytes[i + 2] = 48 /\ bytes[i + 3] = 48
           /\ bytes[i + 4] \in Hexes /\ bytes[i + 5] \in Hexes
           /\ c \in 0 .. 127
           /\ HexNumber(48, 48, bytes[i + 4], bytes[i + 5]) = c
<1>1. /\ bytes[i] = Backslash /\ bytes[i + 1] = LetterU
      /\ bytes[i + 2] = 48 /\ bytes[i + 3] = 48 /\ c \in 0 .. 127
      /\ HexValue(bytes[i + 4]) = c \div 16 /\ HexValue(bytes[i + 5]) = c % 16
  BY DEF Spells
<1>2. bytes[i + 4] \in 0 .. 255 /\ bytes[i + 5] \in 0 .. 255
  <2>1. i + 4 \in 1 .. Len(bytes) /\ i + 5 \in 1 .. Len(bytes)
    OBVIOUS
  <2> QED BY <2>1, ElementOfSeq
<1>3. c \div 16 >= 0 /\ c % 16 >= 0 /\ 16 * (c \div 16) + (c % 16) = c
  BY <1>1
<1>4. \A x \in 0 .. 255 : HexValue(x) >= 0 => x \in Hexes
  BY DEF HexValue, Hexes
<1> DEFINE h == bytes[i + 4]
           l == bytes[i + 5]
<1>h. h \in 0 .. 255 /\ l \in 0 .. 255 /\ HexValue(h) = c \div 16 /\ HexValue(l) = c % 16
  BY <1>1, <1>2
<1> HIDE DEF h, l
<1>5. h \in Hexes /\ l \in Hexes
  <2>1. HexValue(h) >= 0 /\ HexValue(l) >= 0
    BY <1>h, <1>3
  <2> QED BY <1>h, <1>4, <2>1
<1>6. HexNumber(48, 48, h, l) = c
  <2>1. HexNumber(48, 48, h, l) = 16 * HexValue(h) + HexValue(l)
    BY <1>5, HexSum
  <2> QED BY <1>h, <1>3, <2>1
<1> QED BY <1>1, <1>5, <1>6 DEF h, l

(* A string that is spelled from i on has its quote there or behind.       *)
Strings(bytes, i) ==
    {m \in [string : Seq(0 .. 127), quote : Nat] : i <= m.quote /\ m.quote <= Len(bytes)}

Continues(bytes, meant, i, m) ==
    \E n \in {1, 2, 6} :
        /\ i + n <= Len(bytes)
        /\ \E c \in Spells(bytes, i, n), x \in meant[i + n] :
              m = [string |-> << c >> \o x.string, quote |-> x.quote]

LEMMA Meanings ==
    ASSUME NEW bytes \in Seq(0 .. 255), NEW meant, NEW i \in 1 .. Len(bytes) + 1, NEW m
    PROVE  m \in Meaning(bytes, meant, i)
             <=> /\ i <= Len(bytes)
                 /\ IF bytes[i] = Quote THEN m = [string |-> << >>, quote |-> i]
                    ELSE Continues(bytes, meant, i, m)
<1>1. Len(bytes) \in Nat
  OBVIOUS
<1>2. CASE i > Len(bytes)
  BY <1>1, <1>2 DEF Meaning
<1>3. CASE i <= Len(bytes) /\ bytes[i] = Quote
  BY <1>1, <1>3 DEF Meaning
<1>4. CASE i <= Len(bytes) /\ bytes[i] # Quote
  <2> DEFINE pair(c, x) == [string |-> << c >> \o x.string, quote |-> x.quote]
             of(n) == {pair(cm[1], cm[2]) : cm \in Spells(bytes, i, n) \X meant[i + n]}
             widths == {k \in {1, 2, 6} : i + k <= Len(bytes)}
  <2>1. Meaning(bytes, meant, i) = UNION {of(n) : n \in widths}
    BY <1>1, <1>4 DEF Meaning
  <2>2. ASSUME NEW n
        PROVE  m \in of(n) <=> \E c \in Spells(bytes, i, n), x \in meant[i + n] : m = pair(c, x)
    <3> HIDE DEF pair
    <3>1. ASSUME m \in of(n)
          PROVE  \E c \in Spells(bytes, i, n), x \in meant[i + n] : m = pair(c, x)
      <4>1. PICK cm \in Spells(bytes, i, n) \X meant[i + n] : m = pair(cm[1], cm[2])
        BY <3>1
      <4>2. cm[1] \in Spells(bytes, i, n) /\ cm[2] \in meant[i + n]
        OBVIOUS
      <4> QED BY <4>1, <4>2
    <3>2. ASSUME NEW c \in Spells(bytes, i, n), NEW x \in meant[i + n], m = pair(c, x)
          PROVE  m \in of(n)
      <4>1. << c, x >> \in Spells(bytes, i, n) \X meant[i + n]
        OBVIOUS
      <4>2. m = pair(<< c, x >>[1], << c, x >>[2])
        BY <3>2
      <4> QED BY <4>1, <4>2
    <3> QED BY <3>1, <3>2
  <2> HIDE DEF of
  <2>3. m \in Meaning(bytes, meant, i) <=> \E n \in widths : m \in of(n)
    BY <2>1
  <2> QED BY <1>4, <2>2, <2>3 DEF Continues
<1> QED BY <1>1, <1>2, <1>3, <1>4

LEMMA SpellsAscii ==
    ASSUME NEW bytes, NEW i, NEW n \in {1, 2, 6}, NEW c \in Spells(bytes, i, n)
    PROVE  c \in 0 .. 127
<1>1. CASE n = 1
  BY <1>1, Spelled1
<1>2. CASE n = 2
  BY <1>2, Spelled2
<1>3. CASE n = 6
  BY <1>3 DEF Spells
<1> QED BY <1>1, <1>2, <1>3

LEMMA MeaningsAreStrings ==
    ASSUME NEW bytes \in Seq(0 .. 255), NEW meant, NEW i \in 1 .. Len(bytes) + 1,
           \A k \in i + 1 .. Len(bytes) + 1 : meant[k] \subseteq Strings(bytes, k)
    PROVE  Meaning(bytes, meant, i) \subseteq Strings(bytes, i)
<1> SUFFICES ASSUME NEW m \in Meaning(bytes, meant, i) PROVE m \in Strings(bytes, i)
  OBVIOUS
<1>1. /\ i <= Len(bytes)
      /\ IF bytes[i] = Quote THEN m = [string |-> << >>, quote |-> i]
         ELSE Continues(bytes, meant, i, m)
  BY Meanings
<1>2. CASE bytes[i] = Quote
  <2>1. m = [string |-> << >>, quote |-> i] /\ i <= Len(bytes) /\ i \in Nat
    BY <1>1, <1>2
  <2>2. m.string = << >> /\ m.quote = i /\ m \in [string : Seq(0 .. 127), quote : Nat]
    BY <2>1
  <2> QED BY <2>1, <2>2 DEF Strings
<1>3. CASE bytes[i] # Quote
  <2>n. PICK n \in {1, 2, 6} :
           /\ i + n <= Len(bytes)
           /\ \E c \in Spells(bytes, i, n), x \in meant[i + n] :
                 m = [string |-> << c >> \o x.string, quote |-> x.quote]
    BY <1>1, <1>3 DEF Continues
  <2>1. PICK c \in Spells(bytes, i, n), x \in meant[i + n] :
           i + n <= Len(bytes) /\ m = [string |-> << c >> \o x.string, quote |-> x.quote]
    BY <2>n
  <2>2. i + n \in i + 1 .. Len(bytes) + 1
    BY <2>1
  <2>3. x \in Strings(bytes, i + n)
    BY <2>2
  <2>4. x.string \in Seq(0 .. 127) /\ x.quote \in Nat /\ i + n <= x.quote /\ x.quote <= Len(bytes)
    BY <2>3 DEF Strings
  <2>5. << c >> \o x.string \in Seq(0 .. 127)
    <3>1. c \in 0 .. 127
      BY SpellsAscii
    <3>2. << c >> \in Seq(0 .. 127)
      BY <3>1
    <3> QED BY <2>4, <3>2, ConcatProperties
  <2>6. i <= x.quote
    BY <2>4
  <2> QED BY <2>1, <2>4, <2>5, <2>6 DEF Strings
<1> QED BY <1>2, <1>3

(* The recursive definition is one.                                        *)
LEMMA MeantMeans ==
    ASSUME NEW bytes \in Seq(0 .. 255)
    PROVE  \A i \in 1 .. Len(bytes) + 1 :
              /\ Meant(bytes)[i] = Meaning(bytes, Meant(bytes), i)
              /\ Meant(bytes)[i] \subseteq Strings(bytes, i)
<1> DEFINE D == 1 .. Len(bytes) + 1
           Ok == [i \in D |-> SUBSET Strings(bytes, i)]
           rank == [i \in D |-> Len(bytes) + 1 - i]
           top == Len(bytes) + 1
           step == [fd \in Sound(D, Ok) \X D |-> Meaning(bytes, fd[1], fd[2])]
<1>1. rank \in [D -> Nat] /\ top \in Nat /\ \A i \in D : rank[i] < top
  OBVIOUS
<1>2. \A i \in D : Ok[i] = SUBSET Strings(bytes, i)
  OBVIOUS
<1>3. \A f \in Sound(D, Ok), i \in D : step[<< f, i >>] = Meaning(bytes, f, i)
  OBVIOUS
<1>4. \A i \in D : \A k \in i + 1 .. Len(bytes) + 1 : k \in D /\ rank[k] < rank[i]
  OBVIOUS
<1>5. D = 1 .. Len(bytes) + 1
  OBVIOUS
<1> HIDE DEF D, Ok, rank, top, step
<1>6. ASSUME NEW f \in Sound(D, Ok), NEW i \in D PROVE f[i] \subseteq Strings(bytes, i)
  BY <1>2 DEF Sound
<1>7. ASSUME NEW f \in Sound(D, Ok), NEW i \in D
      PROVE  Meaning(bytes, f, i) \subseteq Strings(bytes, i)
  <2>1. \A k \in i + 1 .. Len(bytes) + 1 : f[k] \subseteq Strings(bytes, k)
    BY <1>4, <1>6
  <2> QED BY <1>5, <2>1, MeaningsAreStrings
<1>8. \A f \in Sound(D, Ok), i \in D : step[<< f, i >>] \in Ok[i]
  <2> SUFFICES ASSUME NEW f \in Sound(D, Ok), NEW i \in D PROVE step[<< f, i >>] \in Ok[i]
    OBVIOUS
  <2>1. Meaning(bytes, f, i) \subseteq Strings(bytes, i)
    BY <1>7
  <2>2. step[<< f, i >>] = Meaning(bytes, f, i) /\ Ok[i] = SUBSET Strings(bytes, i)
    BY <1>2, <1>3
  <2> QED BY <2>1, <2>2
<1>9. ASSUME NEW f, NEW g, NEW i \in D, \A k \in D : rank[k] < rank[i] => f[k] = g[k]
      PROVE  Meaning(bytes, f, i) = Meaning(bytes, g, i)
  <2>1. ASSUME NEW n \in {1, 2, 6}, i + n <= Len(bytes) PROVE f[i + n] = g[i + n]
    <3>1. i + n \in i + 1 .. Len(bytes) + 1
      BY <1>5, <2>1
    <3> QED BY <1>4, <1>9, <3>1
  <2>2. \A m : Continues(bytes, f, i, m) <=> Continues(bytes, g, i, m)
    BY <2>1 DEF Continues
  <2>3. \A m : m \in Meaning(bytes, f, i) <=> m \in Meaning(bytes, g, i)
    BY <1>5, <2>2, Meanings
  <2> QED BY <2>3
<1>10. \A f, g \in Sound(D, Ok), i \in D :
          (\A k \in D : rank[k] < rank[i] => f[k] = g[k]) => step[<< f, i >>] = step[<< g, i >>]
  BY <1>3, <1>9
<1>11. \A i \in D : Ok[i] # {}
  BY <1>2
<1>12. PICK f \in Sound(D, Ok) : f = [i \in D |-> step[<< f, i >>]]
  <2>1. Recursive(D, Ok, rank, top, step)
    BY <1>1, <1>8, <1>10, <1>11 DEF Recursive
  <2> QED BY <2>1, Recursion
<1>13. f = [i \in 1 .. Len(bytes) + 1 |-> Meaning(bytes, f, i)]
  BY <1>3, <1>5, <1>12
<1>14. Meant(bytes) = [i \in 1 .. Len(bytes) + 1 |-> Meaning(bytes, Meant(bytes), i)]
  BY <1>13 DEF Meant
<1>15. \A i \in D : Meant(bytes)[i] = Meaning(bytes, Meant(bytes), i)
  BY <1>5, <1>14
<1>16. D \subseteq {i \in D : Meant(bytes)[i] = f[i]}
  <2> DEFINE P == {i \in D : Meant(bytes)[i] = f[i]}
             meant == Meant(bytes)
  <2>1. ASSUME NEW i \in D, \A k \in D : rank[k] < rank[i] => k \in P PROVE i \in P
    <3>1. \A k \in D : rank[k] < rank[i] => meant[k] = f[k]
      BY <2>1
    <3>2. meant[i] = Meaning(bytes, meant, i)
      BY <1>15
    <3> HIDE DEF meant
    <3>3. Meaning(bytes, meant, i) = Meaning(bytes, f, i)
      BY <1>9, <3>1
    <3>4. meant[i] = f[i]
      BY <1>5, <1>13, <3>2, <3>3
    <3> QED BY <3>4 DEF meant
  <2> HIDE DEF P
  <2>2. D \subseteq P
    BY <1>1, <2>1, ByRank
  <2> QED BY <2>2 DEF P
<1> QED BY <1>5, <1>6, <1>15, <1>16

Rest(bytes, i, n, m) ==
    \E c \in Spells(bytes, i, n), x \in Meant(bytes)[i + n] :
        m.string = << c >> \o x.string /\ m.quote = x.quote

LEMMA MeantIs ==
    ASSUME NEW bytes \in Seq(0 .. 255), NEW i \in 1 .. Len(bytes) + 1, NEW m \in Meant(bytes)[i]
    PROVE  /\ m.string \in Seq(0 .. 127) /\ m.quote \in i .. Len(bytes)
           /\ bytes[i] = Quote => m.string = << >> /\ m.quote = i
           /\ bytes[i] # Quote => \E n \in {1, 2, 6} : i + n <= Len(bytes) /\ Rest(bytes, i, n, m)
<1> DEFINE meant == Meant(bytes)
<1>1. meant[i] = Meaning(bytes, meant, i) /\ meant[i] \subseteq Strings(bytes, i)
  BY MeantMeans
<1>2. m.string \in Seq(0 .. 127) /\ m.quote \in i .. Len(bytes)
  <2>1. m \in Strings(bytes, i)
    BY <1>1
  <2> QED BY <2>1 DEF Strings
<1> HIDE DEF meant
<1>3. /\ i <= Len(bytes)
      /\ IF bytes[i] = Quote THEN m = [string |-> << >>, quote |-> i]
         ELSE Continues(bytes, meant, i, m)
  <2>1. m \in Meaning(bytes, meant, i)
    BY <1>1 DEF meant
  <2> QED BY <2>1, Meanings
<1>4. bytes[i] = Quote => m.string = << >> /\ m.quote = i
  BY <1>3
<1>5. ASSUME bytes[i] # Quote
      PROVE  \E n \in {1, 2, 6} : i + n <= Len(bytes) /\ Rest(bytes, i, n, m)
  <2>1. PICK n \in {1, 2, 6} :
           /\ i + n <= Len(bytes)
           /\ \E c \in Spells(bytes, i, n), x \in meant[i + n] :
                 m = [string |-> << c >> \o x.string, quote |-> x.quote]
    BY <1>3, <1>5 DEF Continues
  <2>2. PICK c \in Spells(bytes, i, n), x \in meant[i + n] :
           m = [string |-> << c >> \o x.string, quote |-> x.quote]
    BY <2>1
  <2>3. m.string = << c >> \o x.string /\ m.quote = x.quote
    BY <2>2
  <2>4. Rest(bytes, i, n, m)
    BY <2>3 DEF Rest, meant
  <2> QED BY <2>1, <2>4
<1> QED BY <1>2, <1>4, <1>5

(* Where the two loops are in a string that the reply spells: jp_string at *)
(* the start of a character or at one of the digits in front of it.        *)
FindsRest(m) ==
    \E p \in 1 .. Len(raw) : \E x \in Meant(raw)[p] :
        /\ x.quote = m.quote
        /\ \/ at = p
           \/ at \in p - 4 .. p - 1 /\ \A k \in p - 4 .. p - 1 : raw[k] \in Hexes

DecodesRest(m) ==
    \E x \in Meant(raw)[at] : x.quote = end /\ m.string = out \o x.string

MeantOK ==
    pc \in {"find", "decode", "done", "fail"} =>
        \A m \in Meant(raw)[1] :
            /\ pc # "fail"
            /\ pc = "find" => FindsRest(m)
            /\ pc = "decode" => end = m.quote /\ DecodesRest(m)
            /\ pc = "done" => end = m.quote /\ out = m.string

LEMMA ReplyBegins ==
    ASSUME IInv', pc' = "find", at' = 1
    PROVE  MeantOK'
<1>1. raw' \in Seq(0 .. 255)
  BY DEF IInv, ShapeOK
<1>2. ASSUME NEW m \in Meant(raw')[1] PROVE FindsRest(m)'
  <2>1. Len(raw') \in Nat /\ 1 \in 1 .. Len(raw') + 1
    BY <1>1
  <2>2. m.quote \in 1 .. Len(raw')
    BY <1>1, <2>1, MeantIs
  <2>3. 1 \in 1 .. Len(raw')
    BY <2>1, <2>2
  <2> QED BY <2>3 DEF FindsRest
<1> QED BY <1>2 DEF MeantOK

LEMMA FindMeant ==
    ASSUME IInv, MeantOK, Find
    PROVE  MeantOK'
<1>1. /\ raw \in Seq(0 .. 255) /\ Len(raw) \in Nat /\ at \in Nat \ {0} /\ out = << >>
      /\ pc = "find" /\ UNCHANGED << text, raw, out >>
  BY DEF IInv, ShapeOK, Find
<1> SUFFICES ASSUME NEW m \in Meant(raw)[1]
             PROVE  /\ pc' # "fail"
                    /\ pc' = "find" => FindsRest(m)'
                    /\ pc' = "decode" => end' = m.quote /\ DecodesRest(m)'
                    /\ pc' = "done" => FALSE
  <2>1. pc' = "done" => FALSE
    BY <1>1 DEF Find
  <2> QED BY <1>1, <2>1 DEF MeantOK
<1>2. PICK p \in 1 .. Len(raw) :
         \E x \in Meant(raw)[p] :
            /\ x.quote = m.quote
            /\ \/ at = p
               \/ at \in p - 4 .. p - 1 /\ \A k \in p - 4 .. p - 1 : raw[k] \in Hexes
  <2>1. FindsRest(m)
    BY <1>1 DEF MeantOK
  <2> QED BY <2>1 DEF FindsRest
<1>3. PICK x \in Meant(raw)[p] :
         /\ x.quote = m.quote
         /\ \/ at = p
            \/ at \in p - 4 .. p - 1 /\ \A k \in p - 4 .. p - 1 : raw[k] \in Hexes
  BY <1>2
<1>4. at \in 1 .. Len(raw)
  BY <1>1, <1>3
<1>5. m.string \in Seq(0 .. 127) /\ m.quote \in 1 .. Len(raw)
  BY <1>1, MeantIs
<1>6. CASE raw[at] = Quote
  <2>1. pc' = "decode" /\ end' = at /\ at' = 1
    BY <1>1, <1>4, <1>6 DEF Find
  <2>2. Quote \notin Hexes
    BY DEF Quote, Hexes
  <2>3. at = p
    BY <1>3, <1>6, <2>2
  <2>4. x.quote = p
    <3>1. p \in 1 .. Len(raw) + 1
      OBVIOUS
    <3> QED BY <1>1, <1>6, <2>3, <3>1, MeantIs
  <2>5. m.string = out' \o m.string
    BY <1>1, <1>5
  <2>6. DecodesRest(m)'
    BY <1>1, <1>3, <2>1, <2>3, <2>4, <2>5 DEF DecodesRest
  <2> QED BY <1>3, <2>1, <2>3, <2>4, <2>6
<1>7. CASE raw[at] # Quote
  <2>1. pc' = "find" /\ at' = at + Skipped
    BY <1>1, <1>4, <1>7 DEF Find
  <2>2. CASE at = p
    <3>1. PICK n \in {1, 2, 6} : p + n <= Len(raw) /\ Rest(raw, p, n, x)
      <4>1. p \in 1 .. Len(raw) + 1 /\ raw[p] # Quote
        BY <1>7, <2>2
      <4> QED BY <1>1, <4>1, MeantIs
    <3>2. PICK c \in Spells(raw, p, n), y \in Meant(raw)[p + n] :
             x.string = << c >> \o y.string /\ x.quote = y.quote
      BY <3>1 DEF Rest
    <3>3. p + n \in 1 .. Len(raw) /\ y.quote = m.quote /\ at < Len(raw)
      BY <1>1, <1>3, <2>2, <3>1, <3>2
    <3>4. CASE n = 1
      <4>1. raw[at] # Backslash
        BY <2>2, <3>2, <3>4, Spelled1
      <4>2. at' = p + n
        BY <2>1, <2>2, <3>4, <4>1 DEF Skipped
      <4>3. FindsRest(m)'
        BY <1>1, <3>3, <4>2 DEF FindsRest
      <4> QED BY <2>1, <4>3
    <3>5. CASE n = 2
      <4>1. raw[at] = Backslash
        BY <2>2, <3>2, <3>5, Spelled2
      <4>2. at' = p + n
        BY <2>1, <2>2, <3>3, <3>5, <4>1 DEF Skipped
      <4>3. FindsRest(m)'
        BY <1>1, <3>3, <4>2 DEF FindsRest
      <4> QED BY <2>1, <4>3
    <3>6. CASE n = 6
      <4>1. /\ raw[p] = Backslash /\ raw[p + 2] = 48 /\ raw[p + 3] = 48
            /\ raw[p + 4] \in Hexes /\ raw[p + 5] \in Hexes
        <5>1. p + 5 <= Len(raw)
          BY <1>1, <3>1, <3>6
        <5>2. c \in Spells(raw, p, 6)
          BY <3>2, <3>6
        <5>3. raw \in Seq(0 .. 255)
          BY <1>1
        <5> QED BY <5>1, <5>2, <5>3, Spelled6
      <4>2. at' = p + 2
        BY <2>1, <2>2, <3>3, <4>1 DEF Skipped
      <4> DEFINE q == p + 6
      <4>3. \A k \in q - 4 .. q - 1 : raw[k] \in Hexes
        <5>1. \A k \in q - 4 .. q - 1 : k = p + 2 \/ k = p + 3 \/ k = p + 4 \/ k = p + 5
          OBVIOUS
        <5>2. 48 \in Hexes
          BY DEF Hexes
        <5> QED BY <4>1, <5>1, <5>2
      <4>4. at' \in q - 4 .. q - 1 /\ q \in 1 .. Len(raw) /\ y \in Meant(raw)[q]
        BY <3>3, <3>6, <4>2
      <4> HIDE DEF q
      <4>5. FindsRest(m)'
        BY <1>1, <3>3, <4>3, <4>4 DEF FindsRest
      <4> QED BY <2>1, <4>5
    <3> QED BY <3>4, <3>5, <3>6
  <2>3. CASE at # p
    <3>1. at \in p - 4 .. p - 1 /\ \A k \in p - 4 .. p - 1 : raw[k] \in Hexes
      BY <1>3, <2>3
    <3>2. raw[at] # Backslash
      <4>1. raw[at] \in Hexes
        BY <3>1
      <4>2. Backslash \notin Hexes
        BY DEF Backslash, Hexes
      <4> QED BY <4>1, <4>2
    <3>3. at' = at + 1
      BY <2>1, <3>2 DEF Skipped
    <3>4. at' = p \/ at' \in p - 4 .. p - 1
      BY <1>1, <3>1, <3>3
    <3>5. FindsRest(m)'
      BY <1>1, <1>3, <3>1, <3>4 DEF FindsRest
    <3> QED BY <2>1, <3>5
  <2> QED BY <2>2, <2>3
<1> QED BY <1>6, <1>7

LEMMA Appended ==
    ASSUME NEW a \in Seq(0 .. 255), NEW c \in 0 .. 255, NEW b \in Seq(0 .. 127)
    PROVE  a \o (<< c >> \o b) = (a \o << c >>) \o b
<1>1. b \in Seq(0 .. 255) /\ << c >> \in Seq(0 .. 255)
  OBVIOUS
<1> QED BY <1>1, ConcatAssociative

LEMMA DecodeMeant ==
    ASSUME IInv, MeantOK, Decode
    PROVE  MeantOK'
<1>1. /\ raw \in Seq(0 .. 255) /\ Len(raw) \in Nat /\ out \in Seq(0 .. 255)
      /\ at \in Nat \ {0} /\ at <= end /\ end \in 1 .. Len(raw)
      /\ pc = "decode" /\ UNCHANGED << text, raw, end >>
  BY DEF IInv, ShapeOK, DecodeFits, Decode
<1>2. pc' = "done" \/ pc' = "decode"
  BY <1>1 DEF Decode, Write
<1> SUFFICES ASSUME NEW m \in Meant(raw)[1]
             PROVE  /\ pc' = "decode" => end = m.quote /\ DecodesRest(m)'
                    /\ pc' = "done" => end = m.quote /\ out' = m.string
  BY <1>1, <1>2 DEF MeantOK
<1>3. end = m.quote /\ DecodesRest(m)
  BY <1>1 DEF MeantOK
<1>4. PICK x \in Meant(raw)[at] : x.quote = end /\ m.string = out \o x.string
  BY <1>3 DEF DecodesRest
<1>5. at \in 1 .. Len(raw) + 1
  BY <1>1
<1>6. CASE raw[at] = Quote
  <2>1. x.string = << >> /\ at = end
    <3>1. raw \in Seq(0 .. 255)
      BY <1>1
    <3>2. x.string = << >> /\ x.quote = at
      BY <1>5, <1>6, <3>1, MeantIs
    <3> QED BY <1>4, <3>2
  <2>2. pc' = "done" /\ out' = out
    BY <1>1, <2>1 DEF Decode
  <2>3. m.string = out
    BY <1>1, <1>4, <2>1
  <2> QED BY <1>3, <2>2, <2>3
<1>7. CASE raw[at] # Quote
  <2>1. PICK n \in {1, 2, 6} : at + n <= Len(raw) /\ Rest(raw, at, n, x)
    <3>1. raw \in Seq(0 .. 255)
      BY <1>1
    <3> QED BY <1>5, <1>7, <3>1, MeantIs
  <2>2. PICK c \in Spells(raw, at, n), y \in Meant(raw)[at + n] :
           x.string = << c >> \o y.string /\ x.quote = y.quote
    BY <2>1 DEF Rest
  <2>3. y.string \in Seq(0 .. 127) /\ at + n <= end /\ y.quote = end /\ c \in 0 .. 255
    <3>1. at + n \in 1 .. Len(raw) + 1
      BY <1>1, <2>1
    <3>2. y.string \in Seq(0 .. 127) /\ y.quote \in at + n .. Len(raw)
      BY <1>1, <3>1, MeantIs
    <3>3. c \in 0 .. 127
      BY SpellsAscii
    <3> QED BY <1>1, <1>4, <2>2, <3>2, <3>3
  <2>4. m.string = (out \o << c >>) \o y.string
    <3>1. out \o (<< c >> \o y.string) = (out \o << c >>) \o y.string
      BY <1>1, <2>3, Appended
    <3> QED BY <1>4, <2>2, <3>1
  <2>5. Write(<< c >>, n)
    <3>1. CASE n = 1
      <4>1. raw[at] = c /\ c # Backslash
        BY <2>2, <3>1, Spelled1
      <4>2. at < end /\ ~Hidden
        BY <1>1, <2>3, <3>1, <4>1 DEF Hidden
      <4> QED BY <1>1, <3>1, <4>1, <4>2 DEF Decode
    <3>2. CASE n = 2
      <4>1. raw[at] = Backslash /\ raw[at + 1] # LetterU /\ Unescaped(raw[at + 1]) = c
        BY <2>2, <3>2, Spelled2
      <4>2. at < end /\ Hidden
        BY <1>1, <2>3, <3>2, <4>1 DEF Hidden
      <4> QED BY <1>1, <3>2, <4>1, <4>2 DEF Decode
    <3>3. CASE n = 6
      <4>1. /\ raw[at] = Backslash /\ raw[at + 1] = LetterU
            /\ raw[at + 2] = 48 /\ raw[at + 3] = 48 /\ c \in 0 .. 127
            /\ HexNumber(48, 48, raw[at + 4], raw[at + 5]) = c
        <5>1. at \in 1 .. Len(raw) /\ at + 5 <= Len(raw)
          BY <1>1, <2>1, <3>3
        <5>2. c \in Spells(raw, at, 6)
          BY <2>2, <3>3
        <5>3. raw \in Seq(0 .. 255)
          BY <1>1
        <5> QED BY <5>1, <5>2, <5>3, Spelled6
      <4>2. at < end /\ Hidden /\ HasDigits
        <5>1. at \in Nat /\ end \in Nat /\ at + 6 <= end
          BY <1>1, <2>3, <3>3
        <5>2. at < end /\ at + 1 < end /\ at + 5 < end
          BY <5>1
        <5> QED BY <4>1, <5>2 DEF Hidden, HasDigits
      <4>3. Write(Ascii(HexNumber(raw[at + 2], raw[at + 3], raw[at + 4], raw[at + 5])), 6)
        BY <1>1, <4>1, <4>2 DEF Decode
      <4>4. Ascii(c) = << c >>
        BY <4>1 DEF Ascii
      <4> QED BY <3>3, <4>1, <4>3, <4>4
    <3> QED BY <3>1, <3>2, <3>3
  <2>6. pc' = "decode" /\ at' = at + n /\ out' = out \o << c >>
    BY <1>1, <2>5 DEF Write
  <2>7. DecodesRest(m)'
    BY <1>1, <2>2, <2>3, <2>4, <2>6 DEF DecodesRest
  <2> QED BY <1>3, <2>6, <2>7
<1> QED BY <1>6, <1>7

LEMMA MeantInv == IInv /\ MeantOK /\ [Next]_vars => MeantOK'
<1> SUFFICES ASSUME IInv, MeantOK, [Next]_vars PROVE MeantOK'
  OBVIOUS
<1>1. IInv'
  BY NextInv
<1>2. CASE Stage
  BY <1>2 DEF Stage, MeantOK
<1>3. CASE Hear
  <2>1. pc' = "find" /\ at' = 1
    BY <1>3 DEF Hear, IInv, ShapeOK
  <2> QED BY <1>1, <2>1, ReplyBegins
<1>4. CASE Escape
  BY <1>4 DEF Escape, MeantOK
<1>5. ASSUME NEW tail \in Tails, EscapeEnds(tail) PROVE MeantOK'
  <2>1. pc' = "find" /\ at' = 1
    BY <1>5 DEF EscapeEnds
  <2> QED BY <1>1, <2>1, ReplyBegins
<1>6. CASE UNCHANGED vars
  BY <1>6 DEF vars, MeantOK, FindsRest, DecodesRest
<1> QED BY <1>2, <1>3, <1>4, <1>5, <1>6, FindMeant, DecodeMeant DEF Next

(* However the daemon spells an ASCII string (escapes where there need be  *)
(* none, hexadecimal digits of either case), the client finds the quote    *)
(* that ends it and decodes the string.                                    *)
THEOREM SpellingsAreRead == Spec => []AnySpellingIsRead
<1>1. Init => MeantOK
  BY DEF Init, MeantOK
<1>2. IInv /\ MeantOK => AnySpellingIsRead
  BY DEF MeantOK, AnySpellingIsRead
<1> QED BY <1>1, <1>2, Invariance, MeantInv, PTL DEF Spec

-----------------------------------------------------------------------------
(* The numbers of a reply.                                                 *)
LEMMA Values ==
    ASSUME NEW s \in Seq(0 .. 255)
    PROVE  /\ Value(s) \in [0 .. Len(s) -> Nat]
           /\ Value(s)[0] = 0
           /\ \A k \in 1 .. Len(s) :
                 Value(s)[k] = IF s[k] \in Digits THEN 10 * Value(s)[k - 1] + s[k] - 48 ELSE 0
<1> DEFINE n == Len(s)
           next == [vk \in Nat \X (1 .. n) |->
                       IF s[vk[2]] \in Digits THEN 10 * vk[1] + s[vk[2]] - 48 ELSE 0]
<1>1. n \in Nat
  OBVIOUS
<1>2. next \in [Nat \X (1 .. n) -> Nat]
  <2>1. ASSUME NEW vk \in Nat \X (1 .. n)
        PROVE  (IF s[vk[2]] \in Digits THEN 10 * vk[1] + s[vk[2]] - 48 ELSE 0) \in Nat
    <3> DEFINE v == vk[1]
               c == s[vk[2]]
    <3>1. v \in Nat /\ (c \in Digits => c \in 48 .. 57)
      BY DEF Digits
    <3> HIDE DEF v, c
    <3>2. CASE c \in Digits
      <4>1. 10 * v + c - 48 \in Nat
        <5>1. v \in Nat /\ c \in 48 .. 57
          BY <3>1, <3>2
        <5> QED BY <5>1
      <4> QED BY <3>2, <4>1 DEF v, c
    <3>3. CASE c \notin Digits
      BY <3>3 DEF v, c
    <3> QED BY <3>2, <3>3
  <2> QED BY <2>1
<1>3. ASSUME NEW v \in Nat, NEW k \in 1 .. n
      PROVE  next[<< v, k >>] = IF s[k] \in Digits THEN 10 * v + s[k] - 48 ELSE 0
  OBVIOUS
<1> HIDE DEF next
<1>4. PICK f \in [0 .. n -> Nat] : f[0] = 0 /\ \A k \in 1 .. n : f[k] = next[<< f[k - 1], k >>]
  <2> DEFINE zero == 0
  <2>1. zero \in Nat
    OBVIOUS
  <2> HIDE DEF n, zero
  <2>2. Stepwise(Nat, n, zero, next)
    BY <1>1, <1>2, <2>1, StepByStep
  <2> QED BY <2>2 DEF Stepwise, zero
<1>5. ASSUME NEW k \in 1 .. n
      PROVE  f[k] = IF s[k] \in Digits THEN 10 * f[k - 1] + s[k] - 48 ELSE 0
  <2>1. f[k - 1] \in Nat
    OBVIOUS
  <2> QED BY <1>3, <1>4, <2>1
<1>6. f = [k \in 0 .. n |->
             IF k = 0 THEN 0
             ELSE IF s[k] \in Digits THEN 10 * f[k - 1] + s[k] - 48 ELSE 0]
  <2> DEFINE body(k) == IF k = 0 THEN 0
                        ELSE IF s[k] \in Digits THEN 10 * f[k - 1] + s[k] - 48 ELSE 0
  <2>1. ASSUME NEW k \in 0 .. n PROVE f[k] = body(k)
    <3>1. k = 0 \/ k \in 1 .. n
      OBVIOUS
    <3> QED BY <1>4, <1>5, <3>1
  <2> HIDE DEF body, n
  <2>2. f = [k \in 0 .. n |-> body(k)]
    BY <2>1
  <2> QED BY <2>2 DEF body
<1>7. Value(s) = [k \in 0 .. Len(s) |->
                    IF k = 0 THEN 0
                    ELSE IF s[k] \in Digits THEN 10 * Value(s)[k - 1] + s[k] - 48 ELSE 0]
  BY <1>6 DEF Value
<1> DEFINE value == Value(s)
<1>8. value = [k \in 0 .. n |-> IF k = 0 THEN 0
                            ELSE IF s[k] \in Digits THEN 10 * value[k - 1] + s[k] - 48 ELSE 0]
  BY <1>7
<1> HIDE DEF value
<1>9. \A k \in 0 .. n : value[k] \in Nat
  <2> DEFINE P == {k \in Nat : k <= n => value[k] \in Nat}
  <2>1. 0 \in P
    BY <1>1, <1>8
  <2>2. ASSUME NEW k \in Nat, k \in P PROVE k + 1 \in P
    <3> SUFFICES ASSUME k + 1 <= n PROVE value[k + 1] \in Nat
      OBVIOUS
    <3>1. value[k] \in Nat
      BY <1>1, <2>2
    <3>2. k + 1 \in 0 .. n /\ k + 1 # 0 /\ (k + 1) - 1 = k
      BY <1>1
    <3> HIDE DEF n
    <3>3. value[k + 1] = IF s[k + 1] \in Digits THEN 10 * value[k] + s[k + 1] - 48 ELSE 0
      BY <1>8, <3>2
    <3>4. CASE s[k + 1] \in Digits
      <4> DEFINE v == value[k]
                 c == s[k + 1]
      <4>1. v \in Nat /\ c \in 48 .. 57 /\ value[k + 1] = 10 * v + c - 48
        BY <3>1, <3>3, <3>4 DEF Digits
      <4> HIDE DEF v, c
      <4> QED BY <4>1
    <3>5. CASE s[k + 1] \notin Digits
      BY <3>3, <3>5
    <3> QED BY <3>4, <3>5
  <2> HIDE DEF P
  <2>3. Nat \subseteq P
    BY <2>1, <2>2, Induct
  <2> QED BY <2>3 DEF P
<1>10. value \in [0 .. n -> Nat]
  BY <1>8, <1>9
<1>11. value[0] = 0
  BY <1>1, <1>8
<1>12. ASSUME NEW k \in 1 .. n
       PROVE  value[k] = IF s[k] \in Digits THEN 10 * value[k - 1] + s[k] - 48 ELSE 0
  <2>1. k \in 0 .. n /\ k # 0
    BY <1>1
  <2> HIDE DEF n
  <2> QED BY <1>8, <2>1
<1> QED BY <1>10, <1>11, <1>12 DEF value

LEMMA Powers ==
    /\ TenTo[0] = 1
    /\ \A k \in 1 .. BufSize : TenTo[k] = 10 * TenTo[k - 1]
    /\ \A k \in 0 .. BufSize : TenTo[k] \in Nat
<1> DEFINE n == BufSize
           next == [vk \in Nat \X (1 .. n) |-> 10 * vk[1]]
<1>1. n \in Nat
  BY NumberAssumption
<1>2. next \in [Nat \X (1 .. n) -> Nat]
  OBVIOUS
<1>3. \A v \in Nat, k \in 1 .. n : next[<< v, k >>] = 10 * v
  OBVIOUS
<1> HIDE DEF next, n
<1>4. PICK f \in [0 .. n -> Nat] : f[0] = 1 /\ \A k \in 1 .. n : f[k] = next[<< f[k - 1], k >>]
  <2> DEFINE one == 1
  <2>1. one \in Nat
    OBVIOUS
  <2> HIDE DEF one
  <2>2. Stepwise(Nat, n, one, next)
    BY <1>1, <1>2, <2>1, StepByStep
  <2> QED BY <2>2 DEF Stepwise, one
<1>5. ASSUME NEW k \in 1 .. n PROVE f[k] = 10 * f[k - 1]
  <2>1. f[k - 1] \in Nat
    BY <1>1
  <2> QED BY <1>3, <1>4, <2>1
<1>6. f = [k \in 0 .. n |-> IF k = 0 THEN 1 ELSE 10 * f[k - 1]]
  BY <1>1, <1>4, <1>5
<1>7. TenTo = [k \in 0 .. n |-> IF k = 0 THEN 1 ELSE 10 * TenTo[k - 1]]
  BY <1>6 DEF TenTo, n
<1> DEFINE P == {k \in Nat : k <= n => TenTo[k] \in Nat}
<1>8. 0 \in P
  BY <1>1, <1>7
<1>9. ASSUME NEW k \in Nat, k \in P PROVE k + 1 \in P
  <2>1. CASE k + 1 <= n
    <3>1. TenTo[k] \in Nat /\ k + 1 \in 0 .. n /\ k + 1 # 0 /\ (k + 1) - 1 = k
      BY <1>1, <1>9, <2>1
    <3>2. TenTo[k + 1] = 10 * TenTo[k]
      BY <1>7, <3>1
    <3> QED BY <3>1, <3>2
  <2> QED BY <2>1
<1> HIDE DEF P
<1>10. Nat \subseteq P
  BY <1>8, <1>9, Induct
<1>11. \A k \in 0 .. n : TenTo[k] \in Nat
  BY <1>1, <1>10 DEF P
<1> QED BY <1>1, <1>7, <1>11 DEF n

(* What is cut off changes no value in front of it.                        *)
LEMMA ValueOfCut ==
    ASSUME NEW t \in Seq(0 .. 255), NEW n \in 0 .. Len(t)
    PROVE  /\ SubSeq(t, 1, n) \in Seq(0 .. 255) /\ Len(SubSeq(t, 1, n)) = n
           /\ \A k \in 1 .. n : SubSeq(t, 1, n)[k] = t[k]
           /\ \A k \in 0 .. n : Value(SubSeq(t, 1, n))[k] = Value(t)[k]
<1> DEFINE s == SubSeq(t, 1, n)
<1>1. s \in Seq(0 .. 255) /\ Len(s) = n /\ \A k \in 1 .. n : s[k] = t[k]
  <2>1. ASSUME NEW k \in 1 .. n PROVE t[k] \in 0 .. 255
    <3>1. k \in 1 .. Len(t)
      OBVIOUS
    <3> QED BY <3>1, ElementOfSeq
  <2>2. n \in Nat /\ n - 1 + 1 = n /\ (n < 1 => n = 0) /\ \A k \in 1 .. n : 1 + k - 1 = k
    OBVIOUS
  <2>3. /\ s \in Seq(0 .. 255) /\ Len(s) = IF 1 <= n THEN n - 1 + 1 ELSE 0
        /\ \A k \in 1 .. n - 1 + 1 : s[k] = t[1 + k - 1]
    BY <2>1, SubSeqProperties
  <2> HIDE DEF s
  <2> QED BY <2>2, <2>3
<1> HIDE DEF s
<1> DEFINE v == Value(s)
           w == Value(t)
           P == {k \in Nat : k <= n => v[k] = w[k]}
<1>2. v[0] = 0 /\ \A k \in 1 .. n : v[k] = IF s[k] \in Digits THEN 10 * v[k - 1] + s[k] - 48 ELSE 0
  BY <1>1, Values
<1>3. w[0] = 0 /\ \A k \in 1 .. n : w[k] = IF t[k] \in Digits THEN 10 * w[k - 1] + t[k] - 48 ELSE 0
  BY Values
<1>4. n \in Nat
  OBVIOUS
<1> HIDE DEF v, w
<1>5. 0 \in P
  BY <1>2, <1>3
<1>6. ASSUME NEW k \in Nat, k \in P PROVE k + 1 \in P
  <2> SUFFICES ASSUME k + 1 <= n PROVE v[k + 1] = w[k + 1]
    OBVIOUS
  <2>1. v[k] = w[k] /\ k + 1 \in 1 .. n /\ (k + 1) - 1 = k
    BY <1>4, <1>6
  <2>2. s[k + 1] = t[k + 1]
    BY <1>1, <2>1
  <2>3. v[k + 1] = IF s[k + 1] \in Digits THEN 10 * v[k] + s[k + 1] - 48 ELSE 0
    BY <1>2, <2>1
  <2>4. w[k + 1] = IF t[k + 1] \in Digits THEN 10 * w[k] + t[k + 1] - 48 ELSE 0
    BY <1>3, <2>1
  <2> QED BY <2>1, <2>2, <2>3, <2>4
<1> HIDE DEF P
<1>7. Nat \subseteq P
  BY <1>5, <1>6, Induct
<1>8. \A k \in 0 .. n : v[k] = w[k]
  BY <1>4, <1>7 DEF P
<1> QED BY <1>1, <1>8 DEF s, v, w

(* A sign, if there is one, and digits behind it.                          *)
Width(t) == IF t[1] = Minus THEN 1 ELSE 0

Decimal(t) ==
    /\ t \in Seq(0 .. 255) /\ Len(t) > Width(t)
    /\ \A k \in Width(t) + 1 .. Len(t) : t[k] \in Digits

LEMMA StrtollReadsAll ==
    ASSUME NEW t, Decimal(t)
    PROVE  Strtoll(t) = Clamp(Signed(t, Value(t)[Len(t)]))
<1> DEFINE read == {k \in 0 .. Len(t) :
                      \A i \in 1 .. k : t[i] \in Digits \/ (i = 1 /\ t[i] = Minus)}
           last == CHOOSE k \in read : \A j \in read : j <= k
<1>1. Len(t) \in Nat /\ Width(t) \in {0, 1} /\ (Width(t) = 1 => t[1] = Minus)
  BY DEF Decimal, Width
<1>2. ASSUME NEW i \in 1 .. Len(t) PROVE t[i] \in Digits \/ (i = 1 /\ t[i] = Minus)
  BY <1>1 DEF Decimal
<1>3. Len(t) \in read /\ \A j \in read : j <= Len(t)
  BY <1>1, <1>2
<1>4. \A k \in read : k \in 0 .. Len(t)
  OBVIOUS
<1> HIDE DEF read
<1>5. last = Len(t)
  <2>1. last \in read /\ \A j \in read : j <= last
    BY <1>3
  <2> HIDE DEF last
  <2>2. last \in 0 .. Len(t) /\ last <= Len(t) /\ Len(t) <= last
    BY <1>3, <1>4, <2>1
  <2> QED BY <1>1, <2>2
<1> QED BY <1>5 DEF Strtoll, read

(* The C library's clamping finds the closest integer there is.            *)
LEMMA ClampIsNearest == ASSUME NEW n \in Int PROVE Nearest(n) = Clamp(n)
<1> DEFINE off(m) == IF m < n THEN n - m ELSE m - n
           all == (-MaxInt - 1) .. MaxInt
           c == Clamp(n)
<1>1. MaxInt \in Nat
  BY NumberAssumption
<1>2. c \in all /\ \A k \in all : off(c) <= off(k) /\ (off(k) <= off(c) => k = c)
  BY <1>1 DEF Clamp
<1> HIDE DEF c, all
<1>3. \A m \in all : (\A k \in all : off(m) <= off(k)) => m = c
  BY <1>2
<1>4. (CHOOSE m \in all : \A k \in all : off(m) <= off(k)) = c
  BY <1>2, <1>3
<1> QED BY <1>4 DEF Nearest, all, c

(* More digits than fit are more than any integer.                         *)
LEMMA LongIsBig ==
    ASSUME NEW t, Decimal(t), t[Width(t) + 1] # 48
    PROVE  \A n \in BufSize - 1 .. Len(t) : Value(t)[n] > MaxInt
<1> DEFINE v == Value(t)
           w == Width(t)
           len == Len(t)
<1>1. /\ len \in Nat /\ w \in {0, 1} /\ w < len
      /\ BufSize \in Nat /\ BufSize > 3 /\ MaxInt \in Nat /\ TenTo[BufSize - 3] > MaxInt
  BY NumberAssumption DEF Decimal, Width
<1>2. \A k \in w + 1 .. len : t[k] \in 48 .. 57
  BY DEF Decimal, Digits
<1>3. t[w + 1] # 48
  OBVIOUS
<1>4. v \in [0 .. len -> Nat]
  BY Values DEF Decimal
<1>5. ASSUME NEW k \in w + 1 .. len PROVE v[k] = 10 * v[k - 1] + t[k] - 48
  <2>1. k \in 1 .. len
    BY <1>1
  <2> QED BY <1>2, <2>1, Values DEF Decimal, Digits
<1> HIDE DEF v, w, len
<1>6. ASSUME NEW k \in w + 1 .. len PROVE v[k] >= 10 * v[k - 1] /\ v[k - 1] \in Nat /\ v[k] \in Nat
  <2>1. v[k - 1] \in Nat /\ v[k] \in Nat
    BY <1>1, <1>4
  <2> DEFINE d == t[k]
             p == v[k - 1]
  <2>2. d \in 48 .. 57 /\ v[k] = 10 * p + d - 48
    BY <1>2, <1>5
  <2> HIDE DEF d, p
  <2> QED BY <2>1, <2>2 DEF p
<1>7. v[w + 1] >= 1
  <2>1. w + 1 \in w + 1 .. len /\ (w + 1) - 1 = w /\ w \in 0 .. len
    BY <1>1
  <2> DEFINE d == t[w + 1]
             p == v[w]
  <2>2. p \in Nat /\ d \in 49 .. 57 /\ v[w + 1] = 10 * p + d - 48
    BY <1>2, <1>3, <1>4, <1>5, <2>1
  <2> HIDE DEF d, p
  <2> QED BY <2>2
<1> DEFINE P == {k \in Nat : k <= BufSize /\ w + k + 1 <= len => v[w + k + 1] >= TenTo[k]}
<1>8. 0 \in P
  BY <1>1, <1>7, Powers
<1>9. ASSUME NEW k \in Nat, k \in P PROVE k + 1 \in P
  <2> SUFFICES ASSUME k + 1 <= BufSize, w + (k + 1) + 1 <= len
               PROVE  v[w + (k + 1) + 1] >= TenTo[k + 1]
    OBVIOUS
  <2> DEFINE i == w + k + 1
  <2>1. /\ i \in Nat /\ i + 1 \in w + 1 .. len /\ (i + 1) - 1 = i /\ i + 1 = w + (k + 1) + 1
        /\ k <= BufSize /\ w + k + 1 <= len
        /\ k \in 0 .. BufSize /\ k + 1 \in 1 .. BufSize /\ (k + 1) - 1 = k
    BY <1>1
  <2>2. v[i] >= TenTo[k]
    BY <1>9, <2>1
  <2> HIDE DEF i
  <2>3. v[i + 1] >= 10 * v[i] /\ v[i] \in Nat /\ v[i + 1] \in Nat
    BY <1>6, <2>1
  <2>4. TenTo[k + 1] = 10 * TenTo[k] /\ TenTo[k] \in Nat
    BY <2>1, Powers
  <2> DEFINE a == v[i]
             b == v[i + 1]
             c == TenTo[k]
  <2>5. b >= 10 * c
    <3>1. a \in Nat /\ b \in Nat /\ c \in Nat /\ b >= 10 * a /\ a >= c
      BY <2>2, <2>3, <2>4
    <3> HIDE DEF a, b, c
    <3> QED BY <3>1
  <2> QED BY <2>1, <2>4, <2>5
<1> HIDE DEF P
<1>10. Nat \subseteq P
  BY <1>8, <1>9, Induct
<1>11. BufSize - 1 <= len => v[BufSize - 1] > MaxInt
  <2> SUFFICES ASSUME BufSize - 1 <= len PROVE v[BufSize - 1] > MaxInt
    OBVIOUS
  <2> DEFINE k == BufSize - 2 - w
             p == TenTo[BufSize - 3]
             q == TenTo[BufSize - 2]
             b == v[BufSize - 1]
  <2>1. k \in Nat /\ k <= BufSize /\ w + k + 1 = BufSize - 1 /\ k \in {BufSize - 3, BufSize - 2}
    BY <1>1
  <2>2. b >= TenTo[k]
    BY <1>10, <2>1 DEF P
  <2>3. p \in Nat /\ q \in Nat /\ q = 10 * p /\ p > MaxInt
    <3>1. /\ BufSize - 2 \in 1 .. BufSize /\ (BufSize - 2) - 1 = BufSize - 3
          /\ BufSize - 3 \in 0 .. BufSize
      BY <1>1
    <3> QED BY <1>1, <3>1, Powers
  <2>4. b \in Nat /\ MaxInt \in Nat
    BY <1>1, <1>4
  <2>5. b >= p \/ b >= q
    BY <2>1, <2>2
  <2> HIDE DEF b, p, q
  <2>6. b > MaxInt
    BY <2>3, <2>4, <2>5
  <2> QED BY <2>6 DEF b
<1> DEFINE Q == {k \in Nat : BufSize - 1 + k <= len => v[BufSize - 1 + k] > MaxInt}
<1>12. 0 \in Q
  BY <1>1, <1>11
<1>13. ASSUME NEW k \in Nat, k \in Q PROVE k + 1 \in Q
  <2> SUFFICES ASSUME BufSize - 1 + (k + 1) <= len PROVE v[BufSize - 1 + (k + 1)] > MaxInt
    OBVIOUS
  <2> DEFINE i == BufSize - 1 + k
  <2>1. /\ i \in Nat /\ i + 1 \in w + 1 .. len /\ (i + 1) - 1 = i /\ i + 1 = BufSize - 1 + (k + 1)
        /\ i <= len
    BY <1>1
  <2>2. v[i] > MaxInt
    BY <1>13, <2>1
  <2> HIDE DEF i
  <2> DEFINE a == v[i]
             b == v[i + 1]
  <2>3. a \in Nat /\ b \in Nat /\ b >= 10 * a /\ a > MaxInt
    BY <1>6, <2>1, <2>2
  <2> HIDE DEF a, b
  <2>4. b > MaxInt
    BY <1>1, <2>3
  <2> QED BY <2>1, <2>4 DEF b
<1> HIDE DEF Q
<1>14. Nat \subseteq Q
  BY <1>12, <1>13, Induct
<1>15. ASSUME NEW n \in BufSize - 1 .. len PROVE v[n] > MaxInt
  <2>1. n - (BufSize - 1) \in Nat /\ BufSize - 1 + (n - (BufSize - 1)) = n /\ n <= len
    BY <1>1
  <2> QED BY <1>14, <2>1 DEF Q
<1> QED BY <1>15 DEF v, len

LEMMA IntegerIsDecimal ==
    ASSUME NEW t \in Seq(0 .. 255), IsInteger(t, Len(t))
    PROVE  Decimal(t) /\ (t[Width(t) + 1] = 48 => Len(t) = Width(t) + 1)
<1> DEFINE i == PastSign(t, 1, {Minus})
           len == Len(t)
<1>1. AreDigits(t, i, len) /\ (t[i] = 48 => i = len)
  BY DEF IsInteger
<1>2. len \in Nat /\ (len >= 1 => i = Width(t) + 1) /\ (len < 1 => i = 1) /\ Width(t) \in {0, 1}
  BY DEF PastSign, Width
<1> HIDE DEF i
<1>3. i = Width(t) + 1 /\ i <= len /\ \A k \in i .. len : t[k] \in Digits
  BY <1>1, <1>2 DEF AreDigits
<1>4. Width(t) < len
  BY <1>2, <1>3
<1> QED BY <1>1, <1>2, <1>3, <1>4 DEF Decimal

LEMMA CutIsDecimal ==
    ASSUME NEW t, Decimal(t)
    PROVE  /\ Decimal(Cut(t)) /\ Cut(t)[1] = t[1]
           /\ Len(Cut(t)) \in 1 .. Len(t)
           /\ Len(t) < BufSize => Len(Cut(t)) = Len(t)
           /\ Len(t) >= BufSize => Len(Cut(t)) = BufSize - 1
           /\ Value(Cut(t))[Len(Cut(t))] = Value(t)[Len(Cut(t))]
<1>1. /\ t \in Seq(0 .. 255) /\ Len(t) \in Nat /\ Width(t) \in {0, 1} /\ Len(t) > Width(t)
      /\ BufSize \in Nat /\ BufSize > 3
  BY NumberAssumption DEF Decimal, Width
<1>2. CASE Len(t) < BufSize
  BY <1>1, <1>2 DEF Cut
<1>3. CASE Len(t) >= BufSize
  <2> DEFINE n == BufSize - 1
             s == SubSeq(t, 1, n)
  <2>1. Cut(t) = s /\ n \in 0 .. Len(t) /\ n \in Nat /\ n > 2
    BY <1>1, <1>3 DEF Cut
  <2> HIDE DEF n
  <2>2. /\ s \in Seq(0 .. 255) /\ Len(s) = n
        /\ \A k \in 1 .. n : s[k] = t[k]
        /\ \A k \in 0 .. n : Value(s)[k] = Value(t)[k]
    BY <1>1, <2>1, ValueOfCut
  <2> HIDE DEF s
  <2>3. s[1] = t[1] /\ Width(s) = Width(t)
    BY <2>1, <2>2 DEF Width
  <2>4. \A k \in Width(t) + 1 .. n : s[k] \in Digits
    <3> SUFFICES ASSUME NEW k \in Width(t) + 1 .. n PROVE s[k] \in Digits
      OBVIOUS
    <3>1. k \in 1 .. n /\ k \in Width(t) + 1 .. Len(t)
      BY <1>1, <2>1
    <3> QED BY <2>2, <3>1 DEF Decimal
  <2>5. Decimal(s)
    BY <1>1, <2>1, <2>2, <2>3, <2>4 DEF Decimal
  <2>6. Value(s)[n] = Value(t)[n] /\ n \in 1 .. Len(t)
    BY <2>1, <2>2
  <2> QED BY <1>1, <1>3, <2>1, <2>2, <2>3, <2>5, <2>6 DEF n
<1> QED BY <1>1, <1>2, <1>3

(* Out of range on the same side, two numbers are clamped alike.           *)
LEMMA BeyondLimit ==
    ASSUME NEW m \in Nat, NEW n \in Nat, m > MaxInt, n > MaxInt
    PROVE  Clamp(m) = Clamp(n) /\ Clamp(-m) = Clamp(-n)
BY NumberAssumption DEF Clamp

LEMMA IntegersRead ==
    ASSUME NEW t \in Seq(0 .. 255), IsInteger(t, Len(t))
    PROVE  LET n == Nearest(Signed(t, Value(t)[Len(t)])) IN
           Cell(t) = [tag |-> "int64", v |-> n] /\ Field(t) = n
<1> DEFINE c == Cut(t)
           m == Value(t)[Len(t)]
           k == Value(t)[Len(c)]
<1>1. Decimal(t) /\ (t[Width(t) + 1] = 48 => Len(t) = Width(t) + 1)
  BY IntegerIsDecimal
<1>2. /\ Decimal(c) /\ c[1] = t[1] /\ Len(c) \in 1 .. Len(t)
      /\ Len(t) < BufSize => Len(c) = Len(t)
      /\ Len(t) >= BufSize => Len(c) = BufSize - 1
      /\ Value(c)[Len(c)] = k
  BY <1>1, CutIsDecimal
<1>3. Len(t) \in Nat /\ BufSize \in Nat /\ BufSize > 3 /\ Width(t) \in {0, 1}
  BY NumberAssumption DEF Width
<1>4. m \in Nat /\ k \in Nat
  <2>1. Value(t) \in [0 .. Len(t) -> Nat]
    BY Values
  <2>2. Len(t) \in 0 .. Len(t) /\ Len(c) \in 0 .. Len(t)
    BY <1>2, <1>3
  <2> QED BY <2>1, <2>2
<1>5. Len(t) >= BufSize => m > MaxInt /\ k > MaxInt
  <2> SUFFICES ASSUME Len(t) >= BufSize PROVE m > MaxInt /\ k > MaxInt
    OBVIOUS
  <2>1. t[Width(t) + 1] # 48
    BY <1>1, <1>3
  <2>2. Len(t) \in BufSize - 1 .. Len(t) /\ Len(c) \in BufSize - 1 .. Len(t)
    BY <1>2, <1>3
  <2> QED BY <1>1, <2>1, <2>2, LongIsBig
<1>6. c # << >> /\ t # << >>
  <2>1. Len(<< >>) = 0
    OBVIOUS
  <2>2. Len(c) # 0 /\ Len(t) # 0
    BY <1>2, <1>3
  <2> QED BY <2>1, <2>2
<1>7. Clamp(Signed(c, k)) = Clamp(Signed(t, m))
  <2>1. CASE Len(t) < BufSize
    <3>1. k = m
      BY <1>2, <2>1
    <3> HIDE DEF k, m, c
    <3>2. Signed(c, k) = Signed(t, m)
      BY <1>2, <1>6, <3>1 DEF Signed
    <3> QED BY <3>2
  <2>2. CASE Len(t) >= BufSize
    <3>1. Clamp(k) = Clamp(m) /\ Clamp(-k) = Clamp(-m)
      BY <1>4, <1>5, <2>2, BeyondLimit
    <3> HIDE DEF k, m, c
    <3> QED BY <1>2, <1>6, <3>1 DEF Signed
  <2> QED BY <1>3, <2>1, <2>2
<1>8. Strtoll(c) = Clamp(Signed(c, k))
  <2>1. Strtoll(c) = Clamp(Signed(c, Value(c)[Len(c)]))
    BY <1>2, StrtollReadsAll
  <2> HIDE DEF c, k
  <2> QED BY <1>2, <2>1
<1>9. Nearest(Signed(t, m)) = Clamp(Signed(t, m))
  <2>1. Signed(t, m) \in Int
    <3> HIDE DEF m
    <3> QED BY <1>4 DEF Signed
  <2> QED BY <2>1, ClampIsNearest
<1>10. LooksInt(c)
  <2> HIDE DEF c
  <2> SUFFICES ASSUME NEW i \in DOMAIN c PROVE c[i] \notin {Point} \cup Exponents
    BY DEF LooksInt
  <2>1. i \in 1 .. Len(c) /\ Len(c) \in Nat /\ Width(c) \in {0, 1} /\ (Width(c) = 1 => c[1] = Minus)
    BY <1>2 DEF Decimal, Width
  <2>2. c[i] \in Digits \/ c[i] = Minus
    BY <1>2, <2>1 DEF Decimal
  <2> QED BY <2>2 DEF Digits, Minus, Point, Exponents
<1> HIDE DEF c, k, m
<1>11. Strtoll(c) = Nearest(Signed(t, m))
  BY <1>7, <1>8, <1>9
<1> QED BY <1>10, <1>11 DEF Cell, Field, c, m

(* What is a number and no integer has a point or an exponent.             *)
LEMMA OthersRead ==
    ASSUME NEW t \in Seq(0 .. 255), IsNumber(t), ~ IsInteger(t, Len(t)), Len(t) < BufSize
    PROVE  Cell(t) = [tag |-> "double", v |-> t]
<1>1. PICK i, j \in 0 .. Len(t) :
         i <= j /\ IsInteger(t, i) /\ IsFraction(t, i + 1, j) /\ IsExponent(t, j + 1, Len(t))
  BY DEF IsNumber
<1>2. i # Len(t) /\ Len(t) \in Nat /\ BufSize \in Nat
  BY <1>1, NumberAssumption
<1>3. ASSUME NEW k \in 1 .. Len(t), t[k] \in {Point} \cup Exponents
      PROVE  Cell(t) = [tag |-> "double", v |-> t]
  <2>1. Cut(t) = t
    BY <1>2, NumberAssumption DEF Cut
  <2>2. ~ LooksInt(t)
    BY <1>3 DEF LooksInt
  <2> QED BY <2>1, <2>2 DEF Cell
<1>4. CASE i < j
  <2>1. i + 1 <= j /\ i + 1 \in 1 .. Len(t)
    BY <1>2, <1>4
  <2>2. t[i + 1] = Point
    BY <1>1, <2>1 DEF IsFraction
  <2> QED BY <1>3, <2>1, <2>2
<1>5. CASE i = j
  <2>1. j + 1 <= Len(t) /\ j + 1 \in 1 .. Len(t)
    BY <1>2, <1>5
  <2>2. t[j + 1] \in Exponents
    BY <1>1, <2>1 DEF IsExponent
  <2> QED BY <1>3, <2>1, <2>2
<1> QED BY <1>1, <1>4, <1>5

(* parse_scalar_into and json_get_number, with a buffer that holds more    *)
(* digits than any integer has: every integer of a reply, of any length,   *)
(* is read as itself or as the limit that it is beyond, and every other    *)
(* number that fits as a double, whole.                                    *)
THEOREM NumbersAreRead == Spec => []NumberIsRead
<1>1. IInv => NumberIsRead
  <2> SUFFICES ASSUME IInv PROVE NumberIsRead
    OBVIOUS
  <2>1. raw \in Seq(0 .. 255)
    BY DEF IInv, ShapeOK
  <2> QED BY <2>1, IntegersRead, OthersRead DEF NumberIsRead
<1> QED BY Invariance, <1>1, PTL

-----------------------------------------------------------------------------
LEMMA MarksDiffer ==
    /\ ValueSeparator # EndArray /\ ValueSeparator # EndObject
    /\ NameSeparator # ValueSeparator /\ NameSeparator # EndArray /\ NameSeparator # EndObject
    /\ BeginArray # BeginObject
    /\ EndArray # BeginArray /\ EndArray # BeginObject
    /\ EndObject # BeginArray /\ EndObject # BeginObject
    /\ Nothing \notin Marks
BY Zenon DEF Marks, BeginArray, EndArray, BeginObject, EndObject, NameSeparator,
             ValueSeparator, Nothing

LEMMA MarksAreNoScalars ==
    ASSUME NEW token \in Marks \cup {Nothing} PROVE token \notin Scalars
<1>1. token \notin Bools \cup {"null"}
  BY Zenon DEF Marks, BeginArray, EndArray, BeginObject, EndObject, NameSeparator,
               ValueSeparator, Nothing, Bools
<1>2. token \notin Names /\ token \notin Numbers
  BY Zenon, WalkAssumption
<1> QED BY Zenon, <1>1, <1>2 DEF Scalars

LEMMA TokenFacts ==
    /\ BeginArray \notin Scalars /\ BeginObject \notin Scalars /\ BeginArray # BeginObject
    /\ EndArray \notin Scalars /\ EndArray # BeginArray /\ EndArray # BeginObject
    /\ EndObject \notin Scalars /\ EndObject # BeginArray /\ EndObject # BeginObject
    /\ ValueSeparator \notin Scalars /\ NameSeparator \notin Scalars /\ Nothing \notin Scalars
    /\ ValueSeparator # EndArray /\ ValueSeparator # EndObject
    /\ NameSeparator # ValueSeparator /\ NameSeparator # EndArray /\ NameSeparator # EndObject
    /\ Nothing # BeginArray /\ Nothing # BeginObject /\ Nothing # EndArray /\ Nothing # EndObject
    /\ Nothing # NameSeparator /\ Nothing # ValueSeparator
    /\ Names \subseteq Scalars
<1>1. Names \subseteq Scalars
  BY Zenon DEF Scalars
<1>2. /\ BeginArray \in Marks /\ BeginObject \in Marks /\ EndArray \in Marks
      /\ EndObject \in Marks /\ NameSeparator \in Marks /\ ValueSeparator \in Marks
  BY Zenon DEF Marks
<1> QED BY Zenon, <1>1, <1>2, MarksDiffer, MarksAreNoScalars

(* What the loops do behind a value, and what follows an opening bracket.  *)
Continued(t, walk, sort, e, close) ==
    IF e = Failed THEN Failed
    ELSE IF At(t, e) = ValueSeparator THEN walk[<< sort, e + 1 >>]
    ELSE IF At(t, e) = close THEN e + 1 ELSE Failed

Opened(t, walk, i, loop, close) ==
    IF At(t, i + 1) = close THEN i + 2 ELSE walk[<< loop, i + 1 >>]

LEMMA ContinuedAfter ==
    ASSUME NEW t, NEW walk, NEW sort, NEW e, NEW close, close # ValueSeparator
    PROVE  (CASE After(t, e, close) = "more" -> walk[<< sort, e + 1 >>]
              [] After(t, e, close) = "done" -> e + 1
              [] After(t, e, close) = "fail" -> Failed) = Continued(t, walk, sort, e, close)
BY DEF After, Continued

LEMMA Steps ==
    ASSUME NEW t, NEW walk, NEW i
    PROVE  /\ Step(t, walk, "elements", i)
                = Continued(t, walk, "elements", walk[<< "value", i >>], EndArray)
           /\ Step(t, walk, "members", i)
                = IF IsKey(t, i)
                  THEN Continued(t, walk, "members", walk[<< "value", i + 2 >>], EndObject)
                  ELSE Failed
           /\ Step(t, walk, "value", i)
                = IF At(t, i) \in Scalars THEN i + 1
                  ELSE IF At(t, i) = BeginArray THEN Opened(t, walk, i, "elements", EndArray)
                  ELSE IF At(t, i) = BeginObject THEN Opened(t, walk, i, "members", EndObject)
                  ELSE Failed
<1>1. \A sort, e : /\ (CASE After(t, e, EndArray) = "more" -> walk[<< sort, e + 1 >>]
                          [] After(t, e, EndArray) = "done" -> e + 1
                          [] After(t, e, EndArray) = "fail" -> Failed)
                         = Continued(t, walk, sort, e, EndArray)
                   /\ (CASE After(t, e, EndObject) = "more" -> walk[<< sort, e + 1 >>]
                          [] After(t, e, EndObject) = "done" -> e + 1
                          [] After(t, e, EndObject) = "fail" -> Failed)
                         = Continued(t, walk, sort, e, EndObject)
  BY TokenFacts, ContinuedAfter
<1>2. Step(t, walk, "elements", i)
        = Continued(t, walk, "elements", walk[<< "value", i >>], EndArray)
  BY <1>1 DEF Step
<1>3. Step(t, walk, "members", i)
        = IF IsKey(t, i)
          THEN Continued(t, walk, "members", walk[<< "value", i + 2 >>], EndObject)
          ELSE Failed
  BY <1>1 DEF Step
<1>4. Step(t, walk, "value", i)
        = IF At(t, i) \in Scalars THEN i + 1
          ELSE IF At(t, i) = BeginArray THEN Opened(t, walk, i, "elements", EndArray)
          ELSE IF At(t, i) = BeginObject THEN Opened(t, walk, i, "members", EndObject)
          ELSE Failed
  BY TokenFacts DEF Step, Opened
<1> QED BY <1>2, <1>3, <1>4

(* Nested the tokens there is a token.                                     *)
LEMMA TokenInside ==
    ASSUME NEW t \in Seq(Tokens), NEW i \in Nat, At(t, i) # Nothing
    PROVE  i \in 1 .. Len(t)
BY DEF At

(* Every call leaves the cursor further on, or fails.                      *)
Forward(t, walk) ==
    \A sort \in Sorts, i \in 1 .. Len(t) + 1 :
        walk[<< sort, i >>] \in {Failed} \cup (i + 1 .. Len(t) + 1)

LEMMA ContinuedForward ==
    ASSUME NEW t \in Seq(Tokens), NEW walk, Forward(t, walk), NEW sort \in Sorts,
           NEW i \in 1 .. Len(t) + 1, NEW close \in {EndArray, EndObject},
           NEW e \in {Failed} \cup (i + 1 .. Len(t) + 1)
    PROVE  Continued(t, walk, sort, e, close) \in {Failed} \cup (i + 1 .. Len(t) + 1)
<1>1. CASE e # Failed /\ At(t, e) = ValueSeparator
  <2>1. e \in 1 .. Len(t) /\ e + 1 \in 1 .. Len(t) + 1
    <3>1. e \in Nat /\ At(t, e) # Nothing
      BY <1>1, TokenFacts DEF Failed
    <3> QED BY <3>1, TokenInside
  <2>2. walk[<< sort, e + 1 >>] \in {Failed} \cup (e + 2 .. Len(t) + 1)
    BY <2>1 DEF Forward
  <2> QED BY <1>1, <2>1, <2>2 DEF Continued, Failed
<1>2. CASE e # Failed /\ At(t, e) = close
  <2>1. e \in 1 .. Len(t)
    <3>1. e \in Nat /\ At(t, e) # Nothing
      BY <1>2, TokenFacts DEF Failed
    <3> QED BY <3>1, TokenInside
  <2> QED BY <1>1, <1>2, <2>1 DEF Continued
<1> QED BY <1>1, <1>2 DEF Continued

LEMMA KeyInside ==
    ASSUME NEW t \in Seq(Tokens), NEW i \in 1 .. Len(t) + 1, IsKey(t, i)
    PROVE  i + 2 \in 1 .. Len(t) + 1 /\ i \in 1 .. Len(t) /\ i + 1 \in 1 .. Len(t)
<1>1. i + 1 \in 1 .. Len(t)
  BY TokenFacts, TokenInside DEF IsKey
<1> QED BY <1>1

LEMMA StepForward ==
    ASSUME NEW t \in Seq(Tokens), NEW walk, Forward(t, walk),
           NEW sort \in Sorts, NEW i \in 1 .. Len(t) + 1
    PROVE  Step(t, walk, sort, i) \in {Failed} \cup (i + 1 .. Len(t) + 1)
<1>1. CASE sort = "elements"
  <2>1. walk[<< "value", i >>] \in {Failed} \cup (i + 1 .. Len(t) + 1)
    BY DEF Forward, Sorts
  <2>2. Continued(t, walk, sort, walk[<< "value", i >>], EndArray)
           \in {Failed} \cup (i + 1 .. Len(t) + 1)
    BY <2>1, ContinuedForward
  <2> QED BY <1>1, <2>2, Steps
<1>2. CASE sort = "members" /\ IsKey(t, i)
  <2>1. i + 2 \in 1 .. Len(t) + 1
    BY <1>2, KeyInside
  <2>2. walk[<< "value", i + 2 >>] \in {Failed} \cup (i + 3 .. Len(t) + 1)
    BY <2>1 DEF Forward, Sorts
  <2>3. walk[<< "value", i + 2 >>] \in {Failed} \cup (i + 1 .. Len(t) + 1)
    BY <2>2
  <2>4. Continued(t, walk, sort, walk[<< "value", i + 2 >>], EndObject)
           \in {Failed} \cup (i + 1 .. Len(t) + 1)
    BY <2>3, ContinuedForward
  <2> QED BY <1>2, <2>4, Steps
<1>3. CASE sort = "members" /\ ~ IsKey(t, i)
  BY <1>3, Steps
<1>4. CASE sort = "value"
  <2>0. Step(t, walk, sort, i)
           = IF At(t, i) \in Scalars THEN i + 1
             ELSE IF At(t, i) = BeginArray THEN Opened(t, walk, i, "elements", EndArray)
             ELSE IF At(t, i) = BeginObject THEN Opened(t, walk, i, "members", EndObject)
             ELSE Failed
    BY <1>4, Steps
  <2>1. CASE At(t, i) = Nothing
    BY <2>0, <2>1, TokenFacts
  <2>2. CASE At(t, i) # Nothing
    <3>1. i \in 1 .. Len(t)
      BY <2>2, TokenInside
    <3>2. ASSUME NEW loop \in Sorts, NEW close \in {EndArray, EndObject}
          PROVE  Opened(t, walk, i, loop, close) \in {Failed} \cup (i + 1 .. Len(t) + 1)
      <4>1. CASE At(t, i + 1) = close
        <5>1. i + 1 \in 1 .. Len(t)
          BY <4>1, TokenFacts, TokenInside
        <5> QED BY <4>1, <5>1 DEF Opened
      <4>2. CASE At(t, i + 1) # close
        <5>1. i + 1 \in 1 .. Len(t) + 1
          BY <3>1
        <5>2. walk[<< loop, i + 1 >>] \in {Failed} \cup (i + 2 .. Len(t) + 1)
          BY <5>1 DEF Forward
        <5> QED BY <4>2, <5>2 DEF Opened
      <4> QED BY <4>1, <4>2
    <3>3. i + 1 \in i + 1 .. Len(t) + 1
      BY <3>1
    <3>4. /\ Opened(t, walk, i, "elements", EndArray) \in {Failed} \cup (i + 1 .. Len(t) + 1)
          /\ Opened(t, walk, i, "members", EndObject) \in {Failed} \cup (i + 1 .. Len(t) + 1)
      BY <3>2 DEF Sorts
    <3> QED BY <2>0, <3>3, <3>4
  <2> QED BY <2>1, <2>2
<1> QED BY <1>1, <1>2, <1>3, <1>4 DEF Sorts

(* The order in which the calls are decided: from the last token on back,  *)
(* at each token the value before the loops.                               *)
Rank(t, sort, i) == 2 * (Len(t) + 1 - i) + (IF sort = "value" THEN 0 ELSE 1)

AgreeBehind(t, f, g, i) ==
    \A s \in Sorts, k \in i + 1 .. Len(t) + 1 : f[<< s, k >>] = g[<< s, k >>]

LEMMA ContinuedAgrees ==
    ASSUME NEW t \in Seq(Tokens), NEW f, NEW g, NEW i \in 1 .. Len(t) + 1,
           AgreeBehind(t, f, g, i)
    PROVE  \A sort \in Sorts, e \in {Failed} \cup (i + 1 .. Len(t) + 1),
              close \in {EndArray, EndObject} :
                 Continued(t, f, sort, e, close) = Continued(t, g, sort, e, close)
<1> SUFFICES ASSUME NEW sort \in Sorts, NEW e \in {Failed} \cup (i + 1 .. Len(t) + 1),
                    NEW close \in {EndArray, EndObject}
             PROVE  Continued(t, f, sort, e, close) = Continued(t, g, sort, e, close)
  OBVIOUS
<1>1. CASE e # Failed /\ At(t, e) = ValueSeparator
  <2>1. e \in 1 .. Len(t)
    <3>1. e \in Nat /\ At(t, e) # Nothing
      BY <1>1, TokenFacts DEF Failed
    <3> QED BY <3>1, TokenInside
  <2>2. e + 1 \in i + 1 .. Len(t) + 1
    BY <1>1, <2>1
  <2> QED BY <1>1, <2>2 DEF Continued, AgreeBehind
<1>2. CASE ~ (e # Failed /\ At(t, e) = ValueSeparator)
  BY <1>2 DEF Continued
<1> QED BY <1>1, <1>2

AgreeBelow(t, f, g, sort, i) ==
    \A s \in Sorts, k \in 1 .. Len(t) + 1 :
        Rank(t, s, k) < Rank(t, sort, i) => f[<< s, k >>] = g[<< s, k >>]

LEMMA StepAgrees ==
    ASSUME NEW t \in Seq(Tokens), NEW f, NEW g, Forward(t, f),
           NEW sort \in Sorts, NEW i \in 1 .. Len(t) + 1, AgreeBelow(t, f, g, sort, i)
    PROVE  Step(t, f, sort, i) = Step(t, g, sort, i)
<1>1. \A s \in Sorts, k \in i + 1 .. Len(t) + 1 : f[<< s, k >>] = g[<< s, k >>]
  <2> SUFFICES ASSUME NEW s \in Sorts, NEW k \in i + 1 .. Len(t) + 1
               PROVE  f[<< s, k >>] = g[<< s, k >>]
    OBVIOUS
  <2>1. k \in 1 .. Len(t) + 1 /\ Len(t) \in Nat /\ i < k
    OBVIOUS
  <2>2. Rank(t, s, k) < Rank(t, sort, i)
    BY <2>1 DEF Rank
  <2> QED BY <2>1, <2>2 DEF AgreeBelow
<1>a. \A e \in {Failed} \cup (i + 1 .. Len(t) + 1), close \in {EndArray, EndObject} :
         Continued(t, f, sort, e, close) = Continued(t, g, sort, e, close)
  <2>1. AgreeBehind(t, f, g, i)
    BY <1>1 DEF AgreeBehind
  <2> QED BY <2>1, ContinuedAgrees
<1>2. CASE sort = "elements"
  <2>1. Rank(t, "value", i) < Rank(t, sort, i)
    BY <1>2 DEF Rank
  <2>2. f[<< "value", i >>] = g[<< "value", i >>]
    BY <2>1 DEF Sorts, AgreeBelow
  <2>3. f[<< "value", i >>] \in {Failed} \cup (i + 1 .. Len(t) + 1)
    BY DEF Forward, Sorts
  <2> DEFINE e == f[<< "value", i >>]
  <2>e. e \in {Failed} \cup (i + 1 .. Len(t) + 1)
    BY <2>3
  <2> HIDE DEF e
  <2>4. Continued(t, f, sort, e, EndArray) = Continued(t, g, sort, e, EndArray)
    BY <1>a, <2>e
  <2>5. Continued(t, f, sort, f[<< "value", i >>], EndArray)
           = Continued(t, g, sort, g[<< "value", i >>], EndArray)
    BY <2>2, <2>4 DEF e
  <2>6. /\ Step(t, f, "elements", i)
              = Continued(t, f, "elements", f[<< "value", i >>], EndArray)
        /\ Step(t, g, "elements", i)
              = Continued(t, g, "elements", g[<< "value", i >>], EndArray)
    BY Steps
  <2> QED BY <1>2, <2>5, <2>6
<1>3. CASE sort = "members" /\ IsKey(t, i)
  <2>1. i + 2 \in i + 1 .. Len(t) + 1
    BY <1>3, KeyInside
  <2>2. f[<< "value", i + 2 >>] = g[<< "value", i + 2 >>]
    BY <1>1, <2>1 DEF Sorts
  <2>3. f[<< "value", i + 2 >>] \in {Failed} \cup (i + 1 .. Len(t) + 1)
    <3>1. i + 2 \in 1 .. Len(t) + 1
      BY <2>1
    <3>2. f[<< "value", i + 2 >>] \in {Failed} \cup (i + 3 .. Len(t) + 1)
      BY <3>1 DEF Forward, Sorts
    <3> QED BY <3>2
  <2>4. Continued(t, f, sort, f[<< "value", i + 2 >>], EndObject)
           = Continued(t, g, sort, f[<< "value", i + 2 >>], EndObject)
    BY <1>a, <2>3
  <2>5. Continued(t, f, sort, f[<< "value", i + 2 >>], EndObject)
           = Continued(t, g, sort, g[<< "value", i + 2 >>], EndObject)
    BY <2>2, <2>4
  <2> QED BY <1>3, <2>5, Steps
<1>4. CASE sort = "members" /\ ~ IsKey(t, i)
  BY <1>4, Steps
<1>5. CASE sort = "value"
  <2>1. CASE At(t, i) = Nothing
    <3>1. Step(t, f, "value", i) = Failed /\ Step(t, g, "value", i) = Failed
      BY <2>1, Steps, TokenFacts
    <3> QED BY <1>5, <3>1
  <2>2. CASE At(t, i) # Nothing
    <3>1. i + 1 \in i + 1 .. Len(t) + 1
      <4>1. i \in 1 .. Len(t)
        BY <2>2, TokenInside
      <4> QED BY <4>1
    <3>2. \A loop \in Sorts : \A close :
             Opened(t, f, i, loop, close) = Opened(t, g, i, loop, close)
      BY <1>1, <3>1 DEF Opened
    <3>3. /\ Opened(t, f, i, "elements", EndArray) = Opened(t, g, i, "elements", EndArray)
          /\ Opened(t, f, i, "members", EndObject) = Opened(t, g, i, "members", EndObject)
      BY <3>2 DEF Sorts
    <3> DEFINE chosen(arrays, objects) ==
                 IF At(t, i) \in Scalars THEN i + 1
                 ELSE IF At(t, i) = BeginArray THEN arrays
                 ELSE IF At(t, i) = BeginObject THEN objects ELSE Failed
    <3>4. Step(t, f, "value", i) = chosen(Opened(t, f, i, "elements", EndArray),
                                          Opened(t, f, i, "members", EndObject))
      BY Steps
    <3>5. Step(t, g, "value", i) = chosen(Opened(t, g, i, "elements", EndArray),
                                          Opened(t, g, i, "members", EndObject))
      BY Steps
    <3> HIDE DEF chosen
    <3> QED BY <1>5, <3>3, <3>4, <3>5
  <2> QED BY <2>1, <2>2
<1> QED BY <1>2, <1>3, <1>4, <1>5 DEF Sorts

(* The recursive definition is one: there is such a function.              *)
LEMMA WalkSteps ==
    ASSUME NEW t \in Seq(Tokens)
    PROVE  /\ Forward(t, Walk(t))
           /\ \A sort \in Sorts, i \in 1 .. Len(t) + 1 :
                 Walk(t)[<< sort, i >>] = Step(t, Walk(t), sort, i)
<1> DEFINE D == Places(t)
           Ok == [place \in D |-> {Failed} \cup (place[2] + 1 .. Len(t) + 1)]
           rank == [place \in D |-> Rank(t, place[1], place[2])]
           top == 2 * Len(t) + 2
           step == [fd \in Sound(D, Ok) \X D |-> Step(t, fd[1], fd[2][1], fd[2][2])]
<1>1. \A place \in D : /\ place[1] \in Sorts /\ place[2] \in 1 .. Len(t) + 1
                       /\ place = << place[1], place[2] >>
  BY DEF Places
<1>2. \A sort \in Sorts, i \in 1 .. Len(t) + 1 :
         /\ << sort, i >> \in D /\ << sort, i >>[1] = sort /\ << sort, i >>[2] = i
         /\ Ok[<< sort, i >>] = {Failed} \cup (i + 1 .. Len(t) + 1)
         /\ rank[<< sort, i >>] = Rank(t, sort, i)
  BY DEF Places
<1>3. \A f \in Sound(D, Ok), sort \in Sorts, i \in 1 .. Len(t) + 1 :
         step[<< f, << sort, i >> >>] = Step(t, f, sort, i)
  BY <1>2
<1>4. ASSUME NEW f \in Sound(D, Ok) PROVE Forward(t, f)
  <2> HIDE DEF D, Ok
  <2>1. \A d \in D : f[d] \in Ok[d]
    BY DEF Sound
  <2>2. ASSUME NEW sort \in Sorts, NEW i \in 1 .. Len(t) + 1
        PROVE  f[<< sort, i >>] \in {Failed} \cup (i + 1 .. Len(t) + 1)
    <3>1. /\ << sort, i >> \in D
          /\ Ok[<< sort, i >>] = {Failed} \cup (i + 1 .. Len(t) + 1)
      BY <1>2
    <3>2. f[<< sort, i >>] \in Ok[<< sort, i >>]
      BY <2>1, <3>1
    <3> QED BY <3>1, <3>2
  <2> QED BY <2>2 DEF Forward
<1>5. rank \in [D -> Nat] /\ top \in Nat /\ \A d \in D : rank[d] < top
  <2>1. \A sort \in Sorts, i \in 1 .. Len(t) + 1 :
           Rank(t, sort, i) \in Nat /\ Rank(t, sort, i) < top
    BY DEF Rank
  <2> HIDE DEF D, top
  <2>2. \A d \in D : Rank(t, d[1], d[2]) \in Nat /\ Rank(t, d[1], d[2]) < top
    BY <1>1, <2>1
  <2> QED BY <2>2 DEF top
<1>6. \A d \in D : Ok[d] # {}
  <2> HIDE DEF D
  <2> QED OBVIOUS
<1> HIDE DEF D, Ok, rank, step, top
<1>7. \A f \in Sound(D, Ok), d \in D : step[<< f, d >>] \in Ok[d]
  <2> SUFFICES ASSUME NEW f \in Sound(D, Ok), NEW d \in D PROVE step[<< f, d >>] \in Ok[d]
    OBVIOUS
  <2>1. PICK sort \in Sorts, i \in 1 .. Len(t) + 1 : d = << sort, i >>
    BY <1>1
  <2>2. Step(t, f, sort, i) \in {Failed} \cup (i + 1 .. Len(t) + 1)
    BY <1>4, StepForward
  <2>3. step[<< f, << sort, i >> >>] = Step(t, f, sort, i)
    BY <1>3
  <2>4. Ok[<< sort, i >>] = {Failed} \cup (i + 1 .. Len(t) + 1)
    BY <1>2
  <2> QED BY <2>1, <2>2, <2>3, <2>4
<1>8. \A f, g \in Sound(D, Ok), d \in D :
         (\A c \in D : rank[c] < rank[d] => f[c] = g[c])
            => step[<< f, d >>] = step[<< g, d >>]
  <2> SUFFICES ASSUME NEW f \in Sound(D, Ok), NEW g \in Sound(D, Ok), NEW d \in D,
                      \A c \in D : rank[c] < rank[d] => f[c] = g[c]
               PROVE  step[<< f, d >>] = step[<< g, d >>]
    OBVIOUS
  <2>1. PICK sort \in Sorts, i \in 1 .. Len(t) + 1 : d = << sort, i >>
    BY <1>1
  <2>2. ASSUME NEW s \in Sorts, NEW k \in 1 .. Len(t) + 1, Rank(t, s, k) < Rank(t, sort, i)
        PROVE  f[<< s, k >>] = g[<< s, k >>]
    <3>1. << s, k >> \in D /\ rank[<< s, k >>] = Rank(t, s, k)
      BY <1>2
    <3>2. rank[d] = Rank(t, sort, i)
      BY <1>2, <2>1
    <3> QED BY <2>2, <3>1, <3>2
  <2>3. Step(t, f, sort, i) = Step(t, g, sort, i)
    <3>1. AgreeBelow(t, f, g, sort, i) /\ Forward(t, f)
      BY <1>4, <2>2 DEF AgreeBelow
    <3> QED BY <3>1, StepAgrees
  <2>4. /\ step[<< f, << sort, i >> >>] = Step(t, f, sort, i)
        /\ step[<< g, << sort, i >> >>] = Step(t, g, sort, i)
    BY <1>3
  <2> QED BY <2>1, <2>3, <2>4
<1>9. PICK f \in Sound(D, Ok) : f = [d \in D |-> step[<< f, d >>]]
  <2>1. Recursive(D, Ok, rank, top, step)
    BY <1>5, <1>6, <1>7, <1>8 DEF Recursive
  <2> QED BY <2>1, Recursion
<1>10. f = [place \in Places(t) |-> Step(t, f, place[1], place[2])]
  <2>1. \A d \in D : step[<< f, d >>] = Step(t, f, d[1], d[2])
    BY <1>1, <1>3
  <2>2. D = Places(t)
    BY DEF D
  <2> QED BY <1>9, <2>1, <2>2
<1>11. Walk(t) = [place \in Places(t) |-> Step(t, Walk(t), place[1], place[2])]
  BY <1>10 DEF Walk
<1>12. \A sort \in Sorts, i \in 1 .. Len(t) + 1 :
         Walk(t)[<< sort, i >>] = Step(t, Walk(t), sort, i)
  BY <1>2, <1>11 DEF D
<1>13. \A d \in D : Walk(t)[d] = f[d]
  <2> DEFINE P == {d \in D : Walk(t)[d] = f[d]}
  <2>1. ASSUME NEW d \in D, \A c \in D : rank[c] < rank[d] => c \in P
        PROVE  d \in P
    <3>1. PICK sort \in Sorts, i \in 1 .. Len(t) + 1 : d = << sort, i >>
      BY <1>1
    <3>2. ASSUME NEW s \in Sorts, NEW k \in 1 .. Len(t) + 1, Rank(t, s, k) < Rank(t, sort, i)
          PROVE  f[<< s, k >>] = Walk(t)[<< s, k >>]
      <4>1. << s, k >> \in D /\ rank[<< s, k >>] = Rank(t, s, k)
        BY <1>2
      <4>2. rank[d] = Rank(t, sort, i)
        BY <1>2, <3>1
      <4> QED BY <2>1, <3>2, <4>1, <4>2
    <3>3. Step(t, f, sort, i) = Step(t, Walk(t), sort, i)
      <4> DEFINE w == Walk(t)
      <4>1. AgreeBelow(t, f, w, sort, i)
        BY <3>2 DEF AgreeBelow
      <4> HIDE DEF w
      <4>2. Forward(t, f)
        BY <1>4
      <4>3. Step(t, f, sort, i) = Step(t, w, sort, i)
        BY <4>1, <4>2, StepAgrees
      <4> QED BY <4>3 DEF w
    <3>4. f[d] = Step(t, f, sort, i)
      BY <1>3, <1>9, <3>1
    <3>5. Walk(t)[d] = Step(t, Walk(t), sort, i)
      BY <1>12, <3>1
    <3> QED BY <3>3, <3>4, <3>5
  <2> HIDE DEF P
  <2>2. D \subseteq P
    BY <1>5, <2>1, ByRank
  <2> QED BY <2>2 DEF P
<1>14. Forward(t, Walk(t))
  <2>1. Forward(t, f)
    BY <1>4
  <2>2. \A sort \in Sorts, i \in 1 .. Len(t) + 1 : Walk(t)[<< sort, i >>] = f[<< sort, i >>]
    BY <1>2, <1>13
  <2> QED BY <2>1, <2>2 DEF Forward
<1> QED BY <1>12, <1>14

-----------------------------------------------------------------------------
(* What the grammar says of each of the three.                             *)
GoesOn(t, known, sort, e, j, close) ==
    \/ At(t, e) = close /\ j = e + 1
    \/ At(t, e) = ValueSeparator /\ << sort, e + 1, j >> \in known

Encloses(t, known, i, j, open, inner, close) ==
    /\ At(t, i) = open
    /\ \/ At(t, i + 1) = close /\ j = i + 2
       \/ << inner, i + 1, j >> \in known

LEMMA Derivations ==
    ASSUME NEW t, NEW known, NEW i, NEW j
    PROVE  /\ Derives(t, known, "value", i, j)
                <=> \/ At(t, i) \in Scalars /\ j = i + 1
                    \/ Encloses(t, known, i, j, BeginArray, "elements", EndArray)
                    \/ Encloses(t, known, i, j, BeginObject, "members", EndObject)
           /\ Derives(t, known, "elements", i, j)
                <=> \E e \in i .. j - 1 :
                       << "value", i, e >> \in known /\ GoesOn(t, known, "elements", e, j, EndArray)
           /\ Derives(t, known, "members", i, j)
                <=> /\ IsKey(t, i)
                    /\ \E e \in i .. j - 1 : /\ << "value", i + 2, e >> \in known
                                             /\ GoesOn(t, known, "members", e, j, EndObject)
<1>1. Derives(t, known, "value", i, j)
        <=> \/ At(t, i) \in Scalars /\ j = i + 1
            \/ Encloses(t, known, i, j, BeginArray, "elements", EndArray)
            \/ Encloses(t, known, i, j, BeginObject, "members", EndObject)
  BY DEF Derives, Encloses
<1>2. Derives(t, known, "elements", i, j)
        <=> \E e \in i .. j - 1 :
               << "value", i, e >> \in known /\ GoesOn(t, known, "elements", e, j, EndArray)
  BY DEF Derives, GoesOn
<1>3. Derives(t, known, "members", i, j)
        <=> /\ IsKey(t, i)
            /\ \E e \in i .. j - 1 : /\ << "value", i + 2, e >> \in known
                                     /\ GoesOn(t, known, "members", e, j, EndObject)
  BY DEF Derives, GoesOn
<1> QED BY <1>1, <1>2, <1>3

(* Only shorter spans matter to whether a span is derived.                 *)
LEMMA DerivesFromShorter ==
    ASSUME NEW t, NEW known, NEW more, NEW sort \in Sorts, NEW i \in Nat, NEW j \in Nat,
           \A s \in Sorts, k, l \in Nat :
              l - k < j - i => (<< s, k, l >> \in known <=> << s, k, l >> \in more)
    PROVE  Derives(t, known, sort, i, j) <=> Derives(t, more, sort, i, j)
<1>0. "value" \in Sorts /\ "elements" \in Sorts /\ "members" \in Sorts
  BY DEF Sorts
<1>1. ASSUME NEW s \in Sorts, NEW e \in i .. j - 1, NEW close
      PROVE  GoesOn(t, known, s, e, j, close) <=> GoesOn(t, more, s, e, j, close)
  <2>1. e + 1 \in Nat /\ j - (e + 1) < j - i
    OBVIOUS
  <2>2. << s, e + 1, j >> \in known <=> << s, e + 1, j >> \in more
    BY <2>1
  <2> QED BY <2>2 DEF GoesOn
<1>2. CASE sort = "value"
  <2>1. i + 1 \in Nat /\ j - (i + 1) < j - i
    OBVIOUS
  <2>2. \A inner \in Sorts : << inner, i + 1, j >> \in known <=> << inner, i + 1, j >> \in more
    BY <2>1
  <2>3. \A inner \in Sorts : \A open, close :
           Encloses(t, known, i, j, open, inner, close)
              <=> Encloses(t, more, i, j, open, inner, close)
    BY <2>2 DEF Encloses
  <2> QED BY <1>0, <1>2, <2>3, Derivations
<1>3. CASE sort = "elements"
  <2>1. \A e \in i .. j - 1 : << "value", i, e >> \in known <=> << "value", i, e >> \in more
    BY <1>0
  <2> QED BY <1>0, <1>1, <1>3, <2>1, Derivations
<1>4. CASE sort = "members"
  <2>1. \A e \in i .. j - 1 :
           << "value", i + 2, e >> \in known <=> << "value", i + 2, e >> \in more
    BY <1>0
  <2> QED BY <1>0, <1>1, <1>4, <2>1, Derivations
<1> QED BY <1>2, <1>3, <1>4 DEF Sorts

LEMMA Lengthened ==
    ASSUME NEW t \in Seq(Tokens), NEW known, NEW n \in Nat, NEW s, NEW i, NEW j
    PROVE  << s, i, j >> \in Longer(t, known, n)
             <=> /\ s \in Sorts /\ i \in 1 .. Len(t) + 1 - n /\ j = i + n
                 /\ Derives(t, known, s, i, j)
BY DEF Longer

(* The recursive definition is one.                                        *)
Staged(t, spans) ==
    /\ spans[0] = {}
    /\ \A n \in 1 .. Len(t) : spans[n] = spans[n - 1] \cup Longer(t, spans[n - 1], n)

LEMMA SpansStaged ==
    ASSUME NEW t \in Seq(Tokens)
    PROVE  \E spans : Staged(t, spans) /\ Spans(t) = spans[Len(t)]
<1> DEFINE D == 0 .. Len(t)
           all == Sorts \X (1 .. Len(t) + 1) \X (1 .. Len(t) + 1)
           Ok == [n \in D |-> SUBSET all]
           rank == [n \in D |-> n]
           top == Len(t) + 1
           body(f, n) == IF n = 0 THEN {} ELSE f[n - 1] \cup Longer(t, f[n - 1], n)
           step == [fd \in Sound(D, Ok) \X D |-> body(fd[1], fd[2])]
<1>1. \A f \in Sound(D, Ok), n \in D : step[<< f, n >>] = body(f, n)
  OBVIOUS
<1>2. \A n \in D : Ok[n] = SUBSET all /\ rank[n] = n /\ n \in Nat /\ (n # 0 => n - 1 \in D)
  OBVIOUS
<1>3. rank \in [D -> Nat] /\ top \in Nat /\ \A n \in D : rank[n] < top
  OBVIOUS
<1>4. \A n \in D : \A known : Longer(t, known, n) \subseteq all
  <2> SUFFICES ASSUME NEW n \in D, NEW known, NEW x \in Longer(t, known, n) PROVE x \in all
    OBVIOUS
  <2>1. PICK s \in Sorts, i \in 1 .. Len(t) + 1 - n : x = << s, i, i + n >>
    BY DEF Longer
  <2>2. i \in 1 .. Len(t) + 1 /\ i + n \in 1 .. Len(t) + 1
    OBVIOUS
  <2> QED BY <2>1, <2>2
<1> HIDE DEF D, all, Ok, rank, top, step
<1>5. ASSUME NEW f \in Sound(D, Ok), NEW n \in D PROVE f[n] \subseteq all
  BY <1>2 DEF Sound
<1>6. \A f \in Sound(D, Ok), n \in D : step[<< f, n >>] \in Ok[n]
  <2> SUFFICES ASSUME NEW f \in Sound(D, Ok), NEW n \in D PROVE step[<< f, n >>] \in Ok[n]
    OBVIOUS
  <2>1. body(f, n) \subseteq all
    BY <1>2, <1>4, <1>5
  <2> HIDE DEF body
  <2> QED BY <1>1, <1>2, <2>1
<1>7. \A f, g \in Sound(D, Ok), n \in D :
         (\A c \in D : rank[c] < rank[n] => f[c] = g[c]) => step[<< f, n >>] = step[<< g, n >>]
  <2> SUFFICES ASSUME NEW f \in Sound(D, Ok), NEW g \in Sound(D, Ok), NEW n \in D,
                      \A c \in D : rank[c] < rank[n] => f[c] = g[c]
               PROVE  step[<< f, n >>] = step[<< g, n >>]
    OBVIOUS
  <2>1. n # 0 => f[n - 1] = g[n - 1]
    BY <1>2
  <2>2. body(f, n) = body(g, n)
    BY <2>1
  <2> HIDE DEF body
  <2> QED BY <1>1, <2>2
<1>8. \A n \in D : Ok[n] # {}
  BY <1>2
<1>9. PICK f \in Sound(D, Ok) : f = [n \in D |-> step[<< f, n >>]]
  <2>1. Recursive(D, Ok, rank, top, step)
    BY <1>3, <1>6, <1>7, <1>8 DEF Recursive
  <2> QED BY <2>1, Recursion
<1>10. f = [n \in D |-> body(f, n)]
  BY <1>1, <1>9
<1> DEFINE spans == CHOOSE f1 : f1 = [n \in 0 .. Len(t) |-> body(f1, n)]
<1>11. spans = [n \in 0 .. Len(t) |-> body(spans, n)]
  BY <1>10 DEF D
<1>12. Spans(t) = spans[Len(t)]
  BY DEF Spans
<1> HIDE DEF spans
<1>13. Staged(t, spans)
  <2>1. \A n \in 0 .. Len(t) : spans[n] = body(spans, n)
    BY <1>11
  <2>2. spans[0] = {}
    <3>1. 0 \in 0 .. Len(t)
      OBVIOUS
    <3>2. spans[0] = body(spans, 0)
      BY <2>1, <3>1
    <3> QED BY <3>2
  <2>3. ASSUME NEW n \in 1 .. Len(t)
        PROVE  spans[n] = spans[n - 1] \cup Longer(t, spans[n - 1], n)
    <3>1. n \in 0 .. Len(t) /\ n # 0
      OBVIOUS
    <3> QED BY <2>1, <3>1
  <2> QED BY <2>2, <2>3 DEF Staged
<1> QED BY <1>12, <1>13

LEMMA Stages ==
    ASSUME NEW t \in Seq(Tokens), NEW spans, Staged(t, spans), NEW n \in 0 .. Len(t),
           NEW s \in Sorts, NEW i \in Nat, NEW j \in Nat
    PROVE  << s, i, j >> \in spans[n]
             <=> j - i \in 1 .. n /\ << s, i, j >> \in Longer(t, spans[j - i - 1], j - i)
<1> DEFINE Holds(m) == << s, i, j >> \in spans[m]
             <=> j - i \in 1 .. m /\ << s, i, j >> \in Longer(t, spans[j - i - 1], j - i)
           P == {m \in Nat : m <= Len(t) => Holds(m)}
<1>1. 0 \in P
  BY DEF Staged
<1>2. ASSUME NEW m \in Nat, m \in P PROVE m + 1 \in P
  <2> SUFFICES ASSUME m + 1 <= Len(t) PROVE Holds(m + 1)
    OBVIOUS
  <2>1. Holds(m)
    BY <1>2
  <2>2. spans[m + 1] = spans[m] \cup Longer(t, spans[m], m + 1)
    BY DEF Staged
  <2>3. << s, i, j >> \in Longer(t, spans[m], m + 1) => j - i = m + 1
    BY Lengthened
  <2>4. CASE j - i = m + 1
    BY <2>1, <2>2, <2>4
  <2>5. CASE j - i # m + 1
    <3>1. j - i \in 1 .. m + 1 <=> j - i \in 1 .. m
      BY <2>5
    <3> QED BY <2>1, <2>2, <2>3, <2>5, <3>1
  <2> QED BY <2>4, <2>5
<1> HIDE DEF P
<1>3. n \in P
  BY <1>1, <1>2, Induct
<1> QED BY <1>3 DEF P

(* The spans of t are what the grammar derives from them.                  *)
LEMMA SpanRule ==
    ASSUME NEW t \in Seq(Tokens), NEW s \in Sorts,
           NEW i \in 1 .. Len(t) + 1, NEW j \in 1 .. Len(t) + 1
    PROVE  << s, i, j >> \in Spans(t) <=> i < j /\ Derives(t, Spans(t), s, i, j)
<1>1. PICK spans : Staged(t, spans) /\ Spans(t) = spans[Len(t)]
  BY SpansStaged
<1>2. Len(t) \in 0 .. Len(t) /\ Len(t) \in Nat
  OBVIOUS
<1>3. << s, i, j >> \in Spans(t)
         <=> j - i \in 1 .. Len(t) /\ << s, i, j >> \in Longer(t, spans[j - i - 1], j - i)
  BY <1>1, <1>2, Stages
<1>4. j - i \in 1 .. Len(t) <=> i < j
  BY <1>2
<1>5. ASSUME i < j
      PROVE  Derives(t, spans[j - i - 1], s, i, j) <=> Derives(t, Spans(t), s, i, j)
  <2> DEFINE m == j - i - 1
  <2>1. m \in 0 .. Len(t)
    BY <1>2, <1>5
  <2>2. ASSUME NEW r \in Sorts, NEW k \in Nat, NEW l \in Nat, l - k < j - i
        PROVE  << r, k, l >> \in spans[m] <=> << r, k, l >> \in Spans(t)
    <3>1. << r, k, l >> \in spans[m]
             <=> l - k \in 1 .. m /\ << r, k, l >> \in Longer(t, spans[l - k - 1], l - k)
      <4> HIDE DEF m
      <4> QED BY <1>1, <2>1, Stages
    <3>2. << r, k, l >> \in Spans(t)
             <=> l - k \in 1 .. Len(t) /\ << r, k, l >> \in Longer(t, spans[l - k - 1], l - k)
      <4> DEFINE n == Len(t)
      <4>1. n \in 0 .. Len(t) /\ Spans(t) = spans[n]
        BY <1>1, <1>2
      <4> HIDE DEF n
      <4>2. << r, k, l >> \in spans[n]
               <=> l - k \in 1 .. n /\ << r, k, l >> \in Longer(t, spans[l - k - 1], l - k)
        BY <1>1, <4>1, Stages
      <4> QED BY <4>1, <4>2 DEF n
    <3>3. l - k \in 1 .. m <=> l - k \in 1 .. Len(t)
      BY <1>2, <1>5, <2>2
    <3> QED BY <3>1, <3>2, <3>3
  <2>3. i \in Nat /\ j \in Nat
    OBVIOUS
  <2> HIDE DEF m
  <2>4. Derives(t, spans[m], s, i, j) <=> Derives(t, Spans(t), s, i, j)
    BY <2>2, <2>3, DerivesFromShorter
  <2> QED BY <2>4 DEF m
<1>6. i < j => (<< s, i, j >> \in Longer(t, spans[j - i - 1], j - i)
                  <=> Derives(t, spans[j - i - 1], s, i, j))
  <2> SUFFICES ASSUME i < j PROVE << s, i, j >> \in Longer(t, spans[j - i - 1], j - i)
                                    <=> Derives(t, spans[j - i - 1], s, i, j)
    OBVIOUS
  <2> DEFINE n == j - i
             known == spans[j - i - 1]
  <2>1. n \in Nat /\ i \in 1 .. Len(t) + 1 - n /\ j = i + n
    BY <1>2
  <2> HIDE DEF n, known
  <2>2. << s, i, j >> \in Longer(t, known, n) <=> Derives(t, known, s, i, j)
    BY <2>1, Lengthened
  <2> QED BY <2>2 DEF n, known
<1> QED BY <1>3, <1>4, <1>5, <1>6

(* What the walker says of a call is what the grammar says.                *)
Parsed(t, s, i) ==
    \A j \in 1 .. Len(t) + 1 : Walk(t)[<< s, i >>] = j <=> << s, i, j >> \in Spans(t)

LEMMA LoopParses ==
    ASSUME NEW t \in Seq(Tokens), NEW sort \in Sorts, NEW close \in {EndArray, EndObject},
           NEW i \in 1 .. Len(t) + 1, NEW k \in i .. Len(t) + 1, Parsed(t, "value", k),
           \A l \in i + 1 .. Len(t) + 1 : Parsed(t, sort, l),
           NEW j \in 1 .. Len(t) + 1
    PROVE  Continued(t, Walk(t), sort, Walk(t)[<< "value", k >>], close) = j
             <=> \E e \in i .. j - 1 : << "value", k, e >> \in Spans(t)
                                       /\ GoesOn(t, Spans(t), sort, e, j, close)
<1> DEFINE w == Walk(t)
           v == w[<< "value", k >>]
<1>1. /\ v \in {Failed} \cup (k + 1 .. Len(t) + 1)
      /\ Forward(t, w)
  <2>1. Forward(t, w)
    BY WalkSteps
  <2>2. k \in 1 .. Len(t) + 1 /\ "value" \in Sorts
    BY DEF Sorts
  <2> HIDE DEF w
  <2> QED BY <2>1, <2>2 DEF Forward
<1>2. \A e \in 1 .. Len(t) + 1 : v = e <=> << "value", k, e >> \in Spans(t)
  BY DEF Parsed
<1>3. \A l \in i + 1 .. Len(t) + 1 : w[<< sort, l >>] = j <=> << sort, l, j >> \in Spans(t)
  BY DEF Parsed
<1>4. \A l \in i + 1 .. Len(t) + 1 : w[<< sort, l >>] \in {Failed} \cup (l + 1 .. Len(t) + 1)
  <2> SUFFICES ASSUME NEW l \in i + 1 .. Len(t) + 1
               PROVE  w[<< sort, l >>] \in {Failed} \cup (l + 1 .. Len(t) + 1)
    OBVIOUS
  <2>1. l \in 1 .. Len(t) + 1
    OBVIOUS
  <2> HIDE DEF w
  <2> QED BY <1>1, <2>1 DEF Forward
<1> HIDE DEF v, w
<1>5. Failed # j /\ Len(t) \in Nat
  BY DEF Failed
<1>6. close # ValueSeparator /\ close # Nothing /\ ValueSeparator # Nothing
  BY TokenFacts
<1>7. CASE v = Failed
  <2>1. Continued(t, w, sort, v, close) # j
    BY <1>5, <1>7 DEF Continued
  <2>2. \A e \in i .. j - 1 : e \in 1 .. Len(t) + 1 /\ v # e
    BY <1>5, <1>7 DEF Failed
  <2>3. \A e \in i .. j - 1 : << "value", k, e >> \notin Spans(t)
    BY <1>2, <2>2
  <2> QED BY <2>1, <2>3 DEF v, w
<1>8. CASE v # Failed
  <2>1. v \in 1 .. Len(t) + 1 /\ v \in Nat /\ i < v /\ v \in k + 1 .. Len(t) + 1
    BY <1>1, <1>8
  <2>2. << "value", k, v >> \in Spans(t)
    BY <1>2, <2>1
  <2>3. Continued(t, w, sort, v, close) = j <=> GoesOn(t, Spans(t), sort, v, j, close)
    <3>1. CASE At(t, v) = ValueSeparator
      <4>1. v \in 1 .. Len(t)
        BY <1>6, <2>1, <3>1, TokenInside
      <4>2. v + 1 \in i + 1 .. Len(t) + 1
        BY <2>1, <4>1
      <4>3. w[<< sort, v + 1 >>] = j <=> << sort, v + 1, j >> \in Spans(t)
        BY <1>3, <4>2
      <4> QED BY <1>6, <1>8, <3>1, <4>3 DEF Continued, GoesOn
    <3>2. CASE At(t, v) # ValueSeparator
      BY <1>5, <1>8, <3>2 DEF Continued, GoesOn
    <3> QED BY <3>1, <3>2
  <2>4. GoesOn(t, Spans(t), sort, v, j, close) => v \in i .. j - 1
    <3>1. CASE j = v + 1
      BY <2>1, <3>1
    <3>2. CASE At(t, v) = ValueSeparator /\ << sort, v + 1, j >> \in Spans(t)
      <4>1. v \in 1 .. Len(t)
        BY <1>6, <2>1, <3>2, TokenInside
      <4>2. v + 1 \in i + 1 .. Len(t) + 1
        BY <2>1, <4>1
      <4>3. w[<< sort, v + 1 >>] = j
        BY <1>3, <3>2, <4>2
      <4>4. w[<< sort, v + 1 >>] \in {Failed} \cup ((v + 1) + 1 .. Len(t) + 1)
        BY <1>4, <4>2
      <4> QED BY <1>5, <2>1, <4>3, <4>4
    <3> QED BY <3>1, <3>2 DEF GoesOn
  <2>5. \A e \in i .. j - 1 : << "value", k, e >> \in Spans(t) => e = v
    BY <1>2, <1>5
  <2> QED BY <2>2, <2>3, <2>4, <2>5 DEF v, w
<1> QED BY <1>7, <1>8

(* Behind its bracket, no list begins with the closing one.                *)
LEMMA NoneBegins ==
    ASSUME NEW t \in Seq(Tokens), NEW k \in 1 .. Len(t) + 1,
           At(t, k) \in {EndArray, EndObject, Nothing}
    PROVE  /\ Walk(t)[<< "elements", k >>] = Failed
           /\ Walk(t)[<< "members", k >>] = Failed
<1> DEFINE w == Walk(t)
<1>1. \A sort \in Sorts : w[<< sort, k >>] = Step(t, w, sort, k)
  BY WalkSteps
<1> HIDE DEF w
<1>2. At(t, k) \notin Scalars /\ At(t, k) # BeginArray /\ At(t, k) # BeginObject /\ ~ IsKey(t, k)
  BY TokenFacts DEF IsKey
<1>3. w[<< "value", k >>] = Failed
  <2>1. Step(t, w, "value", k) = Failed
    BY <1>2, Steps
  <2> QED BY <1>1, <2>1 DEF Sorts
<1>4. w[<< "elements", k >>] = Failed
  <2>1. Step(t, w, "elements", k) = Continued(t, w, "elements", Failed, EndArray)
    BY <1>3, Steps
  <2> QED BY <1>1, <2>1 DEF Sorts, Continued
<1>5. w[<< "members", k >>] = Failed
  <2>1. Step(t, w, "members", k) = Failed
    BY <1>2, Steps
  <2> QED BY <1>1, <2>1 DEF Sorts
<1> QED BY <1>4, <1>5 DEF w

LEMMA OpenParses ==
    ASSUME NEW t \in Seq(Tokens), NEW inner \in {"elements", "members"},
           NEW close \in {EndArray, EndObject},
           NEW i \in 1 .. Len(t), Parsed(t, inner, i + 1),
           NEW j \in 1 .. Len(t) + 1
    PROVE  Opened(t, Walk(t), i, inner, close) = j
             <=> Encloses(t, Spans(t), i, j, At(t, i), inner, close)
<1>1. Walk(t)[<< inner, i + 1 >>] = j <=> << inner, i + 1, j >> \in Spans(t)
  BY DEF Parsed
<1>2. CASE At(t, i + 1) = close
  <2>1. Walk(t)[<< inner, i + 1 >>] = Failed
    <3>1. i + 1 \in 1 .. Len(t) + 1
      OBVIOUS
    <3>2. At(t, i + 1) \in {EndArray, EndObject}
      BY <1>2
    <3> QED BY <3>1, <3>2, NoneBegins
  <2>2. << inner, i + 1, j >> \notin Spans(t)
    BY <1>1, <2>1 DEF Failed
  <2> QED BY <1>2, <2>2 DEF Opened, Encloses
<1>3. CASE At(t, i + 1) # close
  BY <1>1, <1>3 DEF Opened, Encloses
<1> QED BY <1>2, <1>3

LEMMA StepParses ==
    ASSUME NEW t \in Seq(Tokens), NEW s \in Sorts, NEW i \in 1 .. Len(t) + 1,
           \A r \in Sorts, k \in i + 1 .. Len(t) + 1 : Parsed(t, r, k),
           s # "value" => Parsed(t, "value", i)
    PROVE  Parsed(t, s, i)
<1> SUFFICES ASSUME NEW j \in 1 .. Len(t) + 1
             PROVE  Walk(t)[<< s, i >>] = j <=> << s, i, j >> \in Spans(t)
  BY DEF Parsed
<1> DEFINE w == Walk(t)
           known == Spans(t)
<1>1. Forward(t, w) /\ w[<< s, i >>] = Step(t, w, s, i)
  BY WalkSteps
<1>2. << s, i, j >> \in known <=> i < j /\ Derives(t, known, s, i, j)
  BY SpanRule
<1>3. w[<< s, i >>] = j => i < j
  <2> HIDE DEF w
  <2>1. w[<< s, i >>] \in {Failed} \cup (i + 1 .. Len(t) + 1)
    BY <1>1 DEF Forward
  <2> QED BY <2>1 DEF Failed
<1>4. Step(t, w, s, i) = j => i < j
  BY <1>1, <1>3
<1>5. Failed # j
  BY DEF Failed
<1> SUFFICES Step(t, w, s, i) = j <=> Derives(t, known, s, i, j) /\ i < j
  BY <1>1, <1>2
<1>6. CASE s = "elements"
  <2>1. Continued(t, w, s, w[<< "value", i >>], EndArray) = j
          <=> \E e \in i .. j - 1 : << "value", i, e >> \in known
                                    /\ GoesOn(t, known, s, e, j, EndArray)
    <3>1. i \in i .. Len(t) + 1 /\ Parsed(t, "value", i)
      BY <1>6
    <3> QED BY <3>1, LoopParses
  <2> HIDE DEF w, known
  <2>2. Step(t, w, s, i) = Continued(t, w, s, w[<< "value", i >>], EndArray)
    BY <1>6, Steps
  <2>3. Derives(t, known, s, i, j)
          <=> \E e \in i .. j - 1 : << "value", i, e >> \in known
                                    /\ GoesOn(t, known, s, e, j, EndArray)
    BY <1>6, Derivations
  <2> QED BY <1>4, <2>1, <2>2, <2>3
<1>7. CASE s = "members" /\ IsKey(t, i)
  <2>1. Continued(t, w, s, w[<< "value", i + 2 >>], EndObject) = j
          <=> \E e \in i .. j - 1 : << "value", i + 2, e >> \in known
                                    /\ GoesOn(t, known, s, e, j, EndObject)
    <3> DEFINE k == i + 2
    <3>1. k \in i .. Len(t) + 1 /\ k \in i + 1 .. Len(t) + 1
      BY <1>7, KeyInside
    <3>2. Parsed(t, "value", k)
      BY <3>1 DEF Sorts
    <3> HIDE DEF k
    <3>3. Continued(t, w, s, w[<< "value", k >>], EndObject) = j
          <=> \E e \in i .. j - 1 : << "value", k, e >> \in known
                                    /\ GoesOn(t, known, s, e, j, EndObject)
      BY <3>1, <3>2, LoopParses
    <3> QED BY <3>3 DEF k
  <2> HIDE DEF w, known
  <2>2. Step(t, w, s, i) = Continued(t, w, s, w[<< "value", i + 2 >>], EndObject)
    BY <1>7, Steps
  <2>3. Derives(t, known, s, i, j)
          <=> \E e \in i .. j - 1 : << "value", i + 2, e >> \in known
                                    /\ GoesOn(t, known, s, e, j, EndObject)
    BY <1>7, Derivations
  <2> QED BY <1>4, <2>1, <2>2, <2>3
<1>8. CASE s = "members" /\ ~ IsKey(t, i)
  <2> HIDE DEF w, known
  <2>1. Step(t, w, s, i) = Failed
    BY <1>8, Steps
  <2>2. ~ Derives(t, known, s, i, j)
    BY <1>8, Derivations
  <2> QED BY <1>5, <2>1, <2>2
<1>9. CASE s = "value"
  <2>1. Step(t, w, s, i)
           = IF At(t, i) \in Scalars THEN i + 1
             ELSE IF At(t, i) = BeginArray THEN Opened(t, w, i, "elements", EndArray)
             ELSE IF At(t, i) = BeginObject THEN Opened(t, w, i, "members", EndObject)
             ELSE Failed
    <3> HIDE DEF w
    <3> QED BY <1>9, Steps
  <2>2. Derives(t, known, s, i, j)
          <=> \/ At(t, i) \in Scalars /\ j = i + 1
              \/ Encloses(t, known, i, j, BeginArray, "elements", EndArray)
              \/ Encloses(t, known, i, j, BeginObject, "members", EndObject)
    <3> HIDE DEF known
    <3> QED BY <1>9, Derivations
  <2>3. ASSUME NEW inner \in {"elements", "members"}, NEW open,
               NEW close \in {EndArray, EndObject}, At(t, i) = open, open # Nothing
        PROVE  Opened(t, w, i, inner, close) = j
                 <=> Encloses(t, known, i, j, open, inner, close)
    <3>1. i \in 1 .. Len(t)
      BY <2>3, TokenInside
    <3>2. Parsed(t, inner, i + 1)
      <4>1. i + 1 \in i + 1 .. Len(t) + 1 /\ inner \in Sorts
        BY <3>1 DEF Sorts
      <4> QED BY <4>1
    <3>3. At(t, i) = open
      BY <2>3
    <3>4. Opened(t, Walk(t), i, inner, close) = j
             <=> Encloses(t, Spans(t), i, j, At(t, i), inner, close)
      BY <3>1, <3>2, OpenParses
    <3> QED BY <3>3, <3>4
  <2> HIDE DEF w, known
  <2>4. ASSUME NEW open, NEW inner, NEW close, At(t, i) # open
        PROVE  ~ Encloses(t, known, i, j, open, inner, close)
    BY <2>4 DEF Encloses
  <2>5. CASE At(t, i) \in Scalars
    BY <1>4, <2>1, <2>2, <2>4, <2>5, TokenFacts
  <2>6. CASE At(t, i) = BeginArray
    <3>1. Opened(t, w, i, "elements", EndArray) = j
            <=> Encloses(t, known, i, j, BeginArray, "elements", EndArray)
      BY <2>3, <2>6, TokenFacts
    <3> QED BY <1>4, <2>1, <2>2, <2>4, <2>6, <3>1, TokenFacts
  <2>7. CASE At(t, i) = BeginObject
    <3>1. Opened(t, w, i, "members", EndObject) = j
            <=> Encloses(t, known, i, j, BeginObject, "members", EndObject)
      BY <2>3, <2>7, TokenFacts
    <3> QED BY <1>4, <2>1, <2>2, <2>4, <2>7, <3>1, TokenFacts
  <2>8. CASE At(t, i) \notin Scalars /\ At(t, i) # BeginArray /\ At(t, i) # BeginObject
    BY <1>5, <2>1, <2>2, <2>4, <2>8
  <2> QED BY <2>5, <2>6, <2>7, <2>8
<1> QED BY <1>6, <1>7, <1>8, <1>9 DEF Sorts

LEMMA WalkParses ==
    ASSUME NEW t \in Seq(Tokens), NEW s \in Sorts, NEW i \in 1 .. Len(t) + 1
    PROVE  Parsed(t, s, i)
<1> DEFINE D == Places(t)
           rank == [d \in D |-> Rank(t, d[1], d[2])]
           P == {d \in D : Parsed(t, d[1], d[2])}
<1>1. \A r \in Sorts, k \in 1 .. Len(t) + 1 :
         /\ << r, k >> \in D /\ << r, k >>[1] = r /\ << r, k >>[2] = k
         /\ rank[<< r, k >>] = Rank(t, r, k)
  BY DEF Places
<1>2. rank \in [D -> Nat]
  <2>1. \A d \in D : d[1] \in Sorts /\ d[2] \in 1 .. Len(t) + 1
    BY DEF Places
  <2>2. \A r \in Sorts, k \in 1 .. Len(t) + 1 : Rank(t, r, k) \in Nat
    BY DEF Rank
  <2> HIDE DEF D
  <2> QED BY <2>1, <2>2
<1>3. ASSUME NEW d \in D, \A c \in D : rank[c] < rank[d] => c \in P
      PROVE  d \in P
  <2>1. PICK r \in Sorts, k \in 1 .. Len(t) + 1 : d = << r, k >>
    BY DEF Places
  <2> HIDE DEF D, rank
  <2>2. ASSUME NEW q \in Sorts, NEW l \in 1 .. Len(t) + 1, Rank(t, q, l) < Rank(t, r, k)
        PROVE  Parsed(t, q, l)
    <3>1. << q, l >> \in P
      BY <1>1, <1>3, <2>1, <2>2
    <3> QED BY <1>1, <3>1
  <2>3. ASSUME NEW q \in Sorts, NEW l \in k + 1 .. Len(t) + 1 PROVE Parsed(t, q, l)
    <3>1. l \in 1 .. Len(t) + 1 /\ Len(t) \in Nat /\ k < l
      OBVIOUS
    <3>2. Rank(t, q, l) < Rank(t, r, k)
      BY <3>1 DEF Rank
    <3> QED BY <2>2, <3>1, <3>2
  <2>4. r # "value" => Parsed(t, "value", k)
    <3> SUFFICES ASSUME r # "value" PROVE Parsed(t, "value", k)
      OBVIOUS
    <3>1. Rank(t, "value", k) < Rank(t, r, k)
      BY DEF Rank
    <3> QED BY <2>2, <3>1 DEF Sorts
  <2>5. Parsed(t, r, k)
    BY <2>3, <2>4, StepParses
  <2> QED BY <1>1, <2>1, <2>5
<1> HIDE DEF D, rank, P
<1>4. D \subseteq P
  BY <1>2, <1>3, ByRank
<1>5. << s, i >> \in P
  BY <1>1, <1>4
<1> QED BY <1>1, <1>5 DEF P

-----------------------------------------------------------------------------
(* A member list that begins inside a value, or within a list, ends before *)
(* that does.                                                              *)
Nested(t, s, i) ==
    LET e == Walk(t)[<< s, i >>] IN
    \A k \in i .. e - 1 : (s = "value" => k > i) => Walk(t)[<< "members", k >>] <= e

Ends == {ValueSeparator, EndArray, EndObject}

LEMMA Walked ==
    ASSUME NEW t \in Seq(Tokens), NEW s \in Sorts, NEW i \in 1 .. Len(t) + 1
    PROVE  /\ Walk(t)[<< s, i >>] \in {Failed} \cup (i + 1 .. Len(t) + 1)
           /\ Walk(t)[<< s, i >>] = Step(t, Walk(t), s, i)
BY WalkSteps DEF Forward

LEMMA MembersNeedKey ==
    ASSUME NEW t \in Seq(Tokens), NEW k \in 1 .. Len(t) + 1, ~ IsKey(t, k)
    PROVE  Walk(t)[<< "members", k >>] = Failed
<1> DEFINE w == Walk(t)
<1>1. w[<< "members", k >>] = Step(t, w, "members", k)
  BY Walked DEF Sorts
<1> HIDE DEF w
<1>2. Step(t, w, "members", k) = Failed
  BY Steps
<1> QED BY <1>1, <1>2 DEF w

LEMMA KeyNested ==
    ASSUME NEW t \in Seq(Tokens), NEW c \in 1 .. Len(t), NEW v \in c + 1 .. Len(t),
           Walk(t)[<< "value", c >>] = v, Nested(t, "value", c), At(t, v) \in Ends,
           NEW k \in c .. v
    PROVE  Walk(t)[<< "members", k >>] <= v
<1>1. k \in 1 .. Len(t) + 1 /\ Failed <= v /\ v \in Nat
  BY DEF Failed
<1>2. CASE ~ IsKey(t, k)
  BY <1>1, <1>2, MembersNeedKey
<1>3. CASE IsKey(t, k) /\ k = c
  <2> DEFINE w == Walk(t)
  <2>1. w[<< "value", c >>] = Step(t, w, "value", c)
    <3>1. c \in 1 .. Len(t) + 1 /\ "value" \in Sorts
      BY DEF Sorts
    <3> QED BY <3>1, Walked
  <2>2. At(t, c) \in Scalars /\ At(t, c + 1) = NameSeparator
    BY <1>3, TokenFacts DEF IsKey
  <2>3. w[<< "value", c >>] = v
    OBVIOUS
  <2> HIDE DEF w
  <2>4. Step(t, w, "value", c) = c + 1
    BY <2>2, Steps
  <2>5. v = c + 1
    BY <2>1, <2>3, <2>4
  <2> QED BY <2>2, <2>5, TokenFacts DEF Ends
<1>4. CASE IsKey(t, k) /\ k = v
  <2>1. At(t, v) \in Scalars
    BY <1>4, TokenFacts DEF IsKey
  <2> QED BY <2>1, TokenFacts DEF Ends
<1>5. CASE k # c /\ k # v
  <2>1. k \in c .. v - 1 /\ k > c
    BY <1>5
  <2> QED BY <2>1 DEF Nested
<1> QED BY <1>2, <1>3, <1>4, <1>5

LEMMA LoopNested ==
    ASSUME NEW t \in Seq(Tokens), NEW sort \in Sorts, NEW close \in {EndArray, EndObject},
           NEW c \in 1 .. Len(t) + 1, Nested(t, "value", c),
           \A l \in c + 1 .. Len(t) + 1 : Nested(t, sort, l), sort # "value",
           NEW e \in Nat, e # Failed,
           Continued(t, Walk(t), sort, Walk(t)[<< "value", c >>], close) = e,
           NEW k \in c .. e - 1
    PROVE  Walk(t)[<< "members", k >>] <= e
<1> DEFINE w == Walk(t)
           v == w[<< "value", c >>]
<1>1. /\ v \in {Failed} \cup (c + 1 .. Len(t) + 1)
      /\ \A l \in 1 .. Len(t) + 1 : w[<< sort, l >>] \in {Failed} \cup (l + 1 .. Len(t) + 1)
  BY Walked DEF Sorts
<1>2. Continued(t, w, sort, v, close) = e /\ Walk(t)[<< "value", c >>] = v
  OBVIOUS
<1> HIDE DEF v, w
<1>3. /\ v # Failed
      /\ \/ At(t, v) = ValueSeparator /\ e = w[<< sort, v + 1 >>]
         \/ At(t, v) = close /\ e = v + 1
  BY <1>2 DEF Continued
<1>4. v \in c + 1 .. Len(t) /\ c \in 1 .. Len(t) /\ At(t, v) \in Ends
  <2>1. At(t, v) # Nothing /\ At(t, v) \in Ends
    BY <1>3, TokenFacts DEF Ends
  <2>2. v \in c + 1 .. Len(t) + 1 /\ v \in Nat
    BY <1>1, <1>3
  <2>3. v \in 1 .. Len(t)
    BY <2>1, <2>2, TokenInside
  <2> QED BY <2>1, <2>2, <2>3
<1>5. CASE k <= v
  <2>1. Walk(t)[<< "members", k >>] <= v
    <3>1. k \in c .. v
      BY <1>4, <1>5
    <3> QED BY <1>2, <1>4, <3>1, KeyNested
  <2>2. v <= e
    <3>1. v + 1 \in 1 .. Len(t) + 1
      BY <1>4
    <3>2. w[<< sort, v + 1 >>] \in {Failed} \cup ((v + 1) + 1 .. Len(t) + 1)
      BY <1>1, <3>1
    <3> QED BY <1>3, <1>4, <3>2
  <2>3. Walk(t)[<< "members", k >>] \in Int
    <3>1. k \in 1 .. Len(t) + 1
      BY <1>4, <1>5
    <3>2. Walk(t)[<< "members", k >>] \in {Failed} \cup (k + 1 .. Len(t) + 1)
      BY <3>1, Walked DEF Sorts
    <3> QED BY <3>2 DEF Failed
  <2> QED BY <1>4, <2>1, <2>2, <2>3
<1>6. CASE k > v
  <2>1. e = w[<< sort, v + 1 >>] /\ k \in v + 1 .. e - 1
    BY <1>3, <1>4, <1>6
  <2>2. Nested(t, sort, v + 1)
    <3>1. v + 1 \in c + 1 .. Len(t) + 1
      BY <1>4
    <3> QED BY <3>1
  <2> QED BY <2>1, <2>2 DEF Nested, w
<1> QED BY <1>4, <1>5, <1>6

LEMMA StepNested ==
    ASSUME NEW t \in Seq(Tokens), NEW s \in Sorts, NEW i \in 1 .. Len(t) + 1,
           \A r \in Sorts, k \in i + 1 .. Len(t) + 1 : Nested(t, r, k),
           s # "value" => Nested(t, "value", i)
    PROVE  Nested(t, s, i)
<1> DEFINE w == Walk(t)
           e == w[<< s, i >>]
<1> SUFFICES ASSUME NEW k \in i .. e - 1, s = "value" => k > i
             PROVE  w[<< "members", k >>] <= e
  BY DEF Nested
<1>1. e \in {Failed} \cup (i + 1 .. Len(t) + 1) /\ e = Step(t, w, s, i)
  BY Walked
<1>2. e # Failed /\ e \in Nat /\ e \in i + 1 .. Len(t) + 1 /\ k \in 1 .. Len(t) + 1
  <2> HIDE DEF e
  <2> QED BY <1>1 DEF Failed
<1>3. CASE s = "elements"
  <2>1. Continued(t, w, s, w[<< "value", i >>], EndArray) = e
    <3> HIDE DEF w, e
    <3>1. Step(t, w, s, i) = Continued(t, w, s, w[<< "value", i >>], EndArray)
      BY <1>3, Steps
    <3> QED BY <1>1, <3>1
  <2>2. Nested(t, "value", i) /\ \A l \in i + 1 .. Len(t) + 1 : Nested(t, s, l)
    BY <1>3
  <2> HIDE DEF e
  <2> QED BY <1>2, <1>3, <2>1, <2>2, LoopNested
<1>4. CASE s = "members" /\ IsKey(t, i)
  <2> DEFINE c == i + 2
  <2>1. c \in i + 1 .. Len(t) + 1 /\ c \in 1 .. Len(t) + 1
    BY <1>4, KeyInside
  <2>2. Continued(t, w, s, w[<< "value", c >>], EndObject) = e
    <3> HIDE DEF w, e
    <3>1. Step(t, w, s, i) = Continued(t, w, s, w[<< "value", i + 2 >>], EndObject)
      BY <1>4, Steps
    <3> QED BY <1>1, <3>1
  <2>3. Nested(t, "value", c) /\ \A l \in c + 1 .. Len(t) + 1 : Nested(t, s, l)
    BY <2>1 DEF Sorts
  <2>4. CASE k = i
    BY <1>2, <1>4, <2>4
  <2>5. CASE k = i + 1
    <3>1. ~ IsKey(t, k)
      BY <1>4, <2>5, TokenFacts DEF IsKey
    <3>2. w[<< "members", k >>] = Failed
      BY <1>2, <3>1, MembersNeedKey
    <3> HIDE DEF w, e
    <3> QED BY <1>2, <3>2 DEF Failed
  <2>6. CASE k \notin {i, i + 1}
    <3>1. k \in c .. e - 1
      BY <2>6
    <3> HIDE DEF e, c
    <3> QED BY <1>2, <1>4, <2>1, <2>2, <2>3, <3>1, LoopNested
  <2> QED BY <2>4, <2>5, <2>6
<1>5. CASE s = "members" /\ ~ IsKey(t, i)
  <2>1. e = Failed
    BY <1>2, <1>5, MembersNeedKey
  <2> QED BY <1>2, <2>1
<1>6. CASE s = "value"
  <2> HIDE DEF w, e
  <2>1. e = IF At(t, i) \in Scalars THEN i + 1
             ELSE IF At(t, i) = BeginArray THEN Opened(t, w, i, "elements", EndArray)
             ELSE IF At(t, i) = BeginObject THEN Opened(t, w, i, "members", EndObject)
             ELSE Failed
    BY <1>1, <1>6, Steps
  <2>2. e # i + 1
    BY <1>2, <1>6
  <2>3. PICK inner \in {"elements", "members"}, close \in {EndArray, EndObject} :
           e = Opened(t, w, i, inner, close)
    BY <1>2, <2>1, <2>2
  <2>4. i + 1 \in 1 .. Len(t) + 1 /\ i + 1 \in i + 1 .. Len(t) + 1
    BY <1>2, <2>2
  <2>5. CASE At(t, i + 1) = close
    <3>1. e = i + 2 /\ k = i + 1
      BY <1>6, <2>3, <2>5 DEF Opened
    <3>2. ~ IsKey(t, k)
      BY <2>5, <3>1, TokenFacts DEF IsKey
    <3>3. Walk(t)[<< "members", k >>] = Failed
      BY <1>2, <3>2, MembersNeedKey
    <3> QED BY <1>2, <3>3 DEF w, Failed
  <2>6. CASE At(t, i + 1) # close
    <3>1. e = w[<< inner, i + 1 >>]
      BY <2>3, <2>6 DEF Opened
    <3>2. Nested(t, inner, i + 1)
      BY <2>4 DEF Sorts
    <3>3. k \in i + 1 .. e - 1 /\ inner # "value"
      BY <1>2, <1>6
    <3> QED BY <3>1, <3>2, <3>3 DEF Nested, w
  <2> QED BY <2>5, <2>6
<1> QED BY <1>3, <1>4, <1>5, <1>6 DEF Sorts

LEMMA AllNested ==
    ASSUME NEW t \in Seq(Tokens), NEW s \in Sorts, NEW i \in 1 .. Len(t) + 1
    PROVE  Nested(t, s, i)
<1> DEFINE D == Places(t)
           rank == [d \in D |-> Rank(t, d[1], d[2])]
           P == {d \in D : Nested(t, d[1], d[2])}
<1>1. \A r \in Sorts, k \in 1 .. Len(t) + 1 :
         /\ << r, k >> \in D /\ << r, k >>[1] = r /\ << r, k >>[2] = k
         /\ rank[<< r, k >>] = Rank(t, r, k)
  BY DEF Places
<1>2. rank \in [D -> Nat]
  <2>1. \A d \in D : d[1] \in Sorts /\ d[2] \in 1 .. Len(t) + 1
    BY DEF Places
  <2>2. \A r \in Sorts, k \in 1 .. Len(t) + 1 : Rank(t, r, k) \in Nat
    BY DEF Rank
  <2> HIDE DEF D
  <2> QED BY <2>1, <2>2
<1>3. ASSUME NEW d \in D, \A c \in D : rank[c] < rank[d] => c \in P
      PROVE  d \in P
  <2>1. PICK r \in Sorts, k \in 1 .. Len(t) + 1 : d = << r, k >>
    BY DEF Places
  <2> HIDE DEF D, rank
  <2>2. ASSUME NEW q \in Sorts, NEW l \in 1 .. Len(t) + 1, Rank(t, q, l) < Rank(t, r, k)
        PROVE  Nested(t, q, l)
    <3>1. << q, l >> \in P
      BY <1>1, <1>3, <2>1, <2>2
    <3> QED BY <1>1, <3>1
  <2>3. ASSUME NEW q \in Sorts, NEW l \in k + 1 .. Len(t) + 1 PROVE Nested(t, q, l)
    <3>1. l \in 1 .. Len(t) + 1 /\ Len(t) \in Nat /\ k < l
      OBVIOUS
    <3>2. Rank(t, q, l) < Rank(t, r, k)
      BY <3>1 DEF Rank
    <3> QED BY <2>2, <3>1, <3>2
  <2>4. r # "value" => Nested(t, "value", k)
    <3> SUFFICES ASSUME r # "value" PROVE Nested(t, "value", k)
      OBVIOUS
    <3>1. Rank(t, "value", k) < Rank(t, r, k)
      BY DEF Rank
    <3> QED BY <2>2, <3>1 DEF Sorts
  <2>5. Nested(t, r, k)
    BY <2>3, <2>4, StepNested
  <2> QED BY <1>1, <2>1, <2>5
<1> HIDE DEF D, rank, P
<1>4. D \subseteq P
  BY <1>2, <1>3, ByRank
<1>5. << s, i >> \in P
  BY <1>1, <1>4
<1> QED BY <1>1, <1>5 DEF P

LEMMA ValueEnds ==
    ASSUME NEW t \in Seq(Tokens), NEW i \in 1 .. Len(t) + 1
    PROVE  /\ ValueEnd(t, i) \in {Failed} \cup (i + 1 .. Len(t) + 1)
           /\ i \in 1 .. Len(t) => ValueEnd(t, i) = Walk(t)[<< "value", i >>]
<1>1. Walk(t)[<< "value", i >>] \in {Failed} \cup (i + 1 .. Len(t) + 1)
  BY Walked DEF Sorts
<1> QED BY <1>1 DEF ValueEnd

(* The turns at the members behind are all that a turn goes by.            *)
Outcomes == [ret : {0, 1}, at : Nat]

Turned(t, key, kind, i) ==
    \/ \E outcome \in Outcomes : \A g : Look(t, key, kind, g, i) = outcome
    \/ \E k \in i + 1 .. Len(t) + 1 : \A g : Look(t, key, kind, g, i) = g[k]

LEMMA Turn ==
    ASSUME NEW t \in Seq(Tokens), NEW key, NEW kind, NEW i \in 1 .. Len(t) + 1
    PROVE  Turned(t, key, kind, i)
<1> DEFINE e == ValueEnd(t, i + 2)
<1>1. /\ NotFound \in Outcomes /\ Exhausted(At(t, e)) \in Outcomes
      /\ [ret |-> 1, at |-> i + 2] \in Outcomes
  BY DEF NotFound, Exhausted, Outcomes
<1>2. CASE ~ IsKey(t, i)
  <2>1. \A g : Look(t, key, kind, g, i) = NotFound
    BY <1>2 DEF Look
  <2> QED BY <1>1, <2>1 DEF Turned
<1>3. CASE IsKey(t, i) /\ t[i] = key /\ At(t, i + 2) \in Kinds[kind]
  <2> DEFINE o == IF Matches(t, i + 2, kind) THEN [ret |-> 1, at |-> i + 2] ELSE NotFound
  <2>1. \A g : Look(t, key, kind, g, i) = o
    BY <1>3 DEF Look
  <2>2. o \in Outcomes
    BY <1>1
  <2> HIDE DEF o
  <2> QED BY <2>1, <2>2 DEF Turned
<1>4. CASE IsKey(t, i) /\ ~ (t[i] = key /\ At(t, i + 2) \in Kinds[kind])
  <2>1. e \in {Failed} \cup (i + 3 .. Len(t) + 1)
    <3>1. i + 2 \in 1 .. Len(t) + 1
      BY <1>4, KeyInside
    <3>2. ValueEnd(t, i + 2) \in {Failed} \cup ((i + 2) + 1 .. Len(t) + 1)
      BY <3>1, ValueEnds
    <3> QED BY <3>2
  <2>2. \A g : Look(t, key, kind, g, i)
                 = IF e = Failed THEN NotFound
                   ELSE IF At(t, e) = ValueSeparator THEN g[e + 1] ELSE Exhausted(At(t, e))
    BY <1>4 DEF Look
  <2> HIDE DEF e
  <2>3. CASE e # Failed /\ At(t, e) = ValueSeparator
    <3>1. e \in i + 3 .. Len(t) + 1 /\ e \in Nat
      BY <2>1, <2>3
    <3>2. e \in 1 .. Len(t)
      BY <2>3, <3>1, TokenFacts, TokenInside
    <3>3. e + 1 \in i + 1 .. Len(t) + 1
      BY <3>1, <3>2
    <3>4. \A g : Look(t, key, kind, g, i) = g[e + 1]
      BY <2>2, <2>3
    <3> QED BY <3>3, <3>4 DEF Turned
  <2>4. CASE ~ (e # Failed /\ At(t, e) = ValueSeparator)
    <3> DEFINE o == IF e = Failed THEN NotFound ELSE Exhausted(At(t, e))
    <3>1. \A g : Look(t, key, kind, g, i) = o
      BY <2>2, <2>4
    <3>2. o \in Outcomes
      BY <1>1
    <3> HIDE DEF o
    <3> QED BY <3>1, <3>2 DEF Turned
  <2> QED BY <2>3, <2>4
<1> QED BY <1>2, <1>3, <1>4

(* The recursive definition is one.                                        *)
Turns(t, key, kind) ==
    CHOOSE members : members = [i \in 1 .. Len(t) + 1 |-> Look(t, key, kind, members, i)]

LEMMA TurnsTaken ==
    ASSUME NEW t \in Seq(Tokens), NEW key, NEW kind
    PROVE  \A i \in 1 .. Len(t) + 1 :
              Turns(t, key, kind)[i] = Look(t, key, kind, Turns(t, key, kind), i)
<1> DEFINE D == 1 .. Len(t) + 1
           Ok == [i \in D |-> Outcomes]
           rank == [i \in D |-> Len(t) + 1 - i]
           top == Len(t) + 1
           step == [fd \in Sound(D, Ok) \X D |-> Look(t, key, kind, fd[1], fd[2])]
<1>1. rank \in [D -> Nat] /\ top \in Nat /\ \A i \in D : rank[i] < top
  OBVIOUS
<1>2. \A i \in D : Ok[i] # {}
  <2>1. NotFound \in Outcomes
    BY DEF NotFound, Outcomes
  <2> QED BY <2>1
<1>3. \A f \in Sound(D, Ok), i \in D : step[<< f, i >>] = Look(t, key, kind, f, i)
  OBVIOUS
<1>4. \A f \in Sound(D, Ok), i \in D : f[i] \in Outcomes
  BY DEF Sound
<1>5. \A i \in D : Ok[i] = Outcomes
  OBVIOUS
<1>6. \A i \in D : \A k \in i + 1 .. Len(t) + 1 : k \in D /\ rank[k] < rank[i]
  OBVIOUS
<1> HIDE DEF D, Ok, rank, top, step
<1>7. \A i \in D : Turned(t, key, kind, i)
  BY Turn DEF D
<1>8. \A f \in Sound(D, Ok), i \in D : step[<< f, i >>] \in Ok[i]
  <2> SUFFICES ASSUME NEW f \in Sound(D, Ok), NEW i \in D PROVE step[<< f, i >>] \in Ok[i]
    OBVIOUS
  <2>1. Turned(t, key, kind, i)
    BY <1>7
  <2>2. Look(t, key, kind, f, i) \in Outcomes
    BY <1>4, <1>6, <2>1 DEF Turned
  <2> QED BY <1>3, <1>5, <2>2
<1>9. \A f, g \in Sound(D, Ok), i \in D :
         (\A c \in D : rank[c] < rank[i] => f[c] = g[c]) => step[<< f, i >>] = step[<< g, i >>]
  <2> SUFFICES ASSUME NEW f \in Sound(D, Ok), NEW g \in Sound(D, Ok), NEW i \in D,
                      \A c \in D : rank[c] < rank[i] => f[c] = g[c]
               PROVE  step[<< f, i >>] = step[<< g, i >>]
    OBVIOUS
  <2>1. Turned(t, key, kind, i)
    BY <1>7
  <2>2. Look(t, key, kind, f, i) = Look(t, key, kind, g, i)
    <3>1. CASE \E outcome \in Outcomes : \A h : Look(t, key, kind, h, i) = outcome
      BY <3>1
    <3>2. CASE \E k \in i + 1 .. Len(t) + 1 : \A h : Look(t, key, kind, h, i) = h[k]
      <4>1. PICK k \in i + 1 .. Len(t) + 1 : \A h : Look(t, key, kind, h, i) = h[k]
        BY <3>2
      <4>2. f[k] = g[k]
        BY <1>6
      <4> QED BY <4>1, <4>2
    <3> QED BY <2>1, <3>1, <3>2 DEF Turned
  <2> QED BY <1>3, <2>2
<1>10. PICK f \in Sound(D, Ok) : f = [i \in D |-> step[<< f, i >>]]
  <2>1. Recursive(D, Ok, rank, top, step)
    BY <1>1, <1>2, <1>8, <1>9 DEF Recursive
  <2> QED BY <2>1, Recursion
<1>11. f = [i \in 1 .. Len(t) + 1 |-> Look(t, key, kind, f, i)]
  <2>1. f = [i \in D |-> Look(t, key, kind, f, i)]
    BY <1>3, <1>10
  <2> QED BY <2>1 DEF D
<1>12. Turns(t, key, kind)
          = [i \in 1 .. Len(t) + 1 |-> Look(t, key, kind, Turns(t, key, kind), i)]
  BY <1>11 DEF Turns
<1> QED BY <1>12

LEMMA GetTurns ==
    ASSUME NEW t, NEW key, NEW kind
    PROVE  Get(t, key, kind) = IF At(t, 1) # BeginObject \/ At(t, 2) = EndObject THEN NotFound
                               ELSE Turns(t, key, kind)[2]
BY DEF Get, Turns

-----------------------------------------------------------------------------
(* The members of an object's own are those whose list ends where it does. *)
Own(t, i) == Walk(t)[<< "members", i >>] = Len(t) + 1

Hit(t, key, kind, i) == Own(t, i) /\ t[i] = key /\ t[i + 2] \in Kinds[kind]

LEMMA OwnMember ==
    ASSUME NEW t \in Seq(Tokens), NEW i \in 1 .. Len(t) + 1, Own(t, i)
    PROVE  \E v \in i + 3 .. Len(t) :
              /\ IsKey(t, i) /\ Walk(t)[<< "value", i + 2 >>] = v
              /\ \/ At(t, v) = ValueSeparator /\ v + 1 \in 1 .. Len(t) + 1 /\ Own(t, v + 1)
                 \/ At(t, v) = EndObject /\ v = Len(t)
              /\ \A k \in i + 1 .. v : ~ Own(t, k)
<1> DEFINE w == Walk(t)
           c == i + 2
           v == w[<< "value", c >>]
<1>1. IsKey(t, i)
  <2>1. Failed # Len(t) + 1
    BY DEF Failed
  <2> QED BY <2>1, MembersNeedKey DEF Own
<1>2. c \in 1 .. Len(t) + 1 /\ c \in Nat
  BY <1>1, KeyInside
<1>3. v \in {Failed} \cup (c + 1 .. Len(t) + 1)
  BY <1>2, Walked DEF Sorts
<1>4. Continued(t, w, "members", v, EndObject) = Len(t) + 1
  <2>1. w[<< "members", i >>] = Step(t, w, "members", i)
    BY Walked DEF Sorts
  <2>2. Step(t, Walk(t), "members", i)
          = Continued(t, Walk(t), "members", Walk(t)[<< "value", i + 2 >>], EndObject)
    BY <1>1, Steps
  <2> QED BY <2>1, <2>2 DEF Own
<1>5. Walk(t)[<< "value", c >>] = v /\ w = Walk(t)
  OBVIOUS
<1> HIDE DEF v, w, c
<1>6. /\ v # Failed
      /\ \/ At(t, v) = ValueSeparator /\ w[<< "members", v + 1 >>] = Len(t) + 1
         \/ At(t, v) = EndObject /\ v + 1 = Len(t) + 1
  <2>1. Failed # Len(t) + 1
    BY DEF Failed
  <2> QED BY <1>4, <2>1 DEF Continued
<1>7. At(t, v) \in Ends /\ At(t, v) # Nothing
  BY <1>6, TokenFacts DEF Ends
<1>8. v \in c + 1 .. Len(t) /\ c \in 1 .. Len(t) /\ v \in 1 .. Len(t)
  <2>1. v \in c + 1 .. Len(t) + 1 /\ v \in Nat
    BY <1>2, <1>3, <1>6
  <2>2. v \in 1 .. Len(t)
    BY <1>7, <2>1, TokenInside
  <2> QED BY <1>2, <2>1, <2>2
<1>9. ASSUME NEW k \in i + 1 .. v PROVE ~ Own(t, k)
  <2>1. k \in 1 .. Len(t) + 1 /\ i + 1 \in 1 .. Len(t) + 1
    BY <1>8
  <2>2. CASE k = i + 1
    <3>1. ~ IsKey(t, i + 1)
      BY <1>1, TokenFacts DEF IsKey
    <3>2. Walk(t)[<< "members", i + 1 >>] = Failed
      BY <2>1, <3>1, MembersNeedKey
    <3> QED BY <2>2, <3>2 DEF Own, Failed
  <2>3. CASE k # i + 1
    <3>1. k \in c .. v
      BY <2>3 DEF c
    <3>2. Nested(t, "value", c)
      BY <1>2, AllNested DEF Sorts
    <3>3. Walk(t)[<< "members", k >>] <= v
      BY <1>5, <1>7, <1>8, <3>1, <3>2, KeyNested
    <3> QED BY <1>8, <3>3 DEF Own
  <2> QED BY <2>2, <2>3
<1>10. At(t, v) = ValueSeparator => v + 1 \in 1 .. Len(t) + 1
  BY <1>8
<1>11. v \in i + 3 .. Len(t)
  BY <1>8 DEF c
<1>12. \/ At(t, v) = ValueSeparator /\ v + 1 \in 1 .. Len(t) + 1 /\ Own(t, v + 1)
       \/ At(t, v) = EndObject /\ v = Len(t)
  BY <1>5, <1>6, <1>8, <1>10 DEF Own
<1> QED BY <1>1, <1>5, <1>9, <1>11, <1>12 DEF c

(* From an own member on, the loop finds the first hit.                    *)
Finds(t, key, kind, i) ==
    \/ /\ \A k \in i .. Len(t) : ~ Hit(t, key, kind, k)
       /\ Turns(t, key, kind)[i].at = 0
    \/ \E k \in i .. Len(t) : /\ Hit(t, key, kind, k)
                              /\ Turns(t, key, kind)[i].at = k + 2
                              /\ \A l \in i .. k - 1 : ~ Hit(t, key, kind, l)

LEMMA OwnFinds ==
    ASSUME NEW t \in Seq(Tokens), NEW key, NEW kind, NEW i \in 1 .. Len(t) + 1, Own(t, i),
           \A l \in i + 1 .. Len(t) + 1 : Own(t, l) => Finds(t, key, kind, l)
    PROVE  Finds(t, key, kind, i)
<1> DEFINE m == Turns(t, key, kind)
<1>1. PICK v \in i + 3 .. Len(t) :
         /\ IsKey(t, i) /\ Walk(t)[<< "value", i + 2 >>] = v
         /\ \/ At(t, v) = ValueSeparator /\ v + 1 \in 1 .. Len(t) + 1 /\ Own(t, v + 1)
            \/ At(t, v) = EndObject /\ v = Len(t)
         /\ \A k \in i + 1 .. v : ~ Own(t, k)
  BY OwnMember
<1>2. i \in 1 .. Len(t) /\ i + 2 \in 1 .. Len(t) /\ v \in Nat
  OBVIOUS
<1>3. ValueEnd(t, i + 2) = v /\ v # Failed
  <2>1. ValueEnd(t, i + 2) = v
    BY <1>1, <1>2, ValueEnds
  <2> QED BY <2>1 DEF Failed
<1>4. At(t, i + 2) = t[i + 2]
  BY <1>2 DEF At
<1>5. m[i] = Look(t, key, kind, m, i)
  BY TurnsTaken
<1>6. \A k \in i + 1 .. v : ~ Hit(t, key, kind, k)
  BY <1>1 DEF Hit
<1>7. CASE Hit(t, key, kind, i)
  <2>1. Matches(t, i + 2, kind)
    BY <1>3, <1>4, <1>7 DEF Matches, Hit
  <2> HIDE DEF m
  <2>2. m[i] = [ret |-> 1, at |-> i + 2]
    BY <1>1, <1>4, <1>5, <1>7, <2>1 DEF Look, Hit
  <2>3. m[i].at = i + 2 /\ i \in i .. Len(t) /\ \A l \in i .. i - 1 : ~ Hit(t, key, kind, l)
    BY <1>2, <2>2
  <2> QED BY <1>7, <2>3 DEF Finds, m
<1>8. CASE ~ Hit(t, key, kind, i)
  <2> HIDE DEF m
  <2>1. ~ (t[i] = key /\ At(t, i + 2) \in Kinds[kind])
    BY <1>4, <1>8 DEF Hit
  <2>2. m[i] = IF At(t, v) = ValueSeparator THEN m[v + 1] ELSE Exhausted(At(t, v))
    BY <1>1, <1>3, <1>5, <2>1 DEF Look
  <2>3. \A k \in i .. v : ~ Hit(t, key, kind, k)
    BY <1>6, <1>8
  <2>4. CASE At(t, v) = ValueSeparator
    <3>1. v + 1 \in i + 1 .. Len(t) + 1 /\ Own(t, v + 1)
      BY <1>1, <1>2, <2>4, TokenFacts
    <3>2. Finds(t, key, kind, v + 1) /\ m[i] = m[v + 1]
      BY <2>2, <2>4, <3>1
    <3>3. CASE /\ \A k \in v + 1 .. Len(t) : ~ Hit(t, key, kind, k)
               /\ m[v + 1].at = 0
      <4>1. \A k \in i .. Len(t) : k \in i .. v \/ k \in v + 1 .. Len(t)
        OBVIOUS
      <4>2. \A k \in i .. Len(t) : ~ Hit(t, key, kind, k)
        BY <2>3, <3>3, <4>1
      <4> QED BY <3>2, <3>3, <4>2 DEF Finds, m
    <3>4. CASE \E k \in v + 1 .. Len(t) : /\ Hit(t, key, kind, k)
                                          /\ m[v + 1].at = k + 2
                                          /\ \A l \in v + 1 .. k - 1 : ~ Hit(t, key, kind, l)
      <4>1. PICK k \in v + 1 .. Len(t) : /\ Hit(t, key, kind, k)
                                         /\ m[v + 1].at = k + 2
                                         /\ \A l \in v + 1 .. k - 1 : ~ Hit(t, key, kind, l)
        BY <3>4
      <4>2. k \in i .. Len(t) /\ \A l \in i .. k - 1 : l \in i .. v \/ l \in v + 1 .. k - 1
        OBVIOUS
      <4>3. \A l \in i .. k - 1 : ~ Hit(t, key, kind, l)
        BY <2>3, <4>1, <4>2
      <4> QED BY <3>2, <4>1, <4>2, <4>3 DEF Finds, m
    <3> QED BY <3>2, <3>3, <3>4 DEF Finds, m
  <2>5. CASE At(t, v) # ValueSeparator
    <3>1. m[i].at = 0
      BY <2>2, <2>5 DEF Exhausted
    <3>2. v = Len(t)
      BY <1>1, <2>5
    <3> QED BY <2>3, <3>1, <3>2 DEF Finds, m
  <2> QED BY <2>4, <2>5
<1> QED BY <1>7, <1>8

LEMMA AllFind ==
    ASSUME NEW t \in Seq(Tokens), NEW key, NEW kind, NEW i \in 1 .. Len(t) + 1, Own(t, i)
    PROVE  Finds(t, key, kind, i)
<1> DEFINE D == 1 .. Len(t) + 1
           rank == [d \in D |-> Len(t) + 1 - d]
           P == {d \in D : Own(t, d) => Finds(t, key, kind, d)}
<1>1. rank \in [D -> Nat]
  OBVIOUS
<1>2. ASSUME NEW d \in D, \A c \in D : rank[c] < rank[d] => c \in P
      PROVE  d \in P
  <2>1. \A l \in d + 1 .. Len(t) + 1 : l \in D /\ rank[l] < rank[d]
    OBVIOUS
  <2>2. \A l \in d + 1 .. Len(t) + 1 : Own(t, l) => Finds(t, key, kind, l)
    BY <1>2, <2>1
  <2>3. Own(t, d) => Finds(t, key, kind, d)
    BY <2>2, OwnFinds
  <2> QED BY <2>3
<1>3. i \in D
  OBVIOUS
<1> HIDE DEF D, rank, P
<1>4. D \subseteq P
  BY <1>1, <1>2, ByRank
<1> QED BY <1>3, <1>4 DEF P

-----------------------------------------------------------------------------
(* The tokens received are tokens.                                         *)
LEMMA Hearing == WalkSpec => [](reply \in Seq(Tokens))
<1>1. WalkInit => reply \in Seq(Tokens)
  BY DEF WalkInit
<1>2. reply \in Seq(Tokens) /\ [WalkNext]_reply => (reply \in Seq(Tokens))'
  BY WalkAssumption DEF WalkNext, Receive
<1> QED BY <1>1, <1>2, PTL DEF WalkSpec

LEMMA WalkerParses == ASSUME reply \in Seq(Tokens) PROVE WalkIsGrammar
<1> SUFFICES ASSUME NEW i \in DOMAIN reply, NEW j \in 1 .. Len(reply) + 1
             PROVE  ValueEnd(reply, i) = j <=> << "value", i, j >> \in Spans(reply)
  BY DEF WalkIsGrammar
<1>1. i \in 1 .. Len(reply) /\ i \in 1 .. Len(reply) + 1
  OBVIOUS
<1>2. ValueEnd(reply, i) = Walk(reply)[<< "value", i >>]
  BY <1>1, ValueEnds
<1>3. Parsed(reply, "value", i)
  BY <1>1, WalkParses DEF Sorts
<1> QED BY <1>2, <1>3 DEF Parsed

LEMMA LookupsFind == ASSUME reply \in Seq(Tokens) PROVE LookupIsFirst
<1> DEFINE spans == Spans(reply)
           last == Len(reply) + 1
           own == {i \in DOMAIN reply : << "members", i, last >> \in spans}
<1> SUFFICES ASSUME At(reply, 1) = BeginObject, << "value", 1, last >> \in spans,
                    NEW key \in Names \cap Heard, NEW kind \in DOMAIN Kinds
             PROVE  LET hits  == {i \in own : reply[i] = key /\ reply[i + 2] \in Kinds[kind]}
                        found == Get(reply, key, kind).at
                    IN  IF hits = {} THEN found = 0
                        ELSE \E first \in hits : found = first + 2 /\ \A i \in hits : first <= i
  BY DEF LookupIsFirst
<1> DEFINE hits == {i \in own : reply[i] = key /\ reply[i + 2] \in Kinds[kind]}
           found == Get(reply, key, kind).at
<1>1. last \in 1 .. Len(reply) + 1 /\ 1 \in 1 .. Len(reply)
  <2>1. 1 \in 1 .. Len(reply)
    BY TokenFacts, TokenInside
  <2> QED BY <2>1
<1>2. \A i \in DOMAIN reply : i \in own <=> Own(reply, i)
  <2> SUFFICES ASSUME NEW i \in DOMAIN reply PROVE i \in own <=> Own(reply, i)
    OBVIOUS
  <2>1. i \in 1 .. Len(reply) + 1
    OBVIOUS
  <2>2. Parsed(reply, "members", i)
    BY <2>1, WalkParses DEF Sorts
  <2>3. Own(reply, i) <=> << "members", i, last >> \in spans
    BY <1>1, <2>2 DEF Parsed, Own
  <2> QED BY <2>3
<1>3. \A i : i \in hits <=> i \in 1 .. Len(reply) /\ Hit(reply, key, kind, i)
  BY <1>2 DEF Hit
<1>4. last = IF At(reply, 2) = EndObject THEN 3 ELSE Walk(reply)[<< "members", 2 >>]
  <2>1. Walk(reply)[<< "value", 1 >>] = last
    <3>1. Parsed(reply, "value", 1)
      BY <1>1, WalkParses DEF Sorts
    <3> QED BY <1>1, <3>1 DEF Parsed
  <2>2. Walk(reply)[<< "value", 1 >>] = Step(reply, Walk(reply), "value", 1)
    BY <1>1, Walked DEF Sorts
  <2> DEFINE w == Walk(reply)
  <2>3. Step(reply, w, "value", 1) = Opened(reply, w, 1, "members", EndObject)
    <3> HIDE DEF w
    <3> QED BY Steps, TokenFacts
  <2> QED BY <2>1, <2>2, <2>3 DEF Opened
<1>5. ~ Own(reply, 1)
  <2>1. ~ IsKey(reply, 1)
    BY TokenFacts DEF IsKey
  <2>2. Walk(reply)[<< "members", 1 >>] = Failed
    BY <1>1, <2>1, MembersNeedKey
  <2> QED BY <2>2 DEF Own, Failed
<1> HIDE DEF hits, found, own, spans
<1>6. CASE At(reply, 2) = EndObject
  <2>1. found = 0
    BY <1>6, GetTurns DEF found, NotFound
  <2>2. ~ Own(reply, 2)
    <3>1. ~ IsKey(reply, 2)
      BY <1>6, TokenFacts DEF IsKey
    <3>2. Walk(reply)[<< "members", 2 >>] = Failed
      BY <1>1, <3>1, MembersNeedKey
    <3> QED BY <3>2 DEF Own, Failed
  <2>3. hits = {}
    <3>1. Len(reply) = 2
      <4>1. last = 3
        BY <1>4, <1>6
      <4>2. \A n \in Nat : n + 1 = 3 => n = 2
        OBVIOUS
      <4>3. Len(reply) \in Nat
        OBVIOUS
      <4> QED BY Zenon, <4>1, <4>2, <4>3
    <3>2. \A i \in 1 .. 2 : i = 1 \/ i = 2
      OBVIOUS
    <3>3. \A i \in 1 .. Len(reply) : ~ Hit(reply, key, kind, i)
      BY <1>5, <2>2, <3>1, <3>2 DEF Hit
    <3> QED BY <1>3, <3>3
  <2> QED BY <2>1, <2>3 DEF hits, found
<1>7. CASE At(reply, 2) # EndObject
  <2>1. found = Turns(reply, key, kind)[2].at
    BY <1>7, GetTurns DEF found
  <2>2. 2 \in 1 .. Len(reply) + 1 /\ Own(reply, 2)
    BY <1>1, <1>4, <1>7 DEF Own
  <2>3. Finds(reply, key, kind, 2)
    BY <2>2, AllFind
  <2>4. \A i : i \in hits <=> i \in 2 .. Len(reply) /\ Hit(reply, key, kind, i)
    <3>1. \A i \in 1 .. Len(reply) : i = 1 \/ i \in 2 .. Len(reply)
      OBVIOUS
    <3>2. \A i \in 2 .. Len(reply) : i \in 1 .. Len(reply)
      OBVIOUS
    <3> QED BY <1>3, <1>5, <3>1, <3>2 DEF Hit
  <2>5. CASE /\ \A k \in 2 .. Len(reply) : ~ Hit(reply, key, kind, k)
             /\ Turns(reply, key, kind)[2].at = 0
    <3>1. hits = {} /\ found = 0
      BY <2>1, <2>4, <2>5
    <3> QED BY <3>1 DEF hits, found
  <2>6. CASE \E k \in 2 .. Len(reply) :
                /\ Hit(reply, key, kind, k)
                /\ Turns(reply, key, kind)[2].at = k + 2
                /\ \A l \in 2 .. k - 1 : ~ Hit(reply, key, kind, l)
    <3>1. PICK k \in 2 .. Len(reply) : /\ Hit(reply, key, kind, k)
                                       /\ Turns(reply, key, kind)[2].at = k + 2
                                       /\ \A l \in 2 .. k - 1 : ~ Hit(reply, key, kind, l)
      BY <2>6
    <3>2. k \in hits /\ found = k + 2
      BY <2>1, <2>4, <3>1
    <3>3. \A i \in 2 .. Len(reply) : i \in 2 .. k - 1 \/ k <= i
      OBVIOUS
    <3>4. \A i \in hits : k <= i
      BY <2>4, <3>1, <3>3
    <3>5. hits # {} /\ \E first \in hits : found = first + 2 /\ \A i \in hits : first <= i
      BY <3>2, <3>4
    <3> QED BY <3>5 DEF hits, found
  <2> QED BY <2>3, <2>5, <2>6 DEF Finds
<1> QED BY <1>6, <1>7

(* jp_value and the loops that it calls accept the values of RFC 8259 and  *)
(* nothing else, wherever they start in a reply of any tokens: they stop   *)
(* where the value ends, or clear j->ok where none does.                   *)
THEOREM WalkerIsGrammar == WalkSpec => []WalkIsGrammar
<1>1. reply \in Seq(Tokens) => WalkIsGrammar
  BY WalkerParses
<1> QED BY <1>1, Hearing, PTL

(* In an object of any members, json_get_string, json_get_number,          *)
(* json_get_bool and json_get_object_raw decode the value of the first     *)
(* member of the object itself that has the name and the kind, and none if *)
(* there is no such member.                                                *)
THEOREM LookupsFindFirst == WalkSpec => []LookupIsFirst
<1>1. reply \in Seq(Tokens) => LookupIsFirst
  BY LookupsFind
<1> QED BY <1>1, Hearing, PTL

(* The replies of JsonWire are those of JsonWalk, so that what is proved   *)
(* of these above is so there too.                                         *)
LEMMA WireWalks == WireSpec => WalkSpec
<1>1. WireInit => WalkInit
  BY DEF WireInit
<1>2. [WireNext]_wire => [WalkNext]_reply
  BY DEF WireNext, wire, Post, Arrive, WalkNext
<1> QED BY <1>1, <1>2, PTL DEF WireSpec, WalkSpec

-----------------------------------------------------------------------------
(* v stands in t, from i on.                                               *)
Stands(v, t, i) ==
    /\ t \in Seq(Tokens) /\ i \in 1 .. Len(t) + 1 /\ i + Len(v) <= Len(t) + 1
    /\ \A k \in 1 .. Len(v) : t[i + k - 1] = v[k]

(* What a body is made of: whole values; what goes on in an array, or has  *)
(* begun as one; an object that has begun; and more of its members.  Each  *)
(* says how far it takes the cursor, wherever it stands.                   *)
Whole(v) ==
    /\ v \in Seq(Tokens) /\ v # << >> /\ v[1] # EndArray
    /\ \A t, i : Stands(v, t, i) => Walk(t)[<< "value", i >>] = i + Len(v)

Elements(v) ==
    /\ v \in Seq(Tokens) /\ v # << >> /\ v[1] # EndArray
    /\ \A t, i : Stands(v, t, i) =>
          Walk(t)[<< "elements", i >>]
             = Continued(t, Walk(t), "elements", i + Len(v), EndArray)

OpenArray(v) ==
    /\ v \in Seq(Tokens) /\ v # << >> /\ v[1] = BeginArray
    /\ \A t, i : Stands(v, t, i) =>
          Walk(t)[<< "value", i >>] = Continued(t, Walk(t), "elements", i + Len(v), EndArray)

OpenObject(v) ==
    /\ v \in Seq(Tokens) /\ v # << >> /\ v[1] = BeginObject
    /\ \A t, i : Stands(v, t, i) =>
          Walk(t)[<< "value", i >>] = Continued(t, Walk(t), "members", i + Len(v), EndObject)

Members(m) == m \in Seq(Tokens) /\ \A v : OpenObject(v) => OpenObject(v \o m)

LEMMA Joined ==
    ASSUME NEW v \in Seq(Tokens), NEW w \in Seq(Tokens)
    PROVE  /\ v \o w \in Seq(Tokens) /\ Len(v \o w) = Len(v) + Len(w)
           /\ \A k \in 1 .. Len(v) : (v \o w)[k] = v[k]
           /\ \A k \in 1 .. Len(w) : (v \o w)[Len(v) + k] = w[k]
           /\ v # << >> => v \o w # << >> /\ (v \o w)[1] = v[1]
<1>1. v \o w \in Seq(Tokens) /\ Len(v \o w) = Len(v) + Len(w)
  OBVIOUS
<1>2. \A k \in 1 .. Len(v) : (v \o w)[k] = v[k]
  OBVIOUS
<1>3. \A k \in 1 .. Len(w) : (v \o w)[Len(v) + k] = w[k]
  OBVIOUS
<1>4. v # << >> => v \o w # << >> /\ (v \o w)[1] = v[1]
  <2> SUFFICES ASSUME v # << >> PROVE v \o w # << >> /\ (v \o w)[1] = v[1]
    OBVIOUS
  <2>1. 1 \in 1 .. Len(v)
    OBVIOUS
  <2>2. Len(v \o w) # 0
    BY <1>1, <2>1
  <2> QED BY <1>2, <2>1, <2>2
<1> QED BY <1>1, <1>2, <1>3, <1>4

LEMMA StandsBoth ==
    ASSUME NEW v \in Seq(Tokens), NEW w \in Seq(Tokens), NEW t, NEW i, Stands(v \o w, t, i)
    PROVE  /\ t \in Seq(Tokens) /\ i \in 1 .. Len(t) + 1 /\ i + Len(v) \in 1 .. Len(t) + 1
           /\ Stands(v, t, i) /\ Stands(w, t, i + Len(v))
           /\ i + Len(v \o w) = i + Len(v) + Len(w)
<1>1. /\ t \in Seq(Tokens) /\ i \in 1 .. Len(t) + 1 /\ i + Len(v \o w) <= Len(t) + 1
      /\ \A k \in 1 .. Len(v \o w) : t[i + k - 1] = (v \o w)[k]
  BY DEF Stands
<1>2. /\ Len(v \o w) = Len(v) + Len(w) /\ Len(v) \in Nat /\ Len(w) \in Nat
      /\ \A k \in 1 .. Len(v) : (v \o w)[k] = v[k]
      /\ \A k \in 1 .. Len(w) : (v \o w)[Len(v) + k] = w[k]
  BY Joined
<1>3. i \in Nat /\ Len(t) \in Nat
  BY <1>1
<1>4. Stands(v, t, i)
  <2>1. \A k \in 1 .. Len(v) : k \in 1 .. Len(v \o w)
    BY <1>2
  <2>2. i + Len(v) <= Len(t) + 1
    BY <1>1, <1>2, <1>3
  <2>3. \A k \in 1 .. Len(v) : t[i + k - 1] = v[k]
    BY <1>1, <1>2, <2>1
  <2> QED BY <1>1, <2>2, <2>3 DEF Stands
<1>5. i + Len(v) \in 1 .. Len(t) + 1
  BY <1>1, <1>2, <1>3
<1>6. Stands(w, t, i + Len(v))
  <2>1. ASSUME NEW k \in 1 .. Len(w) PROVE t[i + Len(v) + k - 1] = w[k]
    <3>1. Len(v) + k \in 1 .. Len(v \o w) /\ i + (Len(v) + k) - 1 = i + Len(v) + k - 1
      BY <1>2, <1>3
    <3>2. t[i + (Len(v) + k) - 1] = (v \o w)[Len(v) + k]
      BY <1>1, <3>1
    <3> QED BY <1>2, <3>1, <3>2
  <2>2. i + Len(v) + Len(w) <= Len(t) + 1
    BY <1>1, <1>2, <1>3
  <2> QED BY <1>1, <1>5, <2>1, <2>2 DEF Stands
<1>7. i + Len(v \o w) = i + Len(v) + Len(w)
  BY <1>2, <1>3
<1> QED BY <1>1, <1>4, <1>5, <1>6, <1>7

LEMMA StandsOne ==
    ASSUME NEW token \in Tokens, NEW t, NEW i, Stands(<< token >>, t, i)
    PROVE  /\ t \in Seq(Tokens) /\ i \in 1 .. Len(t) /\ At(t, i) = token
           /\ i + 1 \in 1 .. Len(t) + 1 /\ i + Len(<< token >>) = i + 1
<1>1. Len(<< token >>) = 1 /\ << token >>[1] = token
  OBVIOUS
<1>2. /\ t \in Seq(Tokens) /\ i \in 1 .. Len(t) + 1 /\ i + 1 <= Len(t) + 1
      /\ t[i + 1 - 1] = token
  BY <1>1 DEF Stands
<1>3. i \in 1 .. Len(t)
  BY <1>2
<1>4. i + 1 - 1 = i
  BY <1>3
<1>5. At(t, i) = token
  BY <1>2, <1>3, <1>4 DEF At
<1>6. i + 1 \in 1 .. Len(t) + 1
  BY <1>2
<1> QED BY <1>1, <1>2, <1>3, <1>5, <1>6

LEMMA WalkOn ==
    ASSUME NEW t \in Seq(Tokens), NEW i \in 1 .. Len(t) + 1
    PROVE  /\ Walk(t)[<< "elements", i >>]
                = Continued(t, Walk(t), "elements", Walk(t)[<< "value", i >>], EndArray)
           /\ IsKey(t, i) =>
                Walk(t)[<< "members", i >>]
                  = Continued(t, Walk(t), "members", Walk(t)[<< "value", i + 2 >>], EndObject)
           /\ At(t, i) \in Scalars => Walk(t)[<< "value", i >>] = i + 1
           /\ At(t, i) = BeginArray =>
                Walk(t)[<< "value", i >>] = Opened(t, Walk(t), i, "elements", EndArray)
           /\ At(t, i) = BeginObject =>
                Walk(t)[<< "value", i >>] = Opened(t, Walk(t), i, "members", EndObject)
<1> DEFINE w == Walk(t)
<1>1. \A sort \in Sorts : w[<< sort, i >>] = Step(t, w, sort, i)
  BY Walked
<1> HIDE DEF w
<1>2. /\ w[<< "elements", i >>] = Step(t, w, "elements", i)
      /\ w[<< "members", i >>] = Step(t, w, "members", i)
      /\ w[<< "value", i >>] = Step(t, w, "value", i)
  BY <1>1 DEF Sorts
<1>3. /\ w[<< "elements", i >>]
           = Continued(t, w, "elements", w[<< "value", i >>], EndArray)
      /\ IsKey(t, i) => w[<< "members", i >>]
           = Continued(t, w, "members", w[<< "value", i + 2 >>], EndObject)
  BY <1>2, Steps
<1>4. At(t, i) \in Scalars => w[<< "value", i >>] = i + 1
  BY <1>2, Steps
<1>5. /\ At(t, i) = BeginArray => w[<< "value", i >>] = Opened(t, w, i, "elements", EndArray)
      /\ At(t, i) = BeginObject => w[<< "value", i >>] = Opened(t, w, i, "members", EndObject)
  BY <1>2, Steps, TokenFacts
<1> QED BY <1>3, <1>4, <1>5 DEF w

LEMMA AreTokens ==
    /\ Scalars \subseteq Tokens /\ Names \subseteq Scalars /\ Numbers \subseteq Scalars
    /\ Marks \subseteq Tokens /\ Unknown \in Tokens
    /\ BeginArray \in Tokens /\ EndArray \in Tokens /\ BeginObject \in Tokens
    /\ EndObject \in Tokens /\ NameSeparator \in Tokens /\ ValueSeparator \in Tokens
BY Zenon DEF Scalars, Tokens, Marks

LEMMA ScalarsAreWhole == ASSUME NEW x \in Scalars PROVE Whole(<< x >>)
<1>1. x \in Tokens /\ x # EndArray
  BY AreTokens, TokenFacts
<1>2. ASSUME NEW t, NEW i, Stands(<< x >>, t, i)
      PROVE  Walk(t)[<< "value", i >>] = i + Len(<< x >>)
  <2>1. /\ t \in Seq(Tokens) /\ i \in 1 .. Len(t) /\ At(t, i) = x
        /\ i + Len(<< x >>) = i + 1
    BY <1>1, <1>2, StandsOne
  <2>2. i \in 1 .. Len(t) + 1
    BY <2>1
  <2> QED BY <2>1, <2>2, WalkOn
<1>3. << x >> \in Seq(Tokens) /\ << x >> # << >> /\ << x >>[1] = x
  BY <1>1
<1> QED BY <1>1, <1>2, <1>3 DEF Whole

(* The three tokens in front of the value of a member.                     *)
LEMMA StandsLabel ==
    ASSUME NEW mark \in Tokens, NEW key \in Names, NEW x \in Seq(Tokens), NEW t, NEW i,
           Stands(<< mark, key, NameSeparator >> \o x, t, i)
    PROVE  /\ t \in Seq(Tokens) /\ i \in 1 .. Len(t) /\ At(t, i) = mark
           /\ i + 1 \in 1 .. Len(t) + 1 /\ IsKey(t, i + 1) /\ At(t, i + 1) = key
           /\ i + 3 \in 1 .. Len(t) + 1 /\ Stands(x, t, i + 3)
           /\ i + Len(<< mark, key, NameSeparator >> \o x) = i + 3 + Len(x)
<1> DEFINE label == << mark, key, NameSeparator >>
<1>1. label \in Seq(Tokens) /\ Len(label) = 3
      /\ label[1] = mark /\ label[2] = key /\ label[3] = NameSeparator
  <2>1. key \in Tokens /\ NameSeparator \in Tokens
    BY AreTokens
  <2> QED BY <2>1
<1> HIDE DEF label
<1>2. /\ t \in Seq(Tokens) /\ i \in 1 .. Len(t) + 1 /\ i + 3 \in 1 .. Len(t) + 1
      /\ Stands(label, t, i) /\ Stands(x, t, i + 3)
      /\ i + Len(label \o x) = i + 3 + Len(x)
  <2>1. Stands(label \o x, t, i)
    BY DEF label
  <2>2. /\ t \in Seq(Tokens) /\ i \in 1 .. Len(t) + 1 /\ i + Len(label) \in 1 .. Len(t) + 1
        /\ Stands(label, t, i) /\ Stands(x, t, i + Len(label))
        /\ i + Len(label \o x) = i + Len(label) + Len(x)
    <3>1. label \in Seq(Tokens)
      BY <1>1
    <3> QED BY <2>1, <3>1, StandsBoth
  <2> QED BY <1>1, <2>2
<1>3. /\ i \in 1 .. Len(t) /\ i + 1 \in 1 .. Len(t) /\ i + 2 \in 1 .. Len(t)
      /\ i + 1 - 1 = i /\ i + 2 - 1 = i + 1 /\ i + 3 - 1 = i + 2 /\ i + 1 + 1 = i + 2
  BY <1>2
<1>4. t[i] = mark /\ t[i + 1] = key /\ t[i + 2] = NameSeparator
  <2>1. \A k \in 1 .. Len(label) : t[i + k - 1] = label[k]
    BY <1>2 DEF Stands
  <2>2. 1 \in 1 .. Len(label) /\ 2 \in 1 .. Len(label) /\ 3 \in 1 .. Len(label)
    BY <1>1
  <2>3. t[i + 1 - 1] = label[1] /\ t[i + 2 - 1] = label[2] /\ t[i + 3 - 1] = label[3]
    BY <2>1, <2>2
  <2> QED BY <1>1, <1>3, <2>3
<1>5. At(t, i) = mark /\ At(t, i + 1) = key /\ At(t, i + 2) = NameSeparator
  <2>1. DOMAIN t = 1 .. Len(t)
    BY <1>2
  <2> QED BY <1>3, <1>4, <2>1 DEF At
<1>6. IsKey(t, i + 1)
  BY <1>3, <1>5 DEF IsKey
<1>7. i + 1 \in 1 .. Len(t) + 1
  BY <1>2
<1> QED BY <1>2, <1>3, <1>5, <1>6, <1>7 DEF label

LEMMA ObjectOpens ==
    ASSUME NEW key \in Names, NEW x, Whole(x)
    PROVE  OpenObject(First(key, x))
<1> DEFINE v == First(key, x)
<1>1. x \in Seq(Tokens)
  BY DEF Whole
<1>2. v \in Seq(Tokens) /\ v # << >> /\ v[1] = BeginObject
  <2>1. << BeginObject, key, NameSeparator >> \in Seq(Tokens)
        /\ << BeginObject, key, NameSeparator >> # << >>
        /\ << BeginObject, key, NameSeparator >>[1] = BeginObject
    BY AreTokens
  <2> QED BY <1>1, <2>1, Joined DEF First
<1>3. ASSUME NEW t, NEW i, Stands(v, t, i)
      PROVE  Walk(t)[<< "value", i >>]
               = Continued(t, Walk(t), "members", i + Len(v), EndObject)
  <2>1. /\ t \in Seq(Tokens) /\ i \in 1 .. Len(t) /\ At(t, i) = BeginObject
        /\ i + 1 \in 1 .. Len(t) + 1 /\ IsKey(t, i + 1) /\ At(t, i + 1) = key
        /\ i + 3 \in 1 .. Len(t) + 1 /\ Stands(x, t, i + 3)
        /\ i + Len(v) = i + 3 + Len(x)
    BY <1>1, <1>3, AreTokens, StandsLabel DEF First
  <2>2. i \in 1 .. Len(t) + 1 /\ i + 1 + 2 = i + 3
    BY <2>1
  <2>3. Walk(t)[<< "value", i + 3 >>] = i + 3 + Len(x)
    BY <2>1 DEF Whole
  <2> DEFINE w == Walk(t)
  <2>4. w[<< "value", i >>] = Opened(t, w, i, "members", EndObject)
    BY <2>1, <2>2, WalkOn
  <2>5. w[<< "members", i + 1 >>]
          = Continued(t, w, "members", w[<< "value", i + 3 >>], EndObject)
    BY <2>1, <2>2, WalkOn
  <2>6. key # EndObject
    BY TokenFacts
  <2>7. w[<< "value", i + 3 >>] = i + Len(v)
    BY <2>1, <2>3
  <2> HIDE DEF w, v
  <2>8. w[<< "value", i >>] = w[<< "members", i + 1 >>]
    BY <2>1, <2>4, <2>6 DEF Opened
  <2>9. w[<< "value", i >>] = Continued(t, w, "members", i + Len(v), EndObject)
    BY <2>5, <2>7, <2>8
  <2> QED BY <2>9 DEF w
<1> QED BY <1>2, <1>3 DEF OpenObject

LEMMA MemberIsMore ==
    ASSUME NEW key \in Names, NEW x, Whole(x)
    PROVE  Members(Also(key, x))
<1> DEFINE m == Also(key, x)
<1>1. x \in Seq(Tokens)
  BY DEF Whole
<1>2. m \in Seq(Tokens)
  <2>1. << ValueSeparator, key, NameSeparator >> \in Seq(Tokens)
    BY AreTokens
  <2> QED BY <1>1, <2>1, Joined DEF Also
<1>3. ASSUME NEW v, OpenObject(v) PROVE OpenObject(v \o m)
  <2> DEFINE vm == v \o m
  <2>1. v \in Seq(Tokens) /\ v # << >> /\ v[1] = BeginObject
    BY <1>3 DEF OpenObject
  <2>2. vm \in Seq(Tokens) /\ vm # << >> /\ vm[1] = BeginObject
    BY <1>2, <2>1, Joined
  <2>3. ASSUME NEW t, NEW i, Stands(vm, t, i)
        PROVE  Walk(t)[<< "value", i >>]
                 = Continued(t, Walk(t), "members", i + Len(vm), EndObject)
    <3> DEFINE e == i + Len(v)
               w == Walk(t)
    <3>1. /\ t \in Seq(Tokens) /\ Stands(v, t, i) /\ Stands(m, t, e)
          /\ i + Len(vm) = e + Len(m)
      BY <1>2, <2>1, <2>3, StandsBoth
    <3>2. w[<< "value", i >>] = Continued(t, w, "members", e, EndObject)
      BY <1>3, <3>1 DEF OpenObject
    <3> HIDE DEF e, w, vm
    <3>3. /\ e \in 1 .. Len(t) /\ At(t, e) = ValueSeparator
          /\ e + 1 \in 1 .. Len(t) + 1 /\ IsKey(t, e + 1)
          /\ Stands(x, t, e + 3) /\ e + Len(m) = e + 3 + Len(x)
      BY <1>1, <3>1, AreTokens, StandsLabel DEF Also
    <3>4. e # Failed /\ e + 1 + 2 = e + 3
      BY <3>3 DEF Failed
    <3>5. w[<< "value", i >>] = w[<< "members", e + 1 >>]
      BY <3>2, <3>3, <3>4 DEF Continued
    <3>6. w[<< "value", e + 3 >>] = i + Len(vm)
      BY <3>1, <3>3 DEF Whole, w
    <3>7. w[<< "members", e + 1 >>]
            = Continued(t, w, "members", w[<< "value", e + 3 >>], EndObject)
      BY <3>1, <3>3, <3>4, WalkOn DEF w
    <3>8. w[<< "value", i >>] = Continued(t, w, "members", i + Len(vm), EndObject)
      BY <3>5, <3>6, <3>7
    <3> QED BY <3>8 DEF w
  <2> HIDE DEF vm
  <2>4. OpenObject(vm)
    BY <2>2, <2>3 DEF OpenObject
  <2> QED BY <2>4 DEF vm
<1> HIDE DEF m
<1>4. Members(m)
  BY <1>2, <1>3 DEF Members
<1> QED BY <1>4 DEF m

LEMMA NoMembers == Members(<< >>)
<1>1. << >> \in Seq(Tokens)
  OBVIOUS
<1>2. ASSUME NEW v, OpenObject(v) PROVE OpenObject(v \o << >>)
  <2>1. v \in Seq(Tokens)
    BY <1>2 DEF OpenObject
  <2>2. v \o << >> = v
    BY <2>1
  <2> QED BY <1>2, <2>2
<1> QED BY <1>1, <1>2 DEF Members

LEMMA MembersGiven ==
    ASSUME NEW condition \in BOOLEAN, NEW m, condition => Members(m)
    PROVE  Members(Given(condition, m))
BY NoMembers DEF Given

LEMMA MembersJoin ==
    ASSUME NEW m, NEW n, Members(m), Members(n)
    PROVE  Members(m \o n)
<1>1. m \in Seq(Tokens) /\ n \in Seq(Tokens)
  BY DEF Members
<1>2. m \o n \in Seq(Tokens)
  BY <1>1
<1>3. ASSUME NEW v, OpenObject(v) PROVE OpenObject(v \o (m \o n))
  <2>1. v \in Seq(Tokens)
    BY <1>3 DEF OpenObject
  <2>2. (v \o m) \o n = v \o (m \o n)
    BY <1>1, <2>1
  <2>3. OpenObject((v \o m) \o n)
    BY <1>3 DEF Members
  <2> QED BY <2>2, <2>3
<1> QED BY <1>2, <1>3 DEF Members

LEMMA GoesOnWith ==
    ASSUME NEW v, NEW m, OpenObject(v), Members(m)
    PROVE  OpenObject(v \o m)
BY DEF Members

(* A closing bracket behind what goes on only to close.                    *)
LEMMA Closes ==
    ASSUME NEW v \in Seq(Tokens), v # << >>, v[1] # EndArray, NEW sort \in Sorts,
           NEW close \in Tokens, close # ValueSeparator,
           \A t, i : Stands(v, t, i) =>
              Walk(t)[<< "value", i >>] = Continued(t, Walk(t), sort, i + Len(v), close)
    PROVE  Whole(v \o << close >>)
<1> DEFINE z == << close >>
           vz == v \o z
<1>1. z \in Seq(Tokens)
  OBVIOUS
<1>2. vz \in Seq(Tokens) /\ vz # << >> /\ vz[1] # EndArray
  BY <1>1, Joined
<1>3. ASSUME NEW t, NEW i, Stands(vz, t, i)
      PROVE  Walk(t)[<< "value", i >>] = i + Len(vz)
  <2> DEFINE e == i + Len(v)
             w == Walk(t)
  <2>1. /\ Stands(v, t, i) /\ Stands(z, t, e) /\ i + Len(vz) = e + Len(z)
    <3> HIDE DEF z
    <3> QED BY <1>1, <1>3, StandsBoth
  <2>2. w[<< "value", i >>] = Continued(t, w, sort, e, close)
    BY <2>1
  <2> HIDE DEF e, w, vz
  <2>3. /\ e \in 1 .. Len(t) /\ At(t, e) = close /\ e + Len(z) = e + 1
    BY <2>1, StandsOne DEF z
  <2>4. e # Failed
    BY <2>3 DEF Failed
  <2>5. Continued(t, w, sort, e, close) = e + 1
    BY <2>3, <2>4 DEF Continued
  <2> QED BY <2>1, <2>2, <2>3, <2>5 DEF w
<1> HIDE DEF vz
<1>4. Whole(vz)
  BY <1>2, <1>3 DEF Whole
<1> QED BY <1>4 DEF vz

LEMMA ObjectCloses ==
    ASSUME NEW v, OpenObject(v)
    PROVE  Whole(v \o End)
<1>1. /\ v \in Seq(Tokens) /\ v # << >> /\ v[1] # EndArray
      /\ EndObject \in Tokens /\ EndObject # ValueSeparator /\ "members" \in Sorts
  BY TokenFacts, AreTokens DEF OpenObject, Sorts
<1>2. \A t, i : Stands(v, t, i) =>
         Walk(t)[<< "value", i >>] = Continued(t, Walk(t), "members", i + Len(v), EndObject)
  BY DEF OpenObject
<1> HIDE DEF OpenObject
<1>3. Whole(v \o << EndObject >>)
  BY <1>1, <1>2, Closes
<1> QED BY <1>3 DEF End

LEMMA ArrayCloses ==
    ASSUME NEW v, OpenArray(v)
    PROVE  Whole(v \o << EndArray >>)
<1>1. /\ v \in Seq(Tokens) /\ v # << >> /\ v[1] # EndArray
      /\ EndArray \in Tokens /\ EndArray # ValueSeparator /\ "elements" \in Sorts
  BY TokenFacts, AreTokens DEF OpenArray, Sorts
<1>2. \A t, i : Stands(v, t, i) =>
         Walk(t)[<< "value", i >>] = Continued(t, Walk(t), "elements", i + Len(v), EndArray)
  BY DEF OpenArray
<1> QED BY <1>1, <1>2, Closes

LEMMA FirstOf ==
    ASSUME NEW v \in Seq(Tokens), v # << >>, NEW t, NEW i, Stands(v, t, i)
    PROVE  i \in 1 .. Len(t) /\ At(t, i) = v[1]
<1>1. Len(v) \in Nat /\ Len(v) # 0
  OBVIOUS
<1>2. t \in Seq(Tokens) /\ i \in 1 .. Len(t) + 1 /\ i + Len(v) <= Len(t) + 1
  BY DEF Stands
<1>3. i \in 1 .. Len(t) /\ 1 \in 1 .. Len(v) /\ i + 1 - 1 = i
  BY <1>1, <1>2
<1>4. t[i + 1 - 1] = v[1]
  BY <1>3 DEF Stands
<1>5. DOMAIN t = 1 .. Len(t)
  BY <1>2
<1> QED BY <1>3, <1>4, <1>5 DEF At

LEMMA WholeIsElement == ASSUME NEW v, Whole(v) PROVE Elements(v)
<1>1. v \in Seq(Tokens) /\ v # << >> /\ v[1] # EndArray
  BY DEF Whole
<1>2. ASSUME NEW t, NEW i, Stands(v, t, i)
      PROVE  Walk(t)[<< "elements", i >>]
               = Continued(t, Walk(t), "elements", i + Len(v), EndArray)
  <2>1. t \in Seq(Tokens) /\ i \in 1 .. Len(t) + 1
    BY <1>2 DEF Stands
  <2>2. Walk(t)[<< "value", i >>] = i + Len(v)
    BY <1>2 DEF Whole
  <2> QED BY <2>1, <2>2, WalkOn
<1> QED BY <1>1, <1>2 DEF Elements

(* Behind a comma, elements take the cursor on from where others left it.  *)
LEMMA CommaGoesOn ==
    ASSUME NEW a \in Seq(Tokens), NEW b, Elements(b), NEW t, NEW i,
           Stands(a \o << ValueSeparator >> \o b, t, i)
    PROVE  /\ Stands(a, t, i) /\ i \in 1 .. Len(t) + 1 /\ t \in Seq(Tokens)
           /\ Continued(t, Walk(t), "elements", i + Len(a), EndArray)
                = Continued(t, Walk(t), "elements",
                            i + Len(a \o << ValueSeparator >> \o b), EndArray)
<1> DEFINE z == << ValueSeparator >>
           az == a \o z
           e == i + Len(a)
           w == Walk(t)
<1>1. z \in Seq(Tokens) /\ b \in Seq(Tokens)
  BY AreTokens DEF Elements
<1> HIDE DEF z
<1>2. az \in Seq(Tokens)
  BY <1>1
<1> HIDE DEF az
<1>3. Stands(az \o b, t, i)
  BY DEF az, z
<1>4. /\ t \in Seq(Tokens) /\ i \in 1 .. Len(t) + 1
      /\ Stands(az, t, i) /\ Stands(b, t, i + Len(az))
      /\ i + Len(az \o b) = i + Len(az) + Len(b)
  BY <1>1, <1>2, <1>3, StandsBoth
<1>5. Stands(a, t, i) /\ Stands(z, t, e) /\ i + Len(az) = e + Len(z)
  BY <1>1, <1>4, StandsBoth DEF az
<1> HIDE DEF e, w
<1>6. e \in 1 .. Len(t) /\ At(t, e) = ValueSeparator /\ e + Len(z) = e + 1
  BY <1>5, AreTokens, StandsOne DEF z
<1>7. e # Failed
  BY <1>6 DEF Failed
<1>8. Continued(t, w, "elements", e, EndArray) = w[<< "elements", e + 1 >>]
  BY <1>6, <1>7 DEF Continued
<1>9. Stands(b, t, e + 1)
  BY <1>4, <1>5, <1>6
<1>10. w[<< "elements", e + 1 >>]
         = Continued(t, w, "elements", e + 1 + Len(b), EndArray)
  BY <1>9 DEF Elements, w
<1>11. i + Len(az \o b) = e + 1 + Len(b)
  BY <1>4, <1>5, <1>6
<1>12. Continued(t, w, "elements", e, EndArray)
         = Continued(t, w, "elements", i + Len(az \o b), EndArray)
  BY <1>8, <1>10, <1>11
<1> QED BY <1>4, <1>5, <1>12 DEF az, z, e, w

LEMMA ElementsJoin ==
    ASSUME NEW a, NEW b, Elements(a), Elements(b)
    PROVE  Elements(a \o << ValueSeparator >> \o b)
<1> DEFINE ab == a \o << ValueSeparator >> \o b
<1>1. /\ a \in Seq(Tokens) /\ a # << >> /\ a[1] # EndArray /\ b \in Seq(Tokens)
      /\ << ValueSeparator >> \in Seq(Tokens)
  BY AreTokens DEF Elements
<1>2. ab \in Seq(Tokens) /\ ab # << >> /\ ab[1] # EndArray
  <2>1. /\ a \o << ValueSeparator >> \in Seq(Tokens) /\ a \o << ValueSeparator >> # << >>
        /\ (a \o << ValueSeparator >>)[1] = a[1]
    BY <1>1, Joined
  <2> QED BY <1>1, <2>1, Joined
<1>3. ASSUME NEW t, NEW i, Stands(ab, t, i)
      PROVE  Walk(t)[<< "elements", i >>]
               = Continued(t, Walk(t), "elements", i + Len(ab), EndArray)
  <2>1. /\ Stands(a, t, i)
        /\ Continued(t, Walk(t), "elements", i + Len(a), EndArray)
             = Continued(t, Walk(t), "elements", i + Len(ab), EndArray)
    BY <1>1, <1>3, CommaGoesOn
  <2>2. Walk(t)[<< "elements", i >>]
          = Continued(t, Walk(t), "elements", i + Len(a), EndArray)
    BY <2>1 DEF Elements
  <2> QED BY <2>1, <2>2
<1> HIDE DEF ab
<1>4. Elements(ab)
  BY <1>2, <1>3 DEF Elements
<1> QED BY <1>4 DEF ab

LEMMA ArrayGoesOn ==
    ASSUME NEW a, NEW b, OpenArray(a), Elements(b)
    PROVE  OpenArray(a \o << ValueSeparator >> \o b)
<1> DEFINE ab == a \o << ValueSeparator >> \o b
<1>1. /\ a \in Seq(Tokens) /\ a # << >> /\ a[1] = BeginArray /\ b \in Seq(Tokens)
      /\ << ValueSeparator >> \in Seq(Tokens)
  BY AreTokens DEF Elements, OpenArray
<1>2. ab \in Seq(Tokens) /\ ab # << >> /\ ab[1] = BeginArray
  <2>1. /\ a \o << ValueSeparator >> \in Seq(Tokens) /\ a \o << ValueSeparator >> # << >>
        /\ (a \o << ValueSeparator >>)[1] = a[1]
    BY <1>1, Joined
  <2> QED BY <1>1, <2>1, Joined
<1>3. ASSUME NEW t, NEW i, Stands(ab, t, i)
      PROVE  Walk(t)[<< "value", i >>]
               = Continued(t, Walk(t), "elements", i + Len(ab), EndArray)
  <2>1. /\ Stands(a, t, i)
        /\ Continued(t, Walk(t), "elements", i + Len(a), EndArray)
             = Continued(t, Walk(t), "elements", i + Len(ab), EndArray)
    BY <1>1, <1>3, CommaGoesOn
  <2>2. Walk(t)[<< "value", i >>]
          = Continued(t, Walk(t), "elements", i + Len(a), EndArray)
    BY <2>1 DEF OpenArray
  <2> QED BY <2>1, <2>2
<1> HIDE DEF ab
<1>4. OpenArray(ab)
  BY <1>2, <1>3 DEF OpenArray
<1> QED BY <1>4 DEF ab

LEMMA StandsBracket ==
    ASSUME NEW b \in Seq(Tokens), NEW t, NEW i, Stands(<< BeginArray >> \o b, t, i)
    PROVE  /\ t \in Seq(Tokens) /\ i \in 1 .. Len(t) + 1 /\ i + 1 \in 1 .. Len(t) + 1
           /\ Stands(b, t, i + 1) /\ i + Len(<< BeginArray >> \o b) = i + 1 + Len(b)
           /\ Walk(t)[<< "value", i >>] = Opened(t, Walk(t), i, "elements", EndArray)
<1> DEFINE z == << BeginArray >>
<1>1. z \in Seq(Tokens)
  BY AreTokens
<1> HIDE DEF z
<1>2. Stands(z \o b, t, i)
  BY DEF z
<1>3. /\ t \in Seq(Tokens) /\ i \in 1 .. Len(t) + 1 /\ Stands(z, t, i)
      /\ Stands(b, t, i + Len(z)) /\ i + Len(z \o b) = i + Len(z) + Len(b)
  BY <1>1, <1>2, StandsBoth
<1>4. At(t, i) = BeginArray /\ i + 1 \in 1 .. Len(t) + 1 /\ i + Len(z) = i + 1
  BY <1>3, AreTokens, StandsOne DEF z
<1>5. Walk(t)[<< "value", i >>] = Opened(t, Walk(t), i, "elements", EndArray)
  BY <1>3, <1>4, WalkOn
<1>6. Stands(b, t, i + 1) /\ i + Len(z \o b) = i + 1 + Len(b)
  BY <1>3, <1>4
<1> QED BY <1>3, <1>4, <1>5, <1>6 DEF z

LEMMA ArrayOpens ==
    ASSUME NEW b, Elements(b)
    PROVE  OpenArray(<< BeginArray >> \o b)
<1> DEFINE ab == << BeginArray >> \o b
<1>1. b \in Seq(Tokens) /\ b # << >> /\ b[1] # EndArray
  BY DEF Elements
<1>2. ab \in Seq(Tokens) /\ ab # << >> /\ ab[1] = BeginArray
  <2>1. /\ << BeginArray >> \in Seq(Tokens) /\ << BeginArray >> # << >>
        /\ << BeginArray >>[1] = BeginArray
    BY AreTokens
  <2> QED BY <1>1, <2>1, Joined
<1>3. ASSUME NEW t, NEW i, Stands(ab, t, i)
      PROVE  Walk(t)[<< "value", i >>]
               = Continued(t, Walk(t), "elements", i + Len(ab), EndArray)
  <2> DEFINE w == Walk(t)
  <2>1. /\ Stands(b, t, i + 1) /\ i + Len(ab) = i + 1 + Len(b)
        /\ w[<< "value", i >>] = Opened(t, w, i, "elements", EndArray)
    BY <1>1, <1>3, StandsBracket
  <2>2. w[<< "elements", i + 1 >>]
          = Continued(t, w, "elements", i + 1 + Len(b), EndArray)
    BY <2>1 DEF Elements
  <2>3. At(t, i + 1) # EndArray
    BY <1>1, <2>1, FirstOf
  <2> HIDE DEF w, ab
  <2>4. w[<< "value", i >>] = w[<< "elements", i + 1 >>]
    BY <2>1, <2>3 DEF Opened
  <2> QED BY <2>1, <2>2, <2>4 DEF w
<1> HIDE DEF ab
<1>4. OpenArray(ab)
  BY <1>2, <1>3 DEF OpenArray
<1> QED BY <1>4 DEF ab

LEMMA EmptyIsWhole == Whole(<< BeginArray >> \o << EndArray >>)
<1> DEFINE b == << EndArray >>
           ab == << BeginArray >> \o b
<1>1. b \in Seq(Tokens)
  BY AreTokens
<1>2. ab \in Seq(Tokens) /\ ab # << >> /\ ab[1] # EndArray
  <2>1. << BeginArray >> \in Seq(Tokens) /\ << BeginArray >> # << >>
        /\ << BeginArray >>[1] # EndArray
    BY AreTokens, TokenFacts
  <2> HIDE DEF b
  <2> QED BY <1>1, <2>1, Joined
<1>3. ASSUME NEW t, NEW i, Stands(ab, t, i)
      PROVE  Walk(t)[<< "value", i >>] = i + Len(ab)
  <2>1. /\ i \in 1 .. Len(t) + 1 /\ Stands(b, t, i + 1) /\ i + Len(ab) = i + 1 + Len(b)
        /\ Walk(t)[<< "value", i >>] = Opened(t, Walk(t), i, "elements", EndArray)
    <3> HIDE DEF b
    <3> QED BY <1>1, <1>3, StandsBracket
  <2>2. At(t, i + 1) = EndArray /\ i + 1 + Len(b) = i + 1 + 1
    BY <2>1, AreTokens, StandsOne
  <2>3. Walk(t)[<< "value", i >>] = i + 2
    BY <2>1, <2>2 DEF Opened
  <2>4. i + 1 + 1 = i + 2
    BY <2>1
  <2> HIDE DEF ab, b
  <2> QED BY <2>1, <2>2, <2>3, <2>4
<1> HIDE DEF ab
<1>4. Whole(ab)
  BY <1>2, <1>3 DEF Whole
<1> QED BY <1>4 DEF ab

LEMMA Mapped ==
    ASSUME NEW S, NEW s \in Seq(S), NEW parts, parts = [i \in DOMAIN s |-> parts[i]],
           NEW T, \A i \in 1 .. Len(s) : parts[i] \in T
    PROVE  parts \in Seq(T) /\ Len(parts) = Len(s)
<1>1. DOMAIN s = 1 .. Len(s) /\ Len(s) \in Nat
  OBVIOUS
<1>2. parts \in [1 .. Len(s) -> T]
  BY <1>1
<1>3. parts \in Seq(T)
  BY <1>1, <1>2, SeqDef
<1> QED BY <1>1, <1>2, <1>3

UpTo(parts, f) ==
    /\ f \in [0 .. Len(parts) -> Seq(Tokens)] /\ f[0] = << BeginArray >>
    /\ \A n \in 1 .. Len(parts) : f[n] = More(parts, f[n - 1], n)
    /\ List(parts) = f[Len(parts)] \o << EndArray >>

LEMMA ListLoops ==
    ASSUME NEW parts \in Seq(Seq(Tokens))
    PROVE  \E f : UpTo(parts, f)
<1> DEFINE N == Len(parts)
           zero == << BeginArray >>
           next == [vk \in Seq(Tokens) \X (1 .. N) |-> More(parts, vk[1], vk[2])]
<1>1. N \in Nat /\ zero \in Seq(Tokens) /\ << ValueSeparator >> \in Seq(Tokens)
  BY AreTokens
<1>2. ASSUME NEW v \in Seq(Tokens), NEW k \in 1 .. N
      PROVE  More(parts, v, k) \in Seq(Tokens) /\ next[<< v, k >>] = More(parts, v, k)
  <2>1. parts[k] \in Seq(Tokens) /\ k # 0
    OBVIOUS
  <2>2. Given(k > 1, << ValueSeparator >>) \in Seq(Tokens)
    BY <1>1 DEF Given
  <2>3. More(parts, v, k) \in Seq(Tokens)
    <3> DEFINE g == Given(k > 1, << ValueSeparator >>)
               q == parts[k]
    <3>1. More(parts, v, k) = v \o g \o q
      BY <2>1 DEF More
    <3>2. g \in Seq(Tokens) /\ q \in Seq(Tokens)
      BY <2>1, <2>2
    <3> HIDE DEF g, q
    <3> QED BY <3>1, <3>2
  <2> QED BY <2>3
<1>3. next \in [Seq(Tokens) \X (1 .. N) -> Seq(Tokens)]
  <2> DEFINE body(v, k) == More(parts, v, k)
  <2>1. \A v \in Seq(Tokens), k \in 1 .. N : body(v, k) \in Seq(Tokens)
    BY <1>2
  <2>2. next = [vk \in Seq(Tokens) \X (1 .. N) |-> body(vk[1], vk[2])]
    OBVIOUS
  <2> HIDE DEF next, body, N
  <2> QED BY <2>1, <2>2
<1> HIDE DEF N, next, zero
<1>4. Stepwise(Seq(Tokens), N, zero, next)
  BY <1>1, <1>3, StepByStep
<1>5. PICK f \in [0 .. N -> Seq(Tokens)] :
         f[0] = zero /\ \A k \in 1 .. N : f[k] = next[<< f[k - 1], k >>]
  BY <1>4 DEF Stepwise
<1>6. ASSUME NEW k \in 1 .. N PROVE f[k] = More(parts, f[k - 1], k)
  <2>1. f[k - 1] \in Seq(Tokens)
    BY <1>1
  <2> QED BY <1>2, <1>5, <2>1
<1>7. f = [n \in 0 .. N |-> More(parts, f[n - 1], n)]
  <2>1. ASSUME NEW n \in 0 .. N PROVE f[n] = More(parts, f[n - 1], n)
    <3>1. CASE n = 0
      BY <1>5, <3>1 DEF More, zero
    <3>2. CASE n # 0
      <4>1. n \in 1 .. N
        BY <1>1, <3>2
      <4> QED BY <1>6, <4>1
    <3> QED BY <3>1, <3>2
  <2> QED BY <2>1
<1> DEFINE upTo == CHOOSE g : g = [n \in 0 .. N |-> More(parts, g[n - 1], n)]
<1>8. upTo = [n \in 0 .. N |-> More(parts, upTo[n - 1], n)]
  BY <1>7
<1>9. List(parts) = upTo[N] \o << EndArray >>
  BY DEF List, N
<1> HIDE DEF upTo
<1>10. upTo[0] = zero
  BY <1>1, <1>8 DEF More, zero
<1>11. ASSUME NEW n \in 1 .. N PROVE upTo[n] = More(parts, upTo[n - 1], n)
  <2>1. n \in 0 .. N
    BY <1>1
  <2> QED BY <1>8, <2>1
<1> DEFINE P == {n \in Nat : n <= N => upTo[n] \in Seq(Tokens)}
<1>12. 0 \in P
  BY <1>1, <1>10
<1>13. ASSUME NEW n \in Nat, n \in P PROVE n + 1 \in P
  <2> SUFFICES ASSUME n + 1 <= N PROVE upTo[n + 1] \in Seq(Tokens)
    OBVIOUS
  <2>1. upTo[n] \in Seq(Tokens) /\ n + 1 \in 1 .. N /\ (n + 1) - 1 = n
    BY <1>1, <1>13
  <2>2. upTo[n + 1] = More(parts, upTo[n], n + 1)
    BY <1>11, <2>1
  <2> QED BY <1>2, <2>1, <2>2
<1>14. Nat \subseteq P
  <2> HIDE DEF P
  <2> QED BY <1>12, <1>13, Induct
<1>15. upTo \in [0 .. N -> Seq(Tokens)]
  <2>1. \A n \in 0 .. N : upTo[n] \in Seq(Tokens)
    BY <1>1, <1>14 DEF P
  <2> QED BY <1>8, <2>1
<1>16. UpTo(parts, upTo)
  BY <1>9, <1>10, <1>11, <1>15 DEF UpTo, N, zero
<1> QED BY <1>16

LEMMA ListIsWhole ==
    ASSUME NEW parts \in Seq(Seq(Tokens)), \A n \in 1 .. Len(parts) : Elements(parts[n])
    PROVE  Whole(List(parts))
<1>1. PICK f : UpTo(parts, f)
  BY ListLoops
<1> DEFINE N == Len(parts)
<1>2. /\ N \in Nat /\ f \in [0 .. N -> Seq(Tokens)] /\ f[0] = << BeginArray >>
      /\ \A n \in 1 .. N : f[n] = More(parts, f[n - 1], n)
      /\ List(parts) = f[N] \o << EndArray >>
      /\ \A n \in 1 .. N : Elements(parts[n])
  BY <1>1 DEF UpTo
<1> HIDE DEF N
<1>3. CASE N = 0
  BY <1>2, <1>3, EmptyIsWhole
<1>4. CASE N # 0
  <2> DEFINE P == {n \in Nat : n + 1 <= N => OpenArray(f[n + 1])}
  <2>1. 0 \in P
    <3>1. f[1] = More(parts, f[0], 1) /\ Elements(parts[1])
      <4>1. 1 \in 1 .. N /\ 1 - 1 = 0
        BY <1>2, <1>4
      <4> QED BY <1>2, <4>1
    <3>2. More(parts, f[0], 1) = << BeginArray >> \o parts[1]
      <4>1. << BeginArray >> \o << >> = << BeginArray >>
        OBVIOUS
      <4> QED BY <1>2, <4>1 DEF More, Given
    <3>3. OpenArray(f[1])
      BY <3>1, <3>2, ArrayOpens
    <3> QED BY <3>3
  <2>2. ASSUME NEW n \in Nat, n \in P PROVE n + 1 \in P
    <3> SUFFICES ASSUME n + 1 + 1 <= N PROVE OpenArray(f[n + 1 + 1])
      OBVIOUS
    <3>1. /\ OpenArray(f[n + 1]) /\ n + 1 + 1 \in 1 .. N /\ n + 1 + 1 - 1 = n + 1
          /\ n + 1 + 1 > 1 /\ n + 1 + 1 # 0
      BY <1>2, <2>2
    <3>2. f[n + 1 + 1] = More(parts, f[n + 1], n + 1 + 1) /\ Elements(parts[n + 1 + 1])
      BY <1>2, <3>1
    <3>3. f[n + 1 + 1] = f[n + 1] \o << ValueSeparator >> \o parts[n + 1 + 1]
      BY <3>1, <3>2 DEF More, Given
    <3>4. OpenArray(f[n + 1] \o << ValueSeparator >> \o parts[n + 1 + 1])
      BY <3>1, <3>2, ArrayGoesOn
    <3> QED BY <3>3, <3>4
  <2>3. Nat \subseteq P
    <3> HIDE DEF P
    <3> QED BY <2>1, <2>2, Induct
  <2>4. N - 1 \in Nat /\ N - 1 + 1 = N
    BY <1>2, <1>4
  <2>5. OpenArray(f[N])
    <3>1. \A n \in Nat : n \in P => OpenArray(f[n + 1]) \/ n + 1 > N
      BY <1>2
    <3> HIDE DEF P
    <3>2. OpenArray(f[N - 1 + 1]) \/ N - 1 + 1 > N
      BY <2>3, <2>4, <3>1
    <3> QED BY <1>2, <2>4, <3>2
  <2> QED BY <1>2, <2>5, ArrayCloses
<1> QED BY <1>3, <1>4

(* A value that stands on its own stands anywhere.                         *)
Shifted(v, t, i, s, k) ==
    Walk(v)[<< s, k >>] # Failed => Walk(t)[<< s, i + k - 1 >>] = i + Walk(v)[<< s, k >>] - 1

LEMMA AtShifted ==
    ASSUME NEW v \in Seq(Tokens), NEW t, NEW i, Stands(v, t, i), NEW k \in 1 .. Len(v) + 1
    PROVE  /\ At(v, k) # Nothing => At(t, i + k - 1) = At(v, k)
           /\ i + k - 1 \in 1 .. Len(t) + 1
<1>1. /\ t \in Seq(Tokens) /\ i \in 1 .. Len(t) + 1 /\ i + Len(v) <= Len(t) + 1
      /\ \A j \in 1 .. Len(v) : t[i + j - 1] = v[j]
  BY DEF Stands
<1>2. i + k - 1 \in 1 .. Len(t) + 1
  BY <1>1
<1>3. ASSUME At(v, k) # Nothing PROVE At(t, i + k - 1) = At(v, k)
  <2>1. k \in 1 .. Len(v)
    BY <1>3, TokenInside
  <2>2. i + k - 1 \in 1 .. Len(t)
    BY <1>1, <2>1
  <2>3. At(v, k) = v[k]
    BY <2>1 DEF At
  <2>4. DOMAIN t = 1 .. Len(t)
    BY <1>1
  <2>5. At(t, i + k - 1) = t[i + k - 1]
    BY <2>2, <2>4 DEF At
  <2>6. t[i + k - 1] = v[k]
    BY <1>1, <2>1
  <2> QED BY <2>3, <2>5, <2>6
<1> QED BY <1>2, <1>3

LEMMA ContinuedShifts ==
    ASSUME NEW v \in Seq(Tokens), NEW t, NEW i, Stands(v, t, i), NEW sort \in Sorts,
           NEW close \in {EndArray, EndObject}, NEW k \in 1 .. Len(v) + 1,
           NEW c \in k .. Len(v) + 1, Shifted(v, t, i, "value", c),
           \A l \in k + 1 .. Len(v) + 1 : Shifted(v, t, i, sort, l)
    PROVE  LET e == Continued(v, Walk(v), sort, Walk(v)[<< "value", c >>], close) IN
           e # Failed =>
              Continued(t, Walk(t), sort, Walk(t)[<< "value", i + c - 1 >>], close) = i + e - 1
<1> DEFINE x == Walk(v)
           y == Walk(t)
           a == x[<< "value", c >>]
           e == Continued(v, x, sort, a, close)
<1> SUFFICES ASSUME e # Failed
             PROVE  Continued(t, y, sort, y[<< "value", i + c - 1 >>], close) = i + e - 1
  OBVIOUS
<1>1. c \in 1 .. Len(v) + 1 /\ c >= k /\ "value" \in Sorts
  BY DEF Sorts
<1>2. a \in {Failed} \cup (c + 1 .. Len(v) + 1)
  BY <1>1, Walked
<1>3. a # Failed => y[<< "value", i + c - 1 >>] = i + a - 1
  BY DEF Shifted
<1>4. \A l \in k + 1 .. Len(v) + 1 :
         x[<< sort, l >>] # Failed => y[<< sort, i + l - 1 >>] = i + x[<< sort, l >>] - 1
  BY DEF Shifted
<1> HIDE DEF x, y, a
<1>5. a # Failed
  BY DEF Continued
<1>6. a \in 1 .. Len(v) + 1 /\ a >= k + 1
  BY <1>1, <1>2, <1>5
<1>7. /\ At(v, a) # Nothing => At(t, i + a - 1) = At(v, a)
      /\ i + a - 1 \in 1 .. Len(t) + 1
  BY <1>6, AtShifted
<1>8. i + a - 1 # Failed /\ i \in Nat
  BY <1>7 DEF Failed, Stands
<1>9. CASE At(v, a) = ValueSeparator
  <2>1. e = x[<< sort, a + 1 >>] /\ At(t, i + a - 1) = ValueSeparator
    BY <1>5, <1>7, <1>9, TokenFacts DEF Continued
  <2>2. a \in 1 .. Len(v)
    BY <1>6, <1>9, TokenFacts, TokenInside
  <2>3. a + 1 \in k + 1 .. Len(v) + 1
    BY <1>6, <2>2
  <2>4. y[<< sort, i + (a + 1) - 1 >>] = i + e - 1
    BY <1>4, <2>1, <2>3
  <2>5. i + (a + 1) - 1 = i + a - 1 + 1
    BY <1>6, <1>8
  <2>6. Continued(t, y, sort, i + a - 1, close) = y[<< sort, i + a - 1 + 1 >>]
    BY <1>8, <2>1 DEF Continued
  <2> HIDE DEF e
  <2> QED BY <1>3, <1>5, <2>4, <2>5, <2>6
<1>10. CASE At(v, a) # ValueSeparator
  <2>1. e = a + 1 /\ At(v, a) = close
    BY <1>5, <1>10 DEF Continued
  <2>2. At(t, i + a - 1) = close /\ close # ValueSeparator
    BY <1>7, <2>1, TokenFacts
  <2>3. Continued(t, y, sort, i + a - 1, close) = i + a - 1 + 1
    BY <1>8, <2>2 DEF Continued
  <2>4. i + a - 1 + 1 = i + (a + 1) - 1
    BY <1>6, <1>8
  <2> HIDE DEF e
  <2> QED BY <1>3, <1>5, <2>1, <2>3, <2>4
<1> QED BY <1>9, <1>10

LEMMA OpenedShifts ==
    ASSUME NEW v \in Seq(Tokens), NEW t, NEW i, Stands(v, t, i), NEW sort \in Sorts,
           NEW close \in {EndArray, EndObject}, NEW k \in 1 .. Len(v),
           sort # "value", Shifted(v, t, i, sort, k + 1)
    PROVE  LET e == Opened(v, Walk(v), k, sort, close) IN
           e # Failed => Opened(t, Walk(t), i + k - 1, sort, close) = i + e - 1
<1> DEFINE x == Walk(v)
           y == Walk(t)
           e == Opened(v, x, k, sort, close)
<1> SUFFICES ASSUME e # Failed PROVE Opened(t, y, i + k - 1, sort, close) = i + e - 1
  OBVIOUS
<1>1. x[<< sort, k + 1 >>] # Failed => y[<< sort, i + (k + 1) - 1 >>] = i + x[<< sort, k + 1 >>] - 1
  BY DEF Shifted
<1>2. k + 1 \in 1 .. Len(v) + 1 /\ i \in Nat
  BY DEF Stands
<1>3. At(v, k + 1) # Nothing => At(t, i + (k + 1) - 1) = At(v, k + 1)
  <2> DEFINE j == k + 1
  <2>1. j \in 1 .. Len(v) + 1
    BY <1>2
  <2> HIDE DEF j
  <2>2. At(v, j) # Nothing => At(t, i + j - 1) = At(v, j)
    BY <2>1, AtShifted
  <2> QED BY <2>2 DEF j
<1>4. i + (k + 1) - 1 = i + k - 1 + 1 /\ i + (k + 2) - 1 = i + k - 1 + 2
  BY <1>2
<1>5. close # Nothing
  BY TokenFacts
<1> HIDE DEF x, y
<1>6. CASE At(v, k + 1) = close
  <2>1. e = k + 2 /\ At(t, i + k - 1 + 1) = close
    BY <1>3, <1>4, <1>5, <1>6 DEF Opened
  <2> QED BY <1>4, <2>1 DEF Opened
<1>7. CASE At(v, k + 1) # close
  <2>1. e = x[<< sort, k + 1 >>]
    BY <1>7 DEF Opened
  <2>2. At(v, k + 1) # Nothing
    <3> SUFFICES ASSUME At(v, k + 1) = Nothing PROVE FALSE
      OBVIOUS
    <3>1. /\ Walk(v)[<< "elements", k + 1 >>] = Failed
          /\ Walk(v)[<< "members", k + 1 >>] = Failed
      BY <1>2, NoneBegins
    <3> QED BY <2>1, <3>1 DEF x, Sorts
  <2>3. At(t, i + k - 1 + 1) # close
    BY <1>3, <1>4, <1>7, <2>2
  <2>4. Opened(t, y, i + k - 1, sort, close) = y[<< sort, i + k - 1 + 1 >>]
    BY <2>3 DEF Opened
  <2> HIDE DEF e
  <2> QED BY <1>1, <1>4, <2>1, <2>4
<1> QED BY <1>6, <1>7

LEMMA StepShifts ==
    ASSUME NEW v \in Seq(Tokens), NEW t, NEW i, Stands(v, t, i), NEW s \in Sorts,
           NEW k \in 1 .. Len(v) + 1,
           \A q \in Sorts, l \in k + 1 .. Len(v) + 1 : Shifted(v, t, i, q, l),
           s # "value" => Shifted(v, t, i, "value", k)
    PROVE  Shifted(v, t, i, s, k)
<1> DEFINE x == Walk(v)
           y == Walk(t)
           j == i + k - 1
<1> SUFFICES ASSUME x[<< s, k >>] # Failed PROVE y[<< s, j >>] = i + x[<< s, k >>] - 1
  BY DEF Shifted
<1>1. /\ t \in Seq(Tokens) /\ j \in 1 .. Len(t) + 1
      /\ At(v, k) # Nothing => At(t, j) = At(v, k)
  <2>1. t \in Seq(Tokens)
    BY DEF Stands
  <2> QED BY <2>1, AtShifted
<1>2. x[<< s, k >>] = Step(v, x, s, k) /\ y[<< s, j >>] = Step(t, y, s, j)
  BY <1>1, Walked
<1>3. /\ "elements" \in Sorts /\ "members" \in Sorts
      /\ "elements" # "value" /\ "members" # "value"
  BY DEF Sorts
<1>4. i \in Nat /\ k \in Nat /\ Len(v) \in Nat
  BY DEF Stands
<1>5. CASE s = "elements"
  <2> DEFINE e == Continued(v, x, s, x[<< "value", k >>], EndArray)
  <2>1. x[<< s, k >>] = e /\ y[<< s, j >>] = Continued(t, y, s, y[<< "value", j >>], EndArray)
    BY <1>2, <1>5, Steps
  <2>2. k \in k .. Len(v) + 1 /\ EndArray \in {EndArray, EndObject}
    BY <1>4
  <2>3. e # Failed => Continued(t, y, s, y[<< "value", j >>], EndArray) = i + e - 1
    BY <1>3, <1>5, <2>2, ContinuedShifts
  <2> HIDE DEF e, x, y, j
  <2> QED BY <2>1, <2>3
<1>6. CASE s = "members"
  <2> DEFINE e == Continued(v, x, s, x[<< "value", k + 2 >>], EndObject)
  <2>1. x[<< s, k >>] = IF IsKey(v, k) THEN e ELSE Failed
    BY <1>2, <1>6, Steps
  <2>2. IsKey(v, k) /\ x[<< s, k >>] = e
    BY <2>1
  <2>3. At(v, k) \in Names /\ At(v, k + 1) = NameSeparator
    BY <2>2 DEF IsKey
  <2>4. At(v, k) # Nothing /\ At(v, k + 1) # Nothing
    BY <2>3, TokenFacts
  <2> DEFINE l == k + 1
             c == k + 2
  <2>5. l \in 1 .. Len(v)
    BY <1>4, <2>4, TokenInside
  <2>6. /\ l \in 1 .. Len(v) + 1 /\ c \in k .. Len(v) + 1 /\ c \in k + 1 .. Len(v) + 1
        /\ i + l - 1 = j + 1 /\ i + c - 1 = j + 2
    BY <1>4, <2>5
  <2>7. At(t, j + 1) = At(v, l)
    <3>1. At(v, l) # Nothing
      BY <2>4
    <3> HIDE DEF l
    <3>2. At(t, i + l - 1) = At(v, l)
      BY <2>6, <3>1, AtShifted
    <3> QED BY <2>6, <3>2
  <2>8. IsKey(t, j)
    BY <1>1, <2>3, <2>4, <2>7 DEF IsKey
  <2>9. y[<< s, j >>] = Continued(t, y, s, y[<< "value", j + 2 >>], EndObject)
    BY <1>2, <1>6, <2>8, Steps
  <2> HIDE DEF c, j, x, y
  <2>10. Shifted(v, t, i, "value", c)
    BY <2>6 DEF Sorts
  <2>11. x[<< s, k >>] = Continued(v, x, s, x[<< "value", c >>], EndObject)
    BY <2>2 DEF c
  <2>12. Continued(t, y, s, y[<< "value", i + c - 1 >>], EndObject) = i + x[<< s, k >>] - 1
    BY <2>6, <2>10, <2>11, ContinuedShifts DEF x, y
  <2> QED BY <2>6, <2>9, <2>12
<1>7. CASE s = "value"
  <2>1. x[<< s, k >>] = IF At(v, k) \in Scalars THEN k + 1
                        ELSE IF At(v, k) = BeginArray THEN Opened(v, x, k, "elements", EndArray)
                        ELSE IF At(v, k) = BeginObject THEN Opened(v, x, k, "members", EndObject)
                        ELSE Failed
    BY <1>2, <1>7, Steps
  <2>2. y[<< s, j >>] = IF At(t, j) \in Scalars THEN j + 1
                        ELSE IF At(t, j) = BeginArray THEN Opened(t, y, j, "elements", EndArray)
                        ELSE IF At(t, j) = BeginObject THEN Opened(t, y, j, "members", EndObject)
                        ELSE Failed
    BY <1>2, <1>7, Steps
  <2>3. At(v, k) # Nothing
    BY <2>1, TokenFacts
  <2>4. At(t, j) = At(v, k) /\ k \in 1 .. Len(v)
    BY <1>1, <2>3, TokenInside
  <2>5. k + 1 \in k + 1 .. Len(v) + 1
    BY <2>4
  <2>6. Shifted(v, t, i, "elements", k + 1) /\ Shifted(v, t, i, "members", k + 1)
    BY <1>3, <2>5
  <2>7. /\ Opened(v, x, k, "elements", EndArray) # Failed =>
             Opened(t, y, j, "elements", EndArray) = i + Opened(v, x, k, "elements", EndArray) - 1
        /\ Opened(v, x, k, "members", EndObject) # Failed =>
             Opened(t, y, j, "members", EndObject) = i + Opened(v, x, k, "members", EndObject) - 1
    BY <1>3, <2>4, <2>6, OpenedShifts
  <2>8. j + 1 = i + (k + 1) - 1
    BY <1>4
  <2> HIDE DEF x, y, j
  <2>9. CASE At(v, k) \in Scalars
    BY <2>1, <2>2, <2>4, <2>8, <2>9
  <2>10. CASE At(v, k) = BeginArray
    BY <2>1, <2>2, <2>4, <2>7, <2>10, TokenFacts
  <2>11. CASE At(v, k) = BeginObject
    BY <2>1, <2>2, <2>4, <2>7, <2>11, TokenFacts
  <2> QED BY <2>1, <2>9, <2>10, <2>11
<1> QED BY <1>5, <1>6, <1>7 DEF Sorts

LEMMA AllShifted ==
    ASSUME NEW v \in Seq(Tokens), NEW t, NEW i, Stands(v, t, i), NEW s \in Sorts,
           NEW k \in 1 .. Len(v) + 1
    PROVE  Shifted(v, t, i, s, k)
<1> DEFINE D == Places(v)
           rank == [d \in D |-> Rank(v, d[1], d[2])]
           P == {d \in D : Shifted(v, t, i, d[1], d[2])}
<1>1. \A r \in Sorts, l \in 1 .. Len(v) + 1 :
         /\ << r, l >> \in D /\ << r, l >>[1] = r /\ << r, l >>[2] = l
         /\ rank[<< r, l >>] = Rank(v, r, l)
  BY DEF Places
<1>2. rank \in [D -> Nat]
  <2>1. \A d \in D : d[1] \in Sorts /\ d[2] \in 1 .. Len(v) + 1
    BY DEF Places
  <2>2. \A r \in Sorts, l \in 1 .. Len(v) + 1 : Rank(v, r, l) \in Nat
    BY DEF Rank
  <2> HIDE DEF D
  <2> QED BY <2>1, <2>2
<1>3. ASSUME NEW d \in D, \A c \in D : rank[c] < rank[d] => c \in P
      PROVE  d \in P
  <2>1. PICK r \in Sorts, l \in 1 .. Len(v) + 1 : d = << r, l >>
    BY DEF Places
  <2> HIDE DEF D, rank
  <2>2. ASSUME NEW q \in Sorts, NEW m \in 1 .. Len(v) + 1, Rank(v, q, m) < Rank(v, r, l)
        PROVE  Shifted(v, t, i, q, m)
    <3>1. << q, m >> \in P
      BY <1>1, <1>3, <2>1, <2>2
    <3> QED BY <1>1, <3>1
  <2>3. ASSUME NEW q \in Sorts, NEW m \in l + 1 .. Len(v) + 1 PROVE Shifted(v, t, i, q, m)
    <3>1. m \in 1 .. Len(v) + 1 /\ Len(v) \in Nat /\ l < m
      OBVIOUS
    <3>2. Rank(v, q, m) < Rank(v, r, l)
      BY <3>1 DEF Rank
    <3> QED BY <2>2, <3>1, <3>2
  <2>4. r # "value" => Shifted(v, t, i, "value", l)
    <3> SUFFICES ASSUME r # "value" PROVE Shifted(v, t, i, "value", l)
      OBVIOUS
    <3>1. Rank(v, "value", l) < Rank(v, r, l)
      BY DEF Rank
    <3> QED BY <2>2, <3>1 DEF Sorts
  <2>5. Shifted(v, t, i, r, l)
    BY <2>3, <2>4, StepShifts
  <2> QED BY <1>1, <2>1, <2>5
<1> HIDE DEF D, rank, P
<1>4. D \subseteq P
  BY <1>2, <1>3, ByRank
<1>5. << s, k >> \in P
  BY <1>1, <1>4
<1> QED BY <1>1, <1>5 DEF P

LEMMA RawIsWhole ==
    ASSUME NEW v \in RawJson
    PROVE  Whole(v)
<1>1. v \in Seq(Tokens) /\ v # << >> /\ ValueEnd(v, 1) = Len(v) + 1
  BY RequestAssumption
<1>2. 1 \in 1 .. Len(v) /\ 1 \in 1 .. Len(v) + 1 /\ Len(v) \in Nat
  BY <1>1
<1>3. Walk(v)[<< "value", 1 >>] = Len(v) + 1
  BY <1>1, <1>2, ValueEnds
<1>4. Len(v) + 1 # Failed
  BY <1>2 DEF Failed
<1>5. v[1] # EndArray
  <2> SUFFICES ASSUME v[1] = EndArray PROVE FALSE
    OBVIOUS
  <2>1. At(v, 1) = EndArray
    BY <1>1, <1>2 DEF At
  <2>2. Walk(v)[<< "value", 1 >>] = Step(v, Walk(v), "value", 1)
    BY <1>1, <1>2, Walked DEF Sorts
  <2>3. Step(v, Walk(v), "value", 1) = Failed
    BY <2>1, Steps, TokenFacts
  <2> QED BY <1>3, <1>4, <2>2, <2>3
<1>6. ASSUME NEW t, NEW i, Stands(v, t, i)
      PROVE  Walk(t)[<< "value", i >>] = i + Len(v)
  <2>1. Shifted(v, t, i, "value", 1)
    BY <1>1, <1>2, <1>6, AllShifted DEF Sorts
  <2>2. Walk(t)[<< "value", i + 1 - 1 >>] = i + (Len(v) + 1) - 1
    BY <1>3, <1>4, <2>1 DEF Shifted
  <2>3. i \in Nat
    BY <1>6 DEF Stands
  <2>4. i + 1 - 1 = i /\ i + (Len(v) + 1) - 1 = i + Len(v)
    BY <1>2, <2>3
  <2> QED BY <2>2, <2>4
<1> QED BY <1>1, <1>5, <1>6 DEF Whole

-----------------------------------------------------------------------------
(* No value holds a token that is none.                                    *)
LEMMA UnknownIsNone ==
    /\ Unknown \notin Scalars
    /\ \A mark \in Marks : Unknown # mark
    /\ Unknown # BeginArray /\ Unknown # EndArray /\ Unknown # BeginObject
    /\ Unknown # EndObject /\ Unknown # NameSeparator /\ Unknown # ValueSeparator
<1>1. /\ Unknown # BeginArray /\ Unknown # EndArray /\ Unknown # BeginObject
      /\ Unknown # EndObject /\ Unknown # NameSeparator /\ Unknown # ValueSeparator
  BY Zenon DEF BeginArray, EndArray, BeginObject, EndObject, NameSeparator, ValueSeparator,
               Unknown
<1>2. \A mark \in Marks : Unknown # mark
  BY Zenon, <1>1 DEF Marks
<1>3. Unknown \notin Bools \cup {"null"}
  BY Zenon DEF Unknown, Bools
<1>4. Unknown \notin Names /\ Unknown \notin Numbers
  BY Zenon, WalkAssumption
<1>5. Unknown \notin Scalars
  BY Zenon, <1>3, <1>4 DEF Scalars
<1> QED BY <1>1, <1>2, <1>5

Known(t, s, i) == \A k \in i .. Walk(t)[<< s, i >>] - 1 : t[k] # Unknown

LEMMA LoopKnown ==
    ASSUME NEW t \in Seq(Tokens), NEW sort \in Sorts, NEW close \in {EndArray, EndObject},
           NEW c \in 1 .. Len(t) + 1, Known(t, "value", c),
           \A l \in c + 1 .. Len(t) + 1 : Known(t, sort, l),
           NEW k \in c .. Continued(t, Walk(t), sort, Walk(t)[<< "value", c >>], close) - 1
    PROVE  t[k] # Unknown
<1> DEFINE w == Walk(t)
           v == w[<< "value", c >>]
           e == Continued(t, w, sort, v, close)
<1>1. v \in {Failed} \cup (c + 1 .. Len(t) + 1)
  BY Walked DEF Sorts
<1>2. \A j \in c .. v - 1 : t[j] # Unknown
  BY DEF Known
<1>3. \A l \in c + 1 .. Len(t) + 1 : \A j \in l .. w[<< sort, l >>] - 1 : t[j] # Unknown
  BY DEF Known
<1>4. k \in c .. e - 1
  OBVIOUS
<1> HIDE DEF w, v
<1>5. CASE v = Failed
  <2>1. e = 0
    BY <1>5 DEF Continued, Failed
  <2> QED BY <1>4, <2>1
<1>6. CASE v # Failed /\ At(t, v) = ValueSeparator
  <2>1. v \in c + 1 .. Len(t) + 1 /\ e = w[<< sort, v + 1 >>]
    BY <1>1, <1>6 DEF Continued
  <2>2. v \in 1 .. Len(t)
    <3>1. v \in Nat
      BY <2>1
    <3> QED BY <1>6, <3>1, TokenInside, TokenFacts
  <2>3. v + 1 \in c + 1 .. Len(t) + 1
    BY <2>1, <2>2
  <2>4. \A j \in v + 1 .. e - 1 : t[j] # Unknown
    BY <1>3, <2>1, <2>3
  <2>5. t[v] # Unknown
    BY <1>6, <2>2, UnknownIsNone DEF At
  <2> HIDE DEF e
  <2>6. k \in c .. v - 1 \/ k = v \/ k \in v + 1 .. e - 1
    BY <1>4, <2>1
  <2> QED BY <1>2, <2>4, <2>5, <2>6
<1>7. CASE v # Failed /\ At(t, v) # ValueSeparator
  <2>1. v \in c + 1 .. Len(t) + 1
    BY <1>1, <1>7
  <2>2. CASE At(t, v) = close
    <3>1. e = v + 1
      BY <1>7, <2>2 DEF Continued
    <3>2. v \in 1 .. Len(t)
      <4>1. v \in Nat
        BY <2>1
      <4> QED BY <2>2, <4>1, TokenInside, TokenFacts
    <3>3. t[v] # Unknown
      BY <2>2, <3>2, UnknownIsNone DEF At
    <3> HIDE DEF e
    <3>4. k \in c .. v - 1 \/ k = v
      BY <1>4, <2>1, <3>1
    <3> QED BY <1>2, <3>3, <3>4
  <2>3. CASE At(t, v) # close
    <3>1. e = 0
      BY <1>7, <2>3 DEF Continued, Failed
    <3> QED BY <1>4, <3>1
  <2> QED BY <2>2, <2>3
<1> QED BY <1>5, <1>6, <1>7

LEMMA OpenKnown ==
    ASSUME NEW t \in Seq(Tokens), NEW sort \in Sorts, NEW close \in {EndArray, EndObject},
           NEW i \in 1 .. Len(t), t[i] # Unknown, Known(t, sort, i + 1),
           NEW k \in i .. Opened(t, Walk(t), i, sort, close) - 1
    PROVE  t[k] # Unknown
<1> DEFINE w == Walk(t)
           e == Opened(t, w, i, sort, close)
<1>1. \A j \in i + 1 .. w[<< sort, i + 1 >>] - 1 : t[j] # Unknown
  BY DEF Known
<1>2. k \in i .. e - 1
  OBVIOUS
<1> HIDE DEF w
<1>3. CASE At(t, i + 1) = close
  <2>1. e = i + 2
    BY <1>3 DEF Opened
  <2>2. i + 1 \in 1 .. Len(t)
    <3>1. i + 1 \in Nat
      OBVIOUS
    <3> QED BY <1>3, <3>1, TokenInside, TokenFacts
  <2>3. t[i + 1] # Unknown
    BY <1>3, <2>2, UnknownIsNone DEF At
  <2> HIDE DEF e
  <2>4. k = i \/ k = i + 1
    BY <1>2, <2>1
  <2> QED BY <2>3, <2>4
<1>4. CASE At(t, i + 1) # close
  <2>1. e = w[<< sort, i + 1 >>]
    BY <1>4 DEF Opened
  <2> HIDE DEF e
  <2>2. k = i \/ k \in i + 1 .. e - 1
    BY <1>2
  <2> QED BY <1>1, <2>1, <2>2
<1> QED BY <1>3, <1>4

LEMMA StepKnown ==
    ASSUME NEW t \in Seq(Tokens), NEW s \in Sorts, NEW i \in 1 .. Len(t) + 1,
           \A q \in Sorts, l \in i + 1 .. Len(t) + 1 : Known(t, q, l),
           s # "value" => Known(t, "value", i)
    PROVE  Known(t, s, i)
<1> DEFINE w == Walk(t)
<1> SUFFICES ASSUME NEW k \in i .. w[<< s, i >>] - 1 PROVE t[k] # Unknown
  BY DEF Known
<1>1. w[<< s, i >>] = Step(t, w, s, i)
  BY Walked
<1>2. \A q \in Sorts : w[<< q, i >>] \in {Failed} \cup (i + 1 .. Len(t) + 1)
  BY Walked
<1>3. w[<< s, i >>] # Failed
  BY DEF Failed
<1>4. DOMAIN t = 1 .. Len(t) /\ Len(t) \in Nat
  OBVIOUS
<1>5. CASE s = "elements"
  <2>1. w[<< s, i >>] = Continued(t, w, s, w[<< "value", i >>], EndArray)
    BY <1>1, <1>5, Steps
  <2>2. k \in i .. Continued(t, w, s, w[<< "value", i >>], EndArray) - 1
    BY <2>1
  <2>3. Known(t, "value", i) /\ EndArray \in {EndArray, EndObject}
    BY <1>5
  <2> QED BY <2>2, <2>3, LoopKnown
<1>6. CASE s = "members"
  <2>1. w[<< s, i >>] = IF IsKey(t, i)
                        THEN Continued(t, w, s, w[<< "value", i + 2 >>], EndObject) ELSE Failed
    BY <1>1, <1>6, Steps
  <2>2. /\ IsKey(t, i)
        /\ w[<< s, i >>] = Continued(t, w, s, w[<< "value", i + 2 >>], EndObject)
    BY <1>3, <2>1
  <2>3. At(t, i) \in Scalars /\ At(t, i + 1) = NameSeparator
    BY <2>2, TokenFacts DEF IsKey
  <2>4. i \in 1 .. Len(t) /\ i + 1 \in 1 .. Len(t)
    <3>1. i \in Nat /\ i + 1 \in Nat
      OBVIOUS
    <3> QED BY <2>3, <3>1, TokenInside, TokenFacts
  <2>5. t[i] # Unknown /\ t[i + 1] # Unknown
    BY <1>4, <2>3, <2>4, UnknownIsNone DEF At
  <2> DEFINE c == i + 2
  <2>6. /\ c \in 1 .. Len(t) + 1 /\ c \in i + 1 .. Len(t) + 1
        /\ \A l \in c + 1 .. Len(t) + 1 : l \in i + 1 .. Len(t) + 1
        /\ EndObject \in {EndArray, EndObject} /\ "value" \in Sorts
    BY <2>4 DEF Sorts
  <2>7. Known(t, "value", c) /\ \A l \in c + 1 .. Len(t) + 1 : Known(t, s, l)
    BY <2>6
  <2> HIDE DEF c
  <2>8. k = i \/ k = i + 1 \/ k \in c .. w[<< s, i >>] - 1
    BY DEF c
  <2>9. k \in c .. w[<< s, i >>] - 1 => t[k] # Unknown
    BY <2>2, <2>6, <2>7, LoopKnown DEF c
  <2> QED BY <2>5, <2>8, <2>9
<1>7. CASE s = "value"
  <2>1. w[<< s, i >>] = IF At(t, i) \in Scalars THEN i + 1
                        ELSE IF At(t, i) = BeginArray THEN Opened(t, w, i, "elements", EndArray)
                        ELSE IF At(t, i) = BeginObject THEN Opened(t, w, i, "members", EndObject)
                        ELSE Failed
    BY <1>1, <1>7, Steps
  <2>2. At(t, i) # Nothing /\ At(t, i) # Unknown
    BY <1>3, <2>1, TokenFacts, UnknownIsNone
  <2>3. i \in 1 .. Len(t)
    BY <2>2, TokenInside
  <2>4. t[i] # Unknown
    BY <1>4, <2>2, <2>3 DEF At
  <2>5. i + 1 \in i + 1 .. Len(t) + 1 /\ "elements" \in Sorts /\ "members" \in Sorts
    BY <2>3 DEF Sorts
  <2>6. Known(t, "elements", i + 1) /\ Known(t, "members", i + 1)
    BY <2>5
  <2>7. CASE At(t, i) \in Scalars
    <3>1. w[<< s, i >>] = i + 1
      BY <2>1, <2>7
    <3>2. k = i
      BY <3>1
    <3> QED BY <2>4, <3>2
  <2>8. CASE At(t, i) = BeginArray
    <3>1. k \in i .. Opened(t, w, i, "elements", EndArray) - 1
      BY <2>1, <2>8, TokenFacts
    <3> QED BY <2>3, <2>4, <2>5, <2>6, <3>1, OpenKnown
  <2>9. CASE At(t, i) = BeginObject
    <3>1. k \in i .. Opened(t, w, i, "members", EndObject) - 1
      BY <2>1, <2>9, TokenFacts
    <3> QED BY <2>3, <2>4, <2>5, <2>6, <3>1, OpenKnown
  <2> QED BY <1>3, <2>1, <2>7, <2>8, <2>9
<1> QED BY <1>5, <1>6, <1>7 DEF Sorts

LEMMA AllKnown ==
    ASSUME NEW t \in Seq(Tokens), NEW s \in Sorts, NEW i \in 1 .. Len(t) + 1
    PROVE  Known(t, s, i)
<1> DEFINE D == Places(t)
           rank == [d \in D |-> Rank(t, d[1], d[2])]
           P == {d \in D : Known(t, d[1], d[2])}
<1>1. \A r \in Sorts, k \in 1 .. Len(t) + 1 :
         /\ << r, k >> \in D /\ << r, k >>[1] = r /\ << r, k >>[2] = k
         /\ rank[<< r, k >>] = Rank(t, r, k)
  BY DEF Places
<1>2. rank \in [D -> Nat]
  <2>1. \A d \in D : d[1] \in Sorts /\ d[2] \in 1 .. Len(t) + 1
    BY DEF Places
  <2>2. \A r \in Sorts, k \in 1 .. Len(t) + 1 : Rank(t, r, k) \in Nat
    BY DEF Rank
  <2> HIDE DEF D
  <2> QED BY <2>1, <2>2
<1>3. ASSUME NEW d \in D, \A c \in D : rank[c] < rank[d] => c \in P
      PROVE  d \in P
  <2>1. PICK r \in Sorts, k \in 1 .. Len(t) + 1 : d = << r, k >>
    BY DEF Places
  <2> HIDE DEF D, rank
  <2>2. ASSUME NEW q \in Sorts, NEW l \in 1 .. Len(t) + 1, Rank(t, q, l) < Rank(t, r, k)
        PROVE  Known(t, q, l)
    <3>1. << q, l >> \in P
      BY <1>1, <1>3, <2>1, <2>2
    <3> QED BY <1>1, <3>1
  <2>3. ASSUME NEW q \in Sorts, NEW l \in k + 1 .. Len(t) + 1 PROVE Known(t, q, l)
    <3>1. l \in 1 .. Len(t) + 1 /\ Len(t) \in Nat /\ k < l
      OBVIOUS
    <3>2. Rank(t, q, l) < Rank(t, r, k)
      BY <3>1 DEF Rank
    <3> QED BY <2>2, <3>1, <3>2
  <2>4. r # "value" => Known(t, "value", k)
    <3> SUFFICES ASSUME r # "value" PROVE Known(t, "value", k)
      OBVIOUS
    <3>1. Rank(t, "value", k) < Rank(t, r, k)
      BY DEF Rank
    <3> QED BY <2>2, <3>1 DEF Sorts
  <2>5. Known(t, r, k)
    BY <2>3, <2>4, StepKnown
  <2> QED BY <1>1, <2>1, <2>5
<1> HIDE DEF D, rank, P
<1>4. D \subseteq P
  BY <1>2, <1>3, ByRank
<1>5. << s, i >> \in P
  BY <1>1, <1>4
<1> QED BY <1>1, <1>5 DEF P

(* A text with such a token in it.                                         *)
Broken(v) == v \in Seq(Tokens) /\ \E k \in 1 .. Len(v) : v[k] = Unknown

LEMMA BrokenIsNoValue ==
    ASSUME NEW v, Broken(v)
    PROVE  ValueEnd(v, 1) # Len(v) + 1
<1>1. PICK k \in 1 .. Len(v) : v[k] = Unknown
  BY DEF Broken
<1>2. v \in Seq(Tokens) /\ 1 \in 1 .. Len(v) /\ 1 \in 1 .. Len(v) + 1
  BY DEF Broken
<1>3. Known(v, "value", 1)
  BY <1>2, AllKnown DEF Sorts
<1>4. ValueEnd(v, 1) = Walk(v)[<< "value", 1 >>]
  BY <1>2, ValueEnds
<1> DEFINE e == Walk(v)[<< "value", 1 >>]
<1>5. \A j \in 1 .. e - 1 : v[j] # Unknown
  BY <1>3 DEF Known
<1> HIDE DEF e
<1>6. e # Len(v) + 1
  BY <1>1, <1>2, <1>5
<1> QED BY <1>4, <1>6 DEF e

LEMMA WholeIsValue ==
    ASSUME NEW v, Whole(v)
    PROVE  ValueEnd(v, 1) = Len(v) + 1
<1>1. v \in Seq(Tokens) /\ v # << >>
  BY DEF Whole
<1>2. 1 \in 1 .. Len(v) /\ 1 \in 1 .. Len(v) + 1 /\ Len(v) \in Nat
  BY <1>1
<1>3. Stands(v, v, 1)
  <2>1. \A k \in 1 .. Len(v) : 1 + k - 1 = k
    OBVIOUS
  <2>2. 1 + Len(v) <= Len(v) + 1
    BY <1>2
  <2> QED BY <1>1, <1>2, <2>1, <2>2 DEF Stands
<1>4. Walk(v)[<< "value", 1 >>] = 1 + Len(v)
  BY <1>3 DEF Whole
<1> QED BY <1>1, <1>2, <1>4, ValueEnds

LEMMA BrokenStays ==
    ASSUME NEW v, NEW w \in Seq(Tokens), Broken(v)
    PROVE  Broken(v \o w) /\ Broken(w \o v)
<1>1. v \in Seq(Tokens)
  BY DEF Broken
<1>2. PICK k \in 1 .. Len(v) : v[k] = Unknown
  BY DEF Broken
<1>3. Len(v) \in Nat /\ Len(w) \in Nat
  BY <1>1
<1>4. Broken(v \o w)
  <2>1. /\ v \o w \in Seq(Tokens) /\ Len(v \o w) = Len(v) + Len(w)
        /\ \A j \in 1 .. Len(v) : (v \o w)[j] = v[j]
    BY <1>1, Joined
  <2>2. k \in 1 .. Len(v \o w)
    BY <1>3, <2>1
  <2> QED BY <1>2, <2>1, <2>2 DEF Broken
<1>5. Broken(w \o v)
  <2>1. /\ w \o v \in Seq(Tokens) /\ Len(w \o v) = Len(w) + Len(v)
        /\ \A j \in 1 .. Len(v) : (w \o v)[Len(w) + j] = v[j]
    BY <1>1, Joined
  <2>2. Len(w) + k \in 1 .. Len(w \o v)
    BY <1>3, <2>1
  <2> QED BY <1>2, <2>1, <2>2 DEF Broken
<1> QED BY <1>4, <1>5

LEMMA ListOfTokens ==
    ASSUME NEW parts \in Seq(Seq(Tokens))
    PROVE  /\ List(parts) \in Seq(Tokens)
           /\ (\E n \in 1 .. Len(parts) : Broken(parts[n])) => Broken(List(parts))
<1>1. PICK f : UpTo(parts, f)
  BY ListLoops
<1> DEFINE N == Len(parts)
<1>2. /\ N \in Nat /\ f \in [0 .. N -> Seq(Tokens)]
      /\ \A n \in 1 .. N : f[n] = More(parts, f[n - 1], n) /\ parts[n] \in Seq(Tokens)
      /\ List(parts) = f[N] \o << EndArray >>
  BY <1>1 DEF UpTo
<1> HIDE DEF N
<1>3. << EndArray >> \in Seq(Tokens) /\ << ValueSeparator >> \in Seq(Tokens) /\ f[N] \in Seq(Tokens)
  BY <1>2, AreTokens
<1>4. List(parts) \in Seq(Tokens)
  BY <1>2, <1>3, Joined
<1>5. ASSUME NEW n \in 1 .. N, Broken(parts[n]) PROVE Broken(List(parts))
  <2>1. ASSUME NEW k \in 1 .. N, Broken(f[k - 1]) \/ Broken(parts[k]) PROVE Broken(f[k])
    <3> DEFINE before == f[k - 1]
               comma == Given(k > 1, << ValueSeparator >>)
               q == parts[k]
    <3>1. before \in Seq(Tokens) /\ q \in Seq(Tokens)
      <4>1. k - 1 \in 0 .. N
        BY <1>2
      <4> QED BY <1>2, <4>1
    <3>2. comma \in Seq(Tokens)
      BY <1>3 DEF Given
    <3>3. f[k] = before \o comma \o q
      <4>1. k # 0 /\ f[k] = More(parts, f[k - 1], k)
        BY <1>2
      <4> QED BY <4>1 DEF More
    <3>4. Broken(before) \/ Broken(q)
      BY <2>1
    <3> HIDE DEF before, comma, q
    <3>5. before \o comma \in Seq(Tokens)
      BY <3>1, <3>2
    <3>6. CASE Broken(before)
      <4>1. Broken(before \o comma)
        BY <3>2, <3>6, BrokenStays
      <4> QED BY <3>1, <3>3, <4>1, BrokenStays
    <3>7. CASE Broken(q)
      BY <3>3, <3>5, <3>7, BrokenStays
    <3> QED BY <3>4, <3>6, <3>7
  <2> DEFINE P == {k \in Nat : n + k <= N => Broken(f[n + k])}
  <2>2. 0 \in P
    <3>1. Broken(f[n]) /\ n + 0 = n
      BY <1>5, <2>1
    <3> QED BY <3>1
  <2>3. ASSUME NEW k \in Nat, k \in P PROVE k + 1 \in P
    <3> SUFFICES ASSUME n + (k + 1) <= N PROVE Broken(f[n + (k + 1)])
      OBVIOUS
    <3>1. Broken(f[n + k]) /\ n + (k + 1) \in 1 .. N /\ n + (k + 1) - 1 = n + k
      BY <1>2, <2>3
    <3> QED BY <2>1, <3>1
  <2>4. Nat \subseteq P
    <3> HIDE DEF P
    <3> QED BY <2>2, <2>3, Induct
  <2>5. N - n \in Nat /\ n + (N - n) = N
    BY <1>2
  <2>6. \A k \in Nat : n + k <= N => Broken(f[n + k])
    BY <2>4
  <2>7. Broken(f[N])
    <3>1. n + (N - n) <= N => Broken(f[n + (N - n)])
      BY <2>5, <2>6
    <3> QED BY <1>2, <2>5, <3>1
  <2> QED BY <1>2, <1>3, <2>7, BrokenStays
<1> QED BY <1>4, <1>5 DEF N

-----------------------------------------------------------------------------
LEMMA Single ==
    /\ \A n \in Ints : Whole(<< Number(n) >>)
    /\ \A name \in Names : Whole(<< name >>)
    /\ \A s \in Maybe(Names) : Whole(<< Text(s) >>)
    /\ \A b : Whole(<< Bool(b) >>)
    /\ Whole(<< "null" >>) /\ Whole(<< "false" >>)
<1>1. \A n \in Ints : Number(n) \in Scalars
  BY RequestAssumption, AreTokens
<1>2. Names \subseteq Scalars /\ \A s \in Maybe(Names) : Text(s) \in Scalars
  BY RequestAssumption, AreTokens DEF Maybe, Text
<1>3. "true" \in Scalars /\ "false" \in Scalars /\ "null" \in Scalars
  BY DEF Scalars, Bools
<1>4. \A b : Bool(b) \in Scalars
  BY <1>3 DEF Bool
<1> QED BY <1>1, <1>2, <1>3, <1>4, ScalarsAreWhole

LEMMA Settings ==
    ASSUME NEW x \in Ints, NEW default \in Defaults
    PROVE  Whole(Setting(x, default))
BY Single, RequestAssumption DEF Setting

LEMMA ValuesAreWhole == ASSUME NEW v \in AnyValue PROVE Whole(OfValue(v))
<1>1. CASE v \in [tag : {"bool"}, v : BOOLEAN]
  <2>1. v.tag = "bool"
    BY <1>1
  <2> QED BY <2>1, Single DEF OfValue
<1>2. CASE v \in [tag : {"int64"}, v : Ints]
  <2>1. v.tag = "int64" /\ v.v \in Ints
    BY <1>2
  <2> QED BY <2>1, Single DEF OfValue
<1>3. CASE v \in [tag : {"double"}, v : Ints \cup {NotFinite}]
  <2>1. v.tag = "double" /\ v.v \in Ints \cup {NotFinite}
    BY <1>3
  <2>2. OfValue(v) = << IF v.v = NotFinite THEN "null" ELSE Formatted(v.v) >>
    BY <2>1 DEF OfValue
  <2>3. CASE v.v = NotFinite
    BY <2>2, <2>3, Single
  <2>4. CASE v.v # NotFinite
    BY <2>1, <2>2, <2>4, Single DEF Formatted
  <2> QED BY <2>3, <2>4
<1>4. CASE v \in [tag : {"string"}, v : Maybe(Names)]
  <2>1. v.tag = "string" /\ v.v \in Maybe(Names)
    BY <1>4
  <2> QED BY <2>1, Single DEF OfValue
<1>5. CASE v \in [tag : {"json"}, v : Maybe(RawJson)]
  <2>1. v.tag = "json" /\ v.v \in RawJson \cup {NULL}
    BY <1>5 DEF Maybe
  <2>2. CASE v.v = NULL
    <3>1. OfValue(v) = << "null" >>
      BY <2>1, <2>2 DEF OfValue
    <3> QED BY <3>1, Single
  <2>3. CASE v.v # NULL
    <3>1. OfValue(v) = v.v
      BY <2>1, <2>3 DEF OfValue
    <3> QED BY <2>1, <2>3, <3>1, RawIsWhole
  <2> QED BY <2>2, <2>3
<1>6. CASE v \in [tag : {"null"}, v : {NULL}]
  <2>1. v.tag = "null"
    BY <1>6
  <2>2. OfValue(v) = << "null" >>
    BY <2>1 DEF OfValue
  <2> QED BY <2>2, Single
<1> QED BY <1>1, <1>2, <1>3, <1>4, <1>5, <1>6 DEF AnyValue

(* A list of what is given, each element written as something whole.       *)
LEMMA ListOf ==
    ASSUME NEW S, NEW s \in Seq(S), NEW parts, parts = [i \in DOMAIN s |-> parts[i]],
           \A i \in 1 .. Len(s) : Elements(parts[i])
    PROVE  Whole(List(parts))
<1>1. \A i \in 1 .. Len(s) : parts[i] \in Seq(Tokens)
  BY DEF Elements
<1>2. parts \in Seq(Seq(Tokens)) /\ Len(parts) = Len(s)
  BY <1>1, Mapped
<1> QED BY <1>2, ListIsWhole

LEMMA CellsAreWhole == ASSUME NEW cells \in Seq(AnyCell) PROVE Whole(Cells(cells))
<1> DEFINE parts == [i \in DOMAIN cells |->
                       << Number(cells[i].column_id), ValueSeparator >>
                       \o OfValue(cells[i].value)]
<1>1. ASSUME NEW i \in 1 .. Len(cells) PROVE Elements(parts[i])
  <2> DEFINE id == << Number(cells[i].column_id) >>
             x == OfValue(cells[i].value)
  <2>1. cells[i] \in AnyCell
    OBVIOUS
  <2>2. cells[i].column_id \in Ints /\ cells[i].value \in AnyValue
    BY <2>1 DEF AnyCell
  <2>3. Elements(id) /\ Elements(x)
    BY <2>2, Single, ValuesAreWhole, WholeIsElement
  <2>4. Elements(id \o << ValueSeparator >> \o x)
    BY <2>3, ElementsJoin
  <2>5. parts[i] = << Number(cells[i].column_id), ValueSeparator >> \o x
    OBVIOUS
  <2>6. << Number(cells[i].column_id), ValueSeparator >> = id \o << ValueSeparator >>
    OBVIOUS
  <2> QED BY <2>4, <2>5, <2>6
<1>2. parts = [i \in DOMAIN cells |-> parts[i]]
  OBVIOUS
<1>3. Cells(cells) = List(parts)
  BY DEF Cells
<1> HIDE DEF parts
<1> QED BY <1>1, <1>2, <1>3, ListOf

LEMMA TextListIsWhole == ASSUME NEW s \in Seq(Maybe(Names)) PROVE Whole(TextList(s))
<1> DEFINE parts == [i \in DOMAIN s |-> << Text(s[i]) >>]
<1>1. ASSUME NEW i \in 1 .. Len(s) PROVE Elements(parts[i])
  <2>1. s[i] \in Maybe(Names) /\ parts[i] = << Text(s[i]) >>
    OBVIOUS
  <2> HIDE DEF parts
  <2> QED BY <2>1, Single, WholeIsElement
<1>2. parts = [i \in DOMAIN s |-> parts[i]]
  OBVIOUS
<1>3. TextList(s) = List(parts)
  BY DEF TextList
<1> HIDE DEF parts
<1> QED BY <1>1, <1>2, <1>3, ListOf

LEMMA LabelsAreNames == ASSUME NEW label \in Labels PROVE label \in Names
BY RequestAssumption

LEMMA ColumnLabels ==
    /\ "id" \in Names /\ "name" \in Names /\ "ty" \in Names /\ "primary_key" \in Names
    /\ "nullable" \in Names /\ "enum_variants" \in Names /\ "default_expr" \in Names
    /\ "default_value" \in Names /\ "embedding_source" \in Names
BY LabelsAreNames DEF Labels

LEMMA DefaultIsMore == ASSUME NEW col \in AnyColumn PROVE Members(Default(col))
<1>1. /\ col.default_expr \in Names \cup {NULL} /\ col.default_value \in Names \cup {NULL}
      /\ col.default_value_json \in RawJson \cup {NULL}
  BY DEF AnyColumn, Maybe
<1>2. CASE col.default_expr # NULL
  <2>1. Default(col) = Also("default_expr", << col.default_expr >>)
    BY <1>2 DEF Default
  <2>2. Whole(<< col.default_expr >>)
    BY <1>1, <1>2, Single
  <2> QED BY <2>1, <2>2, ColumnLabels, MemberIsMore
<1>3. CASE col.default_expr = NULL /\ col.default_value_json # NULL
  <2>1. Default(col) = Also("default_value", col.default_value_json)
    BY <1>3 DEF Default
  <2>2. Whole(col.default_value_json)
    BY <1>1, <1>3, RawIsWhole
  <2> QED BY <2>1, <2>2, ColumnLabels, MemberIsMore
<1>4. CASE col.default_expr = NULL /\ col.default_value_json = NULL /\ col.default_value # NULL
  <2>1. Default(col) = Also("default_value", << col.default_value >>)
    BY <1>4 DEF Default
  <2>2. Whole(<< col.default_value >>)
    BY <1>1, <1>4, Single
  <2> QED BY <2>1, <2>2, ColumnLabels, MemberIsMore
<1>5. CASE col.default_expr = NULL /\ col.default_value_json = NULL /\ col.default_value = NULL
  <2>1. Default(col) = << >>
    BY <1>5 DEF Default
  <2> QED BY <2>1, NoMembers
<1> QED BY <1>2, <1>3, <1>4, <1>5

LEMMA ColumnIsWhole == ASSUME NEW col \in AnyColumn PROVE Whole(Column(col))
<1>1. /\ col.id \in Ints /\ col.name \in Maybe(Names) /\ col.ty \in Maybe(Names)
      /\ col.enum_variants \in Seq(Maybe(Names))
      /\ col.embedding_source_json \in RawJson \cup {NULL}
  BY DEF AnyColumn, Maybe
<1> DEFINE v == First("id", << Number(col.id) >>)
           name == Also("name", << Text(col.name) >>)
           ty == Also("ty", << Text(col.ty) >>)
           key == Also("primary_key", << Bool(col.primary_key) >>)
           null == Also("nullable", << Bool(col.nullable) >>)
           variants == Given(col.enum_variants # << >>,
                             Also("enum_variants", TextList(col.enum_variants)))
           default == Default(col)
           source == Given(col.embedding_source_json # NULL,
                           Also("embedding_source", col.embedding_source_json))
<1>2. OpenObject(v)
  BY <1>1, ColumnLabels, Single, ObjectOpens
<1>3. Members(name) /\ Members(ty) /\ Members(key) /\ Members(null)
  BY <1>1, ColumnLabels, Single, MemberIsMore
<1>4. Members(variants)
  <2>1. Members(Also("enum_variants", TextList(col.enum_variants)))
    BY <1>1, ColumnLabels, TextListIsWhole, MemberIsMore
  <2> QED BY <2>1, MembersGiven
<1>5. Members(default)
  BY DefaultIsMore
<1>6. Members(source)
  <2>1. ASSUME col.embedding_source_json # NULL
        PROVE  Members(Also("embedding_source", col.embedding_source_json))
    BY <1>1, <2>1, ColumnLabels, RawIsWhole, MemberIsMore
  <2> QED BY <2>1, MembersGiven
<1>7. Column(col) = v \o name \o ty \o key \o null \o variants \o default \o source \o End
  BY DEF Column
<1> HIDE DEF v, name, ty, key, null, variants, default, source
<1> QED BY <1>2, <1>3, <1>4, <1>5, <1>6, <1>7, GoesOnWith, ObjectCloses

-----------------------------------------------------------------------------
LEMMA IndexLabels ==
    /\ "m" \in Names /\ "ef_construction" \in Names /\ "ef_search" \in Names
    /\ "quantization" \in Names /\ "algorithm" \in Names /\ "diskann" \in Names
    /\ "r" \in Names /\ "l" \in Names /\ "beam_width" \in Names /\ "alpha" \in Names
    /\ "ivf" \in Names /\ "nlist" \in Names /\ "nprobe" \in Names /\ "product" \in Names
    /\ "training_samples" \in Names /\ "seed" \in Names /\ "rerank_factor" \in Names
    /\ "permutations" \in Names /\ "bands" \in Names /\ "epsilon" \in Names
    /\ "name" \in Names /\ "column_id" \in Names /\ "kind" \in Names
    /\ "predicate" \in Names /\ "options" \in Names
BY LabelsAreNames DEF Labels

LEMMA IndexNames ==
    /\ \A kind : KindName(kind) \in Names
    /\ \A q : QuantizationName(q) \in Names
    /\ \A a : AlgorithmName(a) \in Names
<1>1. /\ "bitmap" \in Names /\ "fm_index" \in Names /\ "ann" \in Names /\ "minhash" \in Names
      /\ "learned_range" \in Names /\ "sparse" \in Names /\ "dense" \in Names
      /\ "product" \in Names /\ "binary_sign" \in Names /\ "diskann" \in Names
      /\ "ivf" \in Names /\ "hnsw" \in Names
  BY LabelsAreNames DEF Labels
<1>2. Empty \in Names
  BY RequestAssumption
<1>3. \A kind : KindName(kind) \in Names
  BY <1>1, <1>2 DEF KindName, Named
<1>4. \A q : QuantizationName(q) \in Names
  BY <1>1 DEF QuantizationName, Named
<1>5. \A a : AlgorithmName(a) \in Names
  BY <1>1 DEF AlgorithmName, Named
<1> QED BY <1>3, <1>4, <1>5

LEMMA IndexFields ==
    ASSUME NEW x \in AnyIndex
    PROVE  /\ x.name \in Maybe(Names) /\ x.column_id \in Ints
           /\ x.predicate \in Names \cup {NULL}
           /\ x.ann_m \in Ints /\ x.ann_ef_construction \in Ints /\ x.ann_ef_search \in Ints
           /\ x.diskann_r \in Ints /\ x.diskann_l \in Ints /\ x.diskann_beam_width \in Ints
           /\ x.diskann_alpha \in Ints /\ x.ivf_nlist \in Ints /\ x.ivf_nprobe \in Ints
           /\ x.pq_training_samples \in Ints /\ x.pq_seed \in Ints
           /\ x.pq_rerank_factor \in Ints /\ x.minhash_permutations \in Ints
           /\ x.minhash_bands \in Ints /\ x.learned_range_epsilon \in Ints
BY DEF AnyIndex, Maybe

LEMMA IndexSettings ==
    ASSUME NEW x \in AnyIndex
    PROVE  /\ Whole(Setting(x.ann_m, 16)) /\ Whole(Setting(x.ann_ef_construction, 64))
           /\ Whole(Setting(x.ann_ef_search, 64)) /\ Whole(Setting(x.diskann_r, 64))
           /\ Whole(Setting(x.diskann_l, 128)) /\ Whole(Setting(x.diskann_beam_width, 8))
           /\ Whole(Setting(x.diskann_alpha, 120)) /\ Whole(Setting(x.ivf_nlist, 256))
           /\ Whole(Setting(x.ivf_nprobe, 8))
           /\ Whole(Setting(x.pq_training_samples, 256000)) /\ Whole(Seed(x))
           /\ Whole(Setting(x.pq_rerank_factor, 5))
           /\ Whole(Setting(x.minhash_permutations, 128))
           /\ Whole(Setting(x.minhash_bands, 32))
           /\ Whole(Setting(x.learned_range_epsilon, 16))
<1>1. /\ 5 \in Defaults /\ 8 \in Defaults /\ 16 \in Defaults /\ 32 \in Defaults
      /\ 64 \in Defaults /\ 120 \in Defaults /\ 128 \in Defaults /\ 256 \in Defaults
      /\ 256000 \in Defaults
  BY DEF Defaults
<1>2. Whole(Seed(x))
  <2>1. DefaultSeed \in Scalars /\ Number(x.pq_seed) \in Scalars
    BY IndexFields, RequestAssumption, AreTokens
  <2> QED BY <2>1, ScalarsAreWhole DEF Seed
<1> QED BY <1>1, <1>2, IndexFields, Settings

LEMMA DiskannIsMore ==
    ASSUME NEW x \in AnyIndex
    PROVE  IF DiskannSize(x) < 96 THEN Members(Diskann(x)) ELSE Diskann(x) = << Unknown >>
<1> DEFINE v == First("r", Setting(x.diskann_r, 64))
           l == Also("l", Setting(x.diskann_l, 128))
           width == Also("beam_width", Setting(x.diskann_beam_width, 8))
           alpha == Also("alpha", Setting(x.diskann_alpha, 120))
<1>1. OpenObject(v) /\ Members(l) /\ Members(width) /\ Members(alpha)
  BY IndexLabels, IndexSettings, ObjectOpens, MemberIsMore
<1>2. Diskann(x) = IF DiskannSize(x) < 96
                   THEN Also("diskann", v \o l \o width \o alpha \o End) ELSE << Unknown >>
  BY DEF Diskann, Printed
<1> HIDE DEF v, l, width, alpha
<1>3. Whole(v \o l \o width \o alpha \o End)
  BY <1>1, GoesOnWith, ObjectCloses
<1>4. Members(Also("diskann", v \o l \o width \o alpha \o End))
  BY <1>3, IndexLabels, MemberIsMore
<1> QED BY <1>2, <1>4

LEMMA IvfIsMore == ASSUME NEW x \in AnyIndex PROVE Members(Ivf(x))
<1> DEFINE v == First("nlist", Setting(x.ivf_nlist, 256))
           nprobe == Also("nprobe", Setting(x.ivf_nprobe, 8))
<1>1. OpenObject(v) /\ Members(nprobe)
  BY IndexLabels, IndexSettings, ObjectOpens, MemberIsMore
<1>2. Ivf(x) = Also("ivf", v \o nprobe \o End)
  BY DEF Ivf
<1> HIDE DEF v, nprobe
<1>3. Whole(v \o nprobe \o End)
  BY <1>1, GoesOnWith, ObjectCloses
<1> QED BY <1>2, <1>3, IndexLabels, MemberIsMore

LEMMA ProductIsMore ==
    ASSUME NEW x \in AnyIndex
    PROVE  IF ProductSize(x) < 96 THEN Members(Product(x)) ELSE Product(x) = << Unknown >>
<1> DEFINE v == First("training_samples", Setting(x.pq_training_samples, 256000))
           seed == Also("seed", Seed(x))
           factor == Also("rerank_factor", Setting(x.pq_rerank_factor, 5))
<1>1. OpenObject(v) /\ Members(seed) /\ Members(factor)
  BY IndexLabels, IndexSettings, ObjectOpens, MemberIsMore
<1>2. Product(x) = IF ProductSize(x) < 96 THEN Also("product", v \o seed \o factor \o End)
                   ELSE << Unknown >>
  BY DEF Product, Printed
<1> HIDE DEF v, seed, factor
<1>3. Whole(v \o seed \o factor \o End)
  BY <1>1, GoesOnWith, ObjectCloses
<1>4. Members(Also("product", v \o seed \o factor \o End))
  BY <1>3, IndexLabels, MemberIsMore
<1> QED BY <1>2, <1>4

LEMMA UnknownIsBroken == Broken(<< Unknown >>)
<1>1. << Unknown >> \in Seq(Tokens) /\ 1 \in 1 .. Len(<< Unknown >>) /\ << Unknown >>[1] = Unknown
  BY AreTokens
<1> QED BY <1>1 DEF Broken

LEMMA AnnIsWhole ==
    ASSUME NEW x \in AnyIndex, x.kind = "ANN"
    PROVE  IF IsPrintable(x) THEN Whole(Ann(x)) ELSE Broken(Ann(x))
<1> DEFINE first == First("m", Setting(x.ann_m, 16))
           efs == Also("ef_construction", Setting(x.ann_ef_construction, 64))
           search == Also("ef_search", Setting(x.ann_ef_search, 64))
           v == Printed(AnnSize(x), first \o efs \o search)
           quantization == Also("quantization", << QuantizationName(x.ann_quantization) >>)
           algorithm == Given(x.ann_algorithm # "HNSW",
                              Also("algorithm", << AlgorithmName(x.ann_algorithm) >>))
           diskann == Given(x.ann_algorithm = "DISKANN", Diskann(x))
           ivf == Given(x.ann_algorithm = "IVF", Ivf(x))
           product == Given(x.ann_quantization = "PRODUCT", Product(x))
<1>1. OpenObject(first) /\ Members(efs) /\ Members(search)
  BY IndexLabels, IndexSettings, ObjectOpens, MemberIsMore
<1>2. IF AnnSize(x) < 96 THEN OpenObject(v) ELSE Broken(v)
  <2> HIDE DEF first, efs, search
  <2>1. OpenObject(first \o efs \o search)
    BY <1>1, GoesOnWith
  <2> QED BY <2>1, UnknownIsBroken DEF Printed
<1>3. Members(quantization)
  BY IndexLabels, IndexNames, Single, MemberIsMore
<1>4. Members(algorithm)
  <2>1. Members(Also("algorithm", << AlgorithmName(x.ann_algorithm) >>))
    BY IndexLabels, IndexNames, Single, MemberIsMore
  <2> QED BY <2>1, MembersGiven
<1>5. IF x.ann_algorithm = "DISKANN" => DiskannSize(x) < 96
      THEN Members(diskann) ELSE Broken(diskann)
  BY DiskannIsMore, UnknownIsBroken, NoMembers DEF Given
<1>6. Members(ivf)
  BY IvfIsMore, MembersGiven
<1>7. IF x.ann_quantization = "PRODUCT" => ProductSize(x) < 96
      THEN Members(product) ELSE Broken(product)
  BY ProductIsMore, UnknownIsBroken, NoMembers DEF Given
<1>8. Ann(x) = v \o quantization \o algorithm \o diskann \o ivf \o product \o End
  BY DEF Ann
<1>9. IsPrintable(x) <=> /\ AnnSize(x) < 96
                         /\ x.ann_algorithm = "DISKANN" => DiskannSize(x) < 96
                         /\ x.ann_quantization = "PRODUCT" => ProductSize(x) < 96
  BY DEF IsPrintable
<1> HIDE DEF v, quantization, algorithm, diskann, ivf, product
<1>10. CASE IsPrintable(x)
  <2>1. OpenObject(v) /\ Members(diskann) /\ Members(product)
    BY <1>2, <1>5, <1>7, <1>9, <1>10
  <2>2. Whole(Ann(x))
    BY <1>3, <1>4, <1>6, <1>8, <2>1, GoesOnWith, ObjectCloses
  <2> QED BY <1>10, <2>2
<1>11. CASE ~ IsPrintable(x)
  <2>1. /\ v \in Seq(Tokens) /\ quantization \in Seq(Tokens) /\ algorithm \in Seq(Tokens)
        /\ diskann \in Seq(Tokens) /\ ivf \in Seq(Tokens) /\ product \in Seq(Tokens)
        /\ End \in Seq(Tokens)
    BY <1>2, <1>3, <1>4, <1>5, <1>6, <1>7, AreTokens DEF OpenObject, Members, Broken, End
  <2>2. Broken(v) \/ Broken(diskann) \/ Broken(product)
    BY <1>2, <1>5, <1>7, <1>9, <1>11
  <2> DEFINE a == v \o quantization
             b == a \o algorithm
             c == b \o diskann
             d == c \o ivf
             e == d \o product
  <2>3. a \in Seq(Tokens) /\ (Broken(v) => Broken(a))
    BY <2>1, BrokenStays
  <2> HIDE DEF a
  <2>4. b \in Seq(Tokens) /\ (Broken(a) => Broken(b))
    BY <2>1, <2>3, BrokenStays
  <2> HIDE DEF b
  <2>5. c \in Seq(Tokens) /\ (Broken(b) \/ Broken(diskann) => Broken(c))
    BY <2>1, <2>4, BrokenStays
  <2> HIDE DEF c
  <2>6. d \in Seq(Tokens) /\ (Broken(c) => Broken(d))
    BY <2>1, <2>5, BrokenStays
  <2> HIDE DEF d
  <2>7. e \in Seq(Tokens) /\ (Broken(d) \/ Broken(product) => Broken(e))
    BY <2>1, <2>6, BrokenStays
  <2> HIDE DEF e
  <2>8. Broken(e \o End)
    BY <2>1, <2>2, <2>3, <2>4, <2>5, <2>6, <2>7, BrokenStays
  <2>9. Ann(x) = e \o End
    BY <1>8 DEF a, b, c, d, e
  <2> QED BY <1>11, <2>8, <2>9
<1> QED BY <1>10, <1>11

LEMMA MinHashIsWhole == ASSUME NEW x \in AnyIndex PROVE Whole(MinHash(x))
<1> DEFINE v == First("permutations", Setting(x.minhash_permutations, 128))
           bands == Also("bands", Setting(x.minhash_bands, 32))
<1>1. OpenObject(v) /\ Members(bands)
  BY IndexLabels, IndexSettings, ObjectOpens, MemberIsMore
<1>2. MinHash(x) = v \o bands \o End
  BY DEF MinHash
<1> HIDE DEF v, bands
<1> QED BY <1>1, <1>2, GoesOnWith, ObjectCloses

(* An object of one member is whole when that is.                          *)
LEMMA OneIsWhole ==
    ASSUME NEW key \in Names, NEW x
    PROVE  /\ Whole(x) => Whole(One(key, x))
           /\ Broken(x) => Broken(First(key, x)) /\ Broken(Also(key, x)) /\ Broken(One(key, x))
<1>1. Whole(x) => Whole(One(key, x))
  BY ObjectOpens, ObjectCloses DEF One
<1>2. ASSUME Broken(x)
      PROVE  Broken(First(key, x)) /\ Broken(Also(key, x)) /\ Broken(One(key, x))
  <2>1. /\ << BeginObject, key, NameSeparator >> \in Seq(Tokens)
        /\ << ValueSeparator, key, NameSeparator >> \in Seq(Tokens)
        /\ End \in Seq(Tokens)
    BY AreTokens DEF End
  <2>2. Broken(First(key, x)) /\ Broken(Also(key, x))
    BY <1>2, <2>1, BrokenStays DEF First, Also
  <2>3. Broken(First(key, x) \o End)
    BY <2>1, <2>2, BrokenStays
  <2> QED BY <2>2, <2>3 DEF One
<1> QED BY <1>1, <1>2

LEMMA OptionsAreWhole ==
    ASSUME NEW x \in AnyIndex, x.kind \in Optional
    PROVE  IF IsPrintable(x) THEN Whole(Options(x)) ELSE Broken(Options(x))
<1>1. CASE x.kind = "ANN"
  <2>1. Options(x) = Ann(x)
    BY <1>1 DEF Options
  <2> QED BY <1>1, <2>1, AnnIsWhole
<1>2. CASE x.kind = "MIN_HASH"
  <2>1. Options(x) = MinHash(x) /\ IsPrintable(x)
    BY <1>2 DEF Options, IsPrintable
  <2> QED BY <2>1, MinHashIsWhole
<1>3. CASE x.kind = "LEARNED_RANGE"
  <2>1. Options(x) = LearnedRange(x) /\ IsPrintable(x)
    BY <1>3 DEF Options, IsPrintable
  <2>2. Whole(LearnedRange(x))
    BY IndexLabels, IndexSettings, OneIsWhole DEF LearnedRange
  <2> QED BY <2>1, <2>2
<1> QED BY <1>1, <1>2, <1>3 DEF Optional

LEMMA IndexIsWhole ==
    ASSUME NEW x \in AnyIndex
    PROVE  IF IsPrintable(x) THEN Whole(Index(x)) ELSE Broken(Index(x))
<1> DEFINE v == First("name", << Text(x.name) >>)
           column == Also("column_id", << Number(x.column_id) >>)
           kind == Also("kind", << KindName(x.kind) >>)
           predicate == Given(x.predicate # NULL, Also("predicate", << x.predicate >>))
           some == One(KindName(x.kind), Options(x))
           options == Given(x.kind \in Optional, Also("options", some))
<1>1. OpenObject(v) /\ Members(column) /\ Members(kind)
  BY IndexFields, IndexLabels, IndexNames, Single, ObjectOpens, MemberIsMore
<1>2. Members(predicate)
  <2>1. ASSUME x.predicate # NULL PROVE Members(Also("predicate", << x.predicate >>))
    BY <2>1, IndexFields, IndexLabels, Single, MemberIsMore
  <2> QED BY <2>1, MembersGiven
<1>3. IF IsPrintable(x) THEN Members(options) ELSE Broken(options)
  <2>1. CASE x.kind \in Optional
    <3>1. options = Also("options", some)
      BY <2>1 DEF Given
    <3>2. IF IsPrintable(x) THEN Whole(Options(x)) ELSE Broken(Options(x))
      BY <2>1, OptionsAreWhole
    <3>3. IF IsPrintable(x) THEN Whole(some) ELSE Broken(some)
      BY <3>2, IndexNames, OneIsWhole
    <3> HIDE DEF some
    <3> QED BY <3>1, <3>3, IndexLabels, MemberIsMore, OneIsWhole
  <2>2. CASE x.kind \notin Optional
    <3>1. options = << >> /\ IsPrintable(x)
      BY <2>2 DEF Given, Optional, IsPrintable
    <3> QED BY <3>1, NoMembers
  <2> QED BY <2>1, <2>2
<1>4. Index(x) = v \o column \o kind \o predicate \o options \o End
  BY DEF Index
<1> HIDE DEF v, column, kind, predicate, options
<1>5. CASE IsPrintable(x)
  <2>1. Members(options)
    BY <1>3, <1>5
  <2>2. Whole(Index(x))
    BY <1>1, <1>2, <1>4, <2>1, GoesOnWith, ObjectCloses
  <2> QED BY <1>5, <2>2
<1>6. CASE ~ IsPrintable(x)
  <2>1. Broken(options)
    BY <1>3, <1>6
  <2> DEFINE before == v \o column \o kind \o predicate
  <2>2. OpenObject(before)
    BY <1>1, <1>2, GoesOnWith
  <2>3. Index(x) = before \o options \o End
    BY <1>4
  <2> HIDE DEF before
  <2>4. before \in Seq(Tokens) /\ End \in Seq(Tokens)
    BY <2>2, AreTokens DEF OpenObject, End
  <2>5. Broken(before \o options)
    BY <2>1, <2>4, BrokenStays
  <2>6. Broken(Index(x))
    BY <2>3, <2>4, <2>5, BrokenStays
  <2> QED BY <1>6, <2>6
<1> QED BY <1>5, <1>6

(* A list of what is given, some of whose elements are broken.             *)
LEMMA ListBreaks ==
    ASSUME NEW S, NEW s \in Seq(S), NEW parts, parts = [i \in DOMAIN s |-> parts[i]],
           \A i \in 1 .. Len(s) : parts[i] \in Seq(Tokens),
           NEW n \in 1 .. Len(s), Broken(parts[n])
    PROVE  Broken(List(parts))
<1>1. parts \in Seq(Seq(Tokens)) /\ Len(parts) = Len(s)
  BY Mapped
<1> QED BY <1>1, ListOfTokens

(* More of an object, and then its end: whole when that is more members,   *)
(* and broken when that is.                                                *)
LEMMA MoreAndEnd ==
    ASSUME NEW v, OpenObject(v), NEW m
    PROVE  /\ Members(m) => Whole(v \o m \o End)
           /\ Broken(m) => Broken(v \o m \o End)
<1>1. Members(m) => Whole(v \o m \o End)
  BY GoesOnWith, ObjectCloses
<1>2. ASSUME Broken(m) PROVE Broken(v \o m \o End)
  <2>1. v \in Seq(Tokens) /\ End \in Seq(Tokens)
    BY AreTokens DEF OpenObject, End
  <2>2. Broken(v \o m)
    BY <1>2, <2>1, BrokenStays
  <2> QED BY <2>1, <2>2, BrokenStays
<1> QED BY <1>1, <1>2

LEMMA RequestLabels ==
    /\ "name" \in Names /\ "columns" \in Names /\ "constraints" \in Names
    /\ "indexes" \in Names /\ "ops" \in Names /\ "idempotency_key" \in Names
    /\ "table" \in Names /\ "cells" \in Names /\ "returning" \in Names
    /\ "update_cells" \in Names /\ "row_id" \in Names /\ "pk" \in Names
    /\ "put" \in Names /\ "upsert" \in Names /\ "delete" \in Names
    /\ "delete_by_pk" \in Names /\ "conditions" \in Names /\ "projection" \in Names
    /\ "limit" \in Names /\ "offset" \in Names /\ "column_id" \in Names
    /\ "value" \in Names /\ "lo" \in Names /\ "hi" \in Names /\ "pattern" \in Names
    /\ "bitmap_eq" \in Names /\ "range" \in Names /\ "fm_contains" \in Names
    /\ "is_null" \in Names /\ "is_not_null" \in Names /\ "sql" \in Names
    /\ "format" \in Names /\ "json" \in Names /\ "embedding_column" \in Names
    /\ "text" \in Names /\ "k" \in Names /\ "history_retention_epochs" \in Names
BY LabelsAreNames DEF Labels

LEMMA CreateTableIs ==
    ASSUME NEW r, r.name \in Names, r.columns \in Seq(AnyColumn),
           r.constraints \in Maybe(RawJson \cup {<< >>}), r.indexes \in Seq(AnyIndex)
    PROVE  IF \A i \in DOMAIN r.indexes : IsPrintable(r.indexes[i])
           THEN Whole(CreateTable(r)) ELSE Broken(CreateTable(r))
<1> DEFINE v == First("name", << r.name >>)
           told == [i \in DOMAIN r.columns |-> Column(r.columns[i])]
           columns == Also("columns", List(told))
           constraints == Given(~ Blank(r.constraints), Also("constraints", r.constraints))
           parts == [i \in DOMAIN r.indexes |-> Index(r.indexes[i])]
           indexes == Given(r.indexes # << >>, Also("indexes", List(parts)))
           printable == \A i \in DOMAIN r.indexes : IsPrintable(r.indexes[i])
<1>1. OpenObject(v)
  BY RequestLabels, Single, ObjectOpens
<1>2. Members(columns)
  <2>1. ASSUME NEW i \in 1 .. Len(r.columns) PROVE Elements(told[i])
    <3>1. r.columns[i] \in AnyColumn /\ told[i] = Column(r.columns[i])
      OBVIOUS
    <3> HIDE DEF told
    <3> QED BY <3>1, ColumnIsWhole, WholeIsElement
  <2>2. told = [i \in DOMAIN r.columns |-> told[i]]
    OBVIOUS
  <2> HIDE DEF told
  <2>3. Whole(List(told))
    BY <2>1, <2>2, ListOf
  <2> QED BY <2>3, RequestLabels, MemberIsMore
<1>3. Members(constraints)
  <2>1. ASSUME ~ Blank(r.constraints) PROVE Members(Also("constraints", r.constraints))
    <3>1. r.constraints \in RawJson
      BY <2>1 DEF Blank, Maybe
    <3> QED BY <3>1, RequestLabels, RawIsWhole, MemberIsMore
  <2> QED BY <2>1, MembersGiven DEF Blank
<1>4. IF printable THEN Members(indexes) ELSE Broken(indexes)
  <2>1. ASSUME NEW i \in 1 .. Len(r.indexes)
        PROVE  IF IsPrintable(r.indexes[i]) THEN Whole(parts[i]) ELSE Broken(parts[i])
    <3>1. r.indexes[i] \in AnyIndex /\ parts[i] = Index(r.indexes[i])
      OBVIOUS
    <3> HIDE DEF parts
    <3> QED BY <3>1, IndexIsWhole
  <2>2. parts = [i \in DOMAIN r.indexes |-> parts[i]] /\ DOMAIN r.indexes = 1 .. Len(r.indexes)
    OBVIOUS
  <2> HIDE DEF parts
  <2>3. CASE printable
    <3>1. \A i \in 1 .. Len(r.indexes) : Elements(parts[i])
      BY <2>1, <2>2, <2>3, WholeIsElement
    <3>2. Whole(List(parts))
      BY <2>2, <3>1, ListOf
    <3>3. Members(indexes)
      BY <3>2, RequestLabels, MemberIsMore, MembersGiven
    <3> QED BY <2>3, <3>3
  <2>4. CASE ~ printable
    <3>1. PICK n \in 1 .. Len(r.indexes) : ~ IsPrintable(r.indexes[n])
      BY <2>2, <2>4
    <3>2. Broken(parts[n])
      BY <2>1, <3>1
    <3>3. \A i \in 1 .. Len(r.indexes) : parts[i] \in Seq(Tokens)
      BY <2>1 DEF Whole, Broken
    <3>4. Broken(List(parts))
      BY <2>2, <3>2, <3>3, ListBreaks
    <3>5. r.indexes # << >>
      OBVIOUS
    <3>6. Broken(indexes)
      BY <3>4, <3>5, RequestLabels, OneIsWhole DEF Given
    <3> QED BY <2>4, <3>6
  <2> QED BY <2>3, <2>4
<1>5. CreateTable(r) = v \o columns \o constraints \o indexes \o End
  BY DEF CreateTable
<1> HIDE DEF v, columns, constraints, indexes
<1>6. OpenObject(v \o columns \o constraints)
  BY <1>1, <1>2, <1>3, GoesOnWith
<1>7. IF printable THEN Whole(CreateTable(r)) ELSE Broken(CreateTable(r))
  BY <1>4, <1>5, <1>6, MoreAndEnd
<1> QED BY <1>7

-----------------------------------------------------------------------------
LEMMA OpIsWhole == ASSUME NEW op \in AnyOp PROVE Whole(Op(op))
<1> DEFINE table == First("table", << Text(op.table) >>)
           on(more) == One(op.type, table \o more \o End)
           returning == Also("returning", << "false" >>)
<1>1. op.table \in Maybe(Names) /\ op.type \in {"put", "upsert", "delete", "delete_by_pk"}
  BY DEF AnyOp
<1>2. OpenObject(table) /\ Members(returning) /\ op.type \in Names
  BY <1>1, RequestLabels, Single, ObjectOpens, MemberIsMore
<1>3. ASSUME NEW more, Members(more) PROVE Whole(on(more))
  <2> HIDE DEF table
  <2> QED BY <1>2, <1>3, MoreAndEnd, OneIsWhole
<1>4. CASE op.type = "put"
  <2>1. op.cells \in Seq(AnyCell)
    BY <1>4 DEF AnyOp
  <2> DEFINE more == Also("cells", Cells(op.cells)) \o returning
  <2>2. Op(op) = on(more)
    BY <1>4 DEF Op
  <2> HIDE DEF returning, on
  <2>3. Members(more)
    BY <1>2, <2>1, RequestLabels, CellsAreWhole, MemberIsMore, MembersJoin
  <2> QED BY <1>3, <2>2, <2>3
<1>5. CASE op.type = "upsert"
  <2>1. op.cells \in Seq(AnyCell) /\ op.update_cells \in Seq(AnyCell)
    BY <1>5 DEF AnyOp
  <2> DEFINE cells == Also("cells", Cells(op.cells))
             update == Given(op.update_cells # << >>, Also("update_cells", Cells(op.update_cells)))
             more == cells \o update \o returning
  <2>2. Op(op) = on(more)
    BY <1>5 DEF Op
  <2>3. Members(cells) /\ Members(update)
    BY <2>1, RequestLabels, CellsAreWhole, MemberIsMore, MembersGiven
  <2> HIDE DEF returning, on, cells, update
  <2>4. Members(more)
    BY <1>2, <2>3, MembersJoin
  <2> QED BY <1>3, <2>2, <2>4
<1>6. CASE op.type = "delete"
  <2>1. op.row_id \in Ints
    BY <1>6 DEF AnyOp
  <2>2. Op(op) = on(Also("row_id", << Number(op.row_id) >>))
    BY <1>6 DEF Op
  <2>3. Members(Also("row_id", << Number(op.row_id) >>))
    BY <2>1, RequestLabels, Single, MemberIsMore
  <2> QED BY <1>3, <2>2, <2>3
<1>7. CASE op.type = "delete_by_pk"
  <2>1. op.pk_value \in AnyValue
    BY <1>7 DEF AnyOp
  <2>2. Op(op) = on(Also("pk", OfValue(op.pk_value)))
    BY <1>7 DEF Op
  <2>3. Members(Also("pk", OfValue(op.pk_value)))
    BY <2>1, RequestLabels, ValuesAreWhole, MemberIsMore
  <2> QED BY <1>3, <2>2, <2>3
<1> QED BY <1>1, <1>4, <1>5, <1>6, <1>7

LEMMA TxnIsWhole ==
    ASSUME NEW r, r.ops \in Seq(AnyOp), r.idempotency_key \in Maybe(Names)
    PROVE  Whole(Txn(r))
<1> DEFINE parts == [i \in DOMAIN r.ops |-> Op(r.ops[i])]
           v == First("ops", List(parts))
           key == Given(r.idempotency_key \notin {NULL, Empty},
                        Also("idempotency_key", << r.idempotency_key >>))
<1>1. OpenObject(v)
  <2>1. ASSUME NEW i \in 1 .. Len(r.ops) PROVE Elements(parts[i])
    <3>1. r.ops[i] \in AnyOp /\ parts[i] = Op(r.ops[i])
      OBVIOUS
    <3> HIDE DEF parts
    <3> QED BY <3>1, OpIsWhole, WholeIsElement
  <2>2. parts = [i \in DOMAIN r.ops |-> parts[i]]
    OBVIOUS
  <2> HIDE DEF parts
  <2>3. Whole(List(parts))
    BY <2>1, <2>2, ListOf
  <2> QED BY <2>3, RequestLabels, ObjectOpens
<1>2. Members(key)
  <2>1. ASSUME r.idempotency_key \notin {NULL, Empty}
        PROVE  Members(Also("idempotency_key", << r.idempotency_key >>))
    <3>1. r.idempotency_key \in Names
      BY <2>1 DEF Maybe
    <3> QED BY <3>1, RequestLabels, Single, MemberIsMore
  <2> QED BY <2>1, MembersGiven
<1>3. Txn(r) = v \o key \o End
  BY DEF Txn
<1> HIDE DEF v, key
<1> QED BY <1>1, <1>2, <1>3, MoreAndEnd

-----------------------------------------------------------------------------
LEMMA OnColumnIs ==
    ASSUME NEW c, c.kind \in Names, c.column_id \in Ints, NEW more
    PROVE  /\ Members(more) => Whole(OnColumn(c, more))
           /\ Broken(more) => Broken(OnColumn(c, more))
<1> DEFINE v == First("column_id", << Number(c.column_id) >>)
<1>1. OpenObject(v)
  BY RequestLabels, Single, ObjectOpens
<1>2. OnColumn(c, more) = One(c.kind, v \o more \o End)
  BY DEF OnColumn
<1> HIDE DEF v
<1>3. /\ Members(more) => Whole(v \o more \o End)
      /\ Broken(more) => Broken(v \o more \o End)
  BY <1>1, MoreAndEnd
<1> QED BY <1>2, <1>3, OneIsWhole

(* A bound of a range.                                                     *)
LEMMA BoundIs ==
    ASSUME NEW key \in Names, NEW set \in BOOLEAN, NEW x \in Ints \cup {NotFinite}
    PROVE  IF set => x # NotFinite THEN Members(Given(set, Also(key, << Formatted(x) >>)))
           ELSE Broken(Given(set, Also(key, << Formatted(x) >>)))
<1>1. CASE ~ set
  BY <1>1, NoMembers DEF Given
<1>2. CASE set /\ x # NotFinite
  <2>1. Whole(<< Formatted(x) >>)
    BY <1>2, Single DEF Formatted
  <2>2. Members(Also(key, << Formatted(x) >>))
    BY <2>1, MemberIsMore
  <2> QED BY <1>2, <2>2 DEF Given
<1>3. CASE set /\ x = NotFinite
  <2>1. << Formatted(x) >> = << Unknown >>
    BY <1>3 DEF Formatted
  <2>2. Broken(Also(key, << Formatted(x) >>))
    BY <2>1, UnknownIsBroken, OneIsWhole
  <2> QED BY <1>3, <2>2 DEF Given
<1> QED BY <1>1, <1>2, <1>3

LEMMA ConditionIs ==
    ASSUME NEW c \in AnyCondition
    PROVE  IF IsFinite(c) THEN Whole(Condition(c)) ELSE Broken(Condition(c))
<1>1. /\ c.column_id \in Ints /\ c.str_value \in Maybe(Names) /\ c.int_value \in Ints
      /\ c.lo_set \in BOOLEAN /\ c.hi_set \in BOOLEAN /\ c.lo \in Ints \cup {NotFinite}
      /\ c.hi \in Ints \cup {NotFinite} /\ c.condition_json \in Maybe(RawJson \cup {<< >>})
  BY DEF AnyCondition
<1>2. CASE ~ Blank(c.condition_json)
  <2>1. c.condition_json \in RawJson
    BY <1>1, <1>2 DEF Blank, Maybe
  <2>2. Condition(c) = c.condition_json /\ IsFinite(c)
    BY <1>2 DEF Condition, IsFinite
  <2> QED BY <2>1, <2>2, RawIsWhole
<1>3. CASE Blank(c.condition_json) /\ c.kind = "pk"
  <2> DEFINE x == << IF c.str_value # NULL THEN c.str_value ELSE Number(c.int_value) >>
  <2>1. Condition(c) = One("pk", One("value", x)) /\ IsFinite(c)
    BY <1>3 DEF Condition, IsFinite
  <2>2. Whole(x)
    <3>1. CASE c.str_value # NULL
      BY <1>1, <3>1, Single DEF Maybe
    <3>2. CASE c.str_value = NULL
      BY <1>1, <3>2, Single
    <3> QED BY <3>1, <3>2
  <2> HIDE DEF x
  <2> QED BY <2>1, <2>2, RequestLabels, OneIsWhole
<1>4. CASE Blank(c.condition_json) /\ c.kind = "bitmap_eq"
  <2>1. Condition(c) = OnColumn(c, Also("value", << Text(c.str_value) >>)) /\ IsFinite(c)
    BY <1>4 DEF Condition, IsFinite
  <2>2. Members(Also("value", << Text(c.str_value) >>)) /\ c.kind \in Names
    BY <1>1, <1>4, RequestLabels, Single, MemberIsMore
  <2> QED BY <1>1, <2>1, <2>2, OnColumnIs
<1>5. CASE Blank(c.condition_json) /\ c.kind = "range"
  <2> DEFINE lo == Given(c.lo_set, Also("lo", << Formatted(c.lo) >>))
             hi == Given(c.hi_set, Also("hi", << Formatted(c.hi) >>))
  <2>1. Condition(c) = OnColumn(c, lo \o hi)
    BY <1>5 DEF Condition
  <2>2. IsFinite(c) <=> (c.lo_set => c.lo # NotFinite) /\ (c.hi_set => c.hi # NotFinite)
    BY <1>5 DEF IsFinite
  <2>3. IF c.lo_set => c.lo # NotFinite THEN Members(lo) ELSE Broken(lo)
    BY <1>1, RequestLabels, BoundIs
  <2>4. IF c.hi_set => c.hi # NotFinite THEN Members(hi) ELSE Broken(hi)
    BY <1>1, RequestLabels, BoundIs
  <2>5. c.kind \in Names
    BY <1>5, RequestLabels
  <2> HIDE DEF lo, hi
  <2>6. CASE IsFinite(c)
    <3>1. Members(lo \o hi)
      BY <2>2, <2>3, <2>4, <2>6, MembersJoin
    <3> QED BY <1>1, <2>1, <2>5, <2>6, <3>1, OnColumnIs
  <2>7. CASE ~ IsFinite(c)
    <3>1. lo \in Seq(Tokens) /\ hi \in Seq(Tokens)
      BY <2>3, <2>4 DEF Members, Broken
    <3>2. Broken(lo) \/ Broken(hi)
      BY <2>2, <2>3, <2>4, <2>7
    <3>3. Broken(lo \o hi)
      BY <3>1, <3>2, BrokenStays
    <3> QED BY <1>1, <2>1, <2>5, <2>7, <3>3, OnColumnIs
  <2> QED BY <2>6, <2>7
<1>6. CASE Blank(c.condition_json) /\ c.kind = "fm_contains"
  <2>1. Condition(c) = OnColumn(c, Also("pattern", << Text(c.str_value) >>)) /\ IsFinite(c)
    BY <1>6 DEF Condition, IsFinite
  <2>2. Members(Also("pattern", << Text(c.str_value) >>)) /\ c.kind \in Names
    BY <1>1, <1>6, RequestLabels, Single, MemberIsMore
  <2> QED BY <1>1, <2>1, <2>2, OnColumnIs
<1>7. CASE Blank(c.condition_json) /\ c.kind \in {"is_null", "is_not_null"}
  <2>1. Condition(c) = OnColumn(c, << >>) /\ IsFinite(c)
    BY <1>7 DEF Condition, IsFinite
  <2>2. c.kind \in Names
    BY <1>7, RequestLabels
  <2> QED BY <1>1, <2>1, <2>2, NoMembers, OnColumnIs
<1>8. CASE /\ Blank(c.condition_json)
           /\ c.kind \notin {"pk", "bitmap_eq", "range", "fm_contains", "is_null", "is_not_null"}
  <2>1. Condition(c) = One("pk", One("value", << "null" >>)) /\ IsFinite(c)
    BY <1>8 DEF Condition, IsFinite
  <2> QED BY <2>1, RequestLabels, Single, OneIsWhole
<1> QED BY <1>2, <1>3, <1>4, <1>5, <1>6, <1>7, <1>8

LEMMA QueryIs ==
    ASSUME NEW r, r.table \in Names, r.conditions \in Seq(AnyCondition),
           r.projection \in Seq(Ints), r.limit \in Ints, r.offset \in Ints
    PROVE  IF \A i \in DOMAIN r.conditions : IsFinite(r.conditions[i])
           THEN Whole(Query(r)) ELSE Broken(Query(r))
<1> DEFINE v == First("table", << r.table >>)
           parts == [i \in DOMAIN r.conditions |-> Condition(r.conditions[i])]
           conditions == Given(r.conditions # << >>, Also("conditions", List(parts)))
           ids == [i \in DOMAIN r.projection |-> << Number(r.projection[i]) >>]
           projection == Given(r.projection # << >>, Also("projection", List(ids)))
           limit == Given(r.limit > 0, Also("limit", << Number(r.limit) >>))
           offset == Given(r.offset # 0, Also("offset", << Number(r.offset) >>))
           finite == \A i \in DOMAIN r.conditions : IsFinite(r.conditions[i])
<1>1. OpenObject(v)
  BY RequestLabels, Single, ObjectOpens
<1>2. IF finite THEN Members(conditions) ELSE Broken(conditions)
  <2>1. ASSUME NEW i \in 1 .. Len(r.conditions)
        PROVE  IF IsFinite(r.conditions[i]) THEN Whole(parts[i]) ELSE Broken(parts[i])
    <3>1. r.conditions[i] \in AnyCondition /\ parts[i] = Condition(r.conditions[i])
      OBVIOUS
    <3> HIDE DEF parts
    <3> QED BY <3>1, ConditionIs
  <2>2. /\ parts = [i \in DOMAIN r.conditions |-> parts[i]]
        /\ DOMAIN r.conditions = 1 .. Len(r.conditions)
    OBVIOUS
  <2> HIDE DEF parts
  <2>3. CASE finite
    <3>1. \A i \in 1 .. Len(r.conditions) : Elements(parts[i])
      BY <2>1, <2>2, <2>3, WholeIsElement
    <3>2. Whole(List(parts))
      BY <2>2, <3>1, ListOf
    <3>3. Members(conditions)
      BY <3>2, RequestLabels, MemberIsMore, MembersGiven
    <3> QED BY <2>3, <3>3
  <2>4. CASE ~ finite
    <3>1. PICK n \in 1 .. Len(r.conditions) : ~ IsFinite(r.conditions[n])
      BY <2>2, <2>4
    <3>2. Broken(parts[n])
      BY <2>1, <3>1
    <3>3. \A i \in 1 .. Len(r.conditions) : parts[i] \in Seq(Tokens)
      BY <2>1 DEF Whole, Broken
    <3>4. Broken(List(parts))
      BY <2>2, <3>2, <3>3, ListBreaks
    <3>5. r.conditions # << >>
      OBVIOUS
    <3>6. Broken(conditions)
      BY <3>4, <3>5, RequestLabels, OneIsWhole DEF Given
    <3> QED BY <2>4, <3>6
  <2> QED BY <2>3, <2>4
<1>3. Members(projection) /\ Members(limit) /\ Members(offset)
  <2>1. ASSUME NEW i \in 1 .. Len(r.projection) PROVE Elements(ids[i])
    <3>1. r.projection[i] \in Ints /\ ids[i] = << Number(r.projection[i]) >>
      OBVIOUS
    <3> HIDE DEF ids
    <3> QED BY <3>1, Single, WholeIsElement
  <2>2. ids = [i \in DOMAIN r.projection |-> ids[i]]
    OBVIOUS
  <2> HIDE DEF ids
  <2>3. Whole(List(ids))
    BY <2>1, <2>2, ListOf
  <2>4. Members(Also("projection", List(ids)))
    BY <2>3, RequestLabels, MemberIsMore
  <2>5. Members(Also("limit", << Number(r.limit) >>))
    BY RequestLabels, Single, MemberIsMore
  <2>6. Members(Also("offset", << Number(r.offset) >>))
    BY RequestLabels, Single, MemberIsMore
  <2>7. Members(projection) /\ Members(offset)
    BY <2>4, <2>6, MembersGiven
  <2>8. Members(limit)
    BY <2>5, NoMembers DEF Given
  <2> QED BY <2>7, <2>8
<1>4. Query(r) = v \o conditions \o projection \o limit \o offset \o End
  BY DEF Query
<1> HIDE DEF v, conditions, projection, limit, offset
<1>5. CASE finite
  <2>1. Members(conditions)
    BY <1>2, <1>5
  <2>2. Whole(Query(r))
    BY <1>1, <1>3, <1>4, <2>1, GoesOnWith, ObjectCloses
  <2> QED BY <1>5, <2>2
<1>6. CASE ~ finite
  <2> DEFINE begun == v \o conditions
             more == begun \o projection
             most == more \o limit
             all == most \o offset
  <2>1. /\ projection \in Seq(Tokens) /\ limit \in Seq(Tokens) /\ offset \in Seq(Tokens)
        /\ v \in Seq(Tokens) /\ End \in Seq(Tokens)
    BY <1>1, <1>3, AreTokens DEF OpenObject, Members, End
  <2>2. Broken(begun)
    BY <1>2, <1>6, <2>1, BrokenStays
  <2>3. Query(r) = all \o End
    BY <1>4
  <2> HIDE DEF begun
  <2>4. Broken(more)
    BY <2>1, <2>2, BrokenStays
  <2> HIDE DEF more
  <2>5. Broken(most)
    BY <2>1, <2>4, BrokenStays
  <2> HIDE DEF most
  <2>6. Broken(all)
    BY <2>1, <2>5, BrokenStays
  <2> HIDE DEF all
  <2>7. Broken(Query(r))
    BY <2>1, <2>3, <2>6, BrokenStays
  <2> QED BY <1>6, <2>7
<1> QED BY <1>5, <1>6

-----------------------------------------------------------------------------
LEMMA SqlIsWhole == ASSUME NEW r, r.sql \in Names PROVE Whole(Sql(r))
<1> DEFINE v == First("sql", << r.sql >>)
           format == Also("format", << "json" >>)
<1>1. OpenObject(v) /\ Members(format)
  BY RequestLabels, Single, ObjectOpens, MemberIsMore
<1>2. Sql(r) = v \o format \o End
  BY DEF Sql
<1> HIDE DEF v, format
<1> QED BY <1>1, <1>2, MoreAndEnd

LEMMA RetrieveTextIsWhole ==
    ASSUME NEW r, r.table \in Names, r.embedding_column \in Ints, r.text \in Names,
           r.k \in Ints
    PROVE  Whole(RetrieveText(r))
<1> DEFINE v == First("table", << r.table >>)
           column == Also("embedding_column", << Number(r.embedding_column) >>)
           sought == Also("text", << r.text >>)
           k == Given(r.k > 0, Also("k", << Number(r.k) >>))
<1>1. OpenObject(v) /\ Members(column) /\ Members(sought)
  BY RequestLabels, Single, ObjectOpens, MemberIsMore
<1>2. Members(k)
  <2>1. Members(Also("k", << Number(r.k) >>))
    BY RequestLabels, Single, MemberIsMore
  <2> QED BY <2>1, NoMembers DEF Given
<1>3. RetrieveText(r) = v \o column \o sought \o k \o End
  BY DEF RetrieveText
<1> HIDE DEF v, column, sought, k
<1> QED BY <1>1, <1>2, <1>3, GoesOnWith, ObjectCloses

LEMMA RetentionIsWhole == ASSUME NEW r, r.epochs \in Ints PROVE Whole(Retention(r))
BY RequestLabels, Single, OneIsWhole DEF Retention

LEMMA Pair == \A a \in Tokens, b \in Tokens : << a >> \o << b >> = << a, b >>
<1> SUFFICES ASSUME NEW a \in Tokens, NEW b \in Tokens
             PROVE  << a >> \o << b >> = << a, b >>
  OBVIOUS
<1> DEFINE v == << a >>
           w == << b >>
           p == << a, b >>
<1>1. v \in Seq(Tokens) /\ w \in Seq(Tokens) /\ p \in Seq(Tokens)
      /\ Len(v) = 1 /\ Len(w) = 1 /\ Len(p) = 2
      /\ v[1] = a /\ w[1] = b /\ p[1] = a /\ p[2] = b
  OBVIOUS
<1> HIDE DEF v, w, p
<1>2. /\ v \o w \in Seq(Tokens) /\ Len(v \o w) = 2
      /\ (v \o w)[1] = a /\ (v \o w)[2] = b
  BY <1>1, Joined
<1>3. v \o w = p
  BY <1>1, <1>2, SeqEqual
<1> QED BY <1>3 DEF v, w, p

(* The body of cancel_query is {}.                                         *)
LEMMA EmptyObjectIsWhole == Whole(<< BeginObject >> \o End)
<1> DEFINE v == << BeginObject >> \o End
<1>1. << BeginObject >> \in Seq(Tokens) /\ End \in Seq(Tokens) /\ v = << BeginObject, EndObject >>
  BY AreTokens, Pair DEF End
<1>2. v \in Seq(Tokens) /\ v # << >> /\ v[1] # EndArray /\ Len(v) = 2
  <2>1. BeginObject # EndArray
    BY TokenFacts
  <2> HIDE DEF v
  <2> QED BY <1>1, <2>1, AreTokens
<1>3. ASSUME NEW t, NEW i, Stands(v, t, i)
      PROVE  Walk(t)[<< "value", i >>] = i + Len(v)
  <2> DEFINE b == << BeginObject >>
             e == End
  <2>1. /\ t \in Seq(Tokens) /\ i \in 1 .. Len(t) + 1 /\ Stands(b, t, i)
        /\ Stands(e, t, i + Len(b))
    <3>1. b \in Seq(Tokens) /\ e \in Seq(Tokens) /\ Stands(b \o e, t, i)
      BY <1>1, <1>3
    <3> HIDE DEF b, e
    <3> QED BY <3>1, StandsBoth
  <2>2. At(t, i) = BeginObject /\ i + Len(b) = i + 1
    BY <2>1, AreTokens, StandsOne DEF b
  <2>3. At(t, i + 1) = EndObject
    BY <2>1, <2>2, AreTokens, StandsOne DEF End
  <2> DEFINE w == Walk(t)
  <2>4. w[<< "value", i >>] = Opened(t, w, i, "members", EndObject)
    BY <2>1, <2>2, WalkOn
  <2> HIDE DEF w, v
  <2>5. w[<< "value", i >>] = i + 2
    BY <2>3, <2>4 DEF Opened
  <2> QED BY <1>2, <2>5 DEF w
<1> HIDE DEF v
<1>4. Whole(v)
  BY <1>2, <1>3 DEF Whole
<1> QED BY <1>4 DEF v

-----------------------------------------------------------------------------
LEMMA BodyIs ==
    ASSUME NEW r \in AnyRequest
    PROVE  IF CanBeSaid(r) THEN Whole(Body(r)) ELSE Broken(Body(r))
<1>1. CASE r.call = "create_table"
  <2>1. /\ r.name \in Names /\ r.columns \in Seq(AnyColumn)
        /\ r.constraints \in Maybe(RawJson \cup {<< >>}) /\ r.indexes \in Seq(AnyIndex)
    BY <1>1 DEF AnyRequest
  <2>2. CanBeSaid(r) <=> \A i \in DOMAIN r.indexes : IsPrintable(r.indexes[i])
    BY <1>1 DEF CanBeSaid
  <2>3. Body(r) = CreateTable(r)
    BY <1>1 DEF Body
  <2> QED BY <2>1, <2>2, <2>3, CreateTableIs
<1>2. CASE r.call = "query"
  <2>1. /\ r.table \in Names /\ r.conditions \in Seq(AnyCondition)
        /\ r.projection \in Seq(Ints) /\ r.limit \in Ints /\ r.offset \in Ints
    BY <1>2 DEF AnyRequest
  <2>2. CanBeSaid(r) <=> \A i \in DOMAIN r.conditions : IsFinite(r.conditions[i])
    BY <1>2 DEF CanBeSaid
  <2>3. Body(r) = Query(r)
    BY <1>2 DEF Body
  <2> QED BY <2>1, <2>2, <2>3, QueryIs
<1>3. CASE r.call \notin {"create_table", "query"}
  <2>1. CanBeSaid(r)
    BY <1>3 DEF CanBeSaid
  <2>2. CASE r.call = "commit"
    <3>1. r.ops \in Seq(AnyOp) /\ r.idempotency_key \in Maybe(Names)
      BY <2>2 DEF AnyRequest
    <3>2. Body(r) = Txn(r)
      BY <2>2 DEF Body
    <3> QED BY <2>1, <3>1, <3>2, TxnIsWhole
  <2>3. CASE r.call = "sql"
    <3>1. r.sql \in Names
      BY <2>3 DEF AnyRequest
    <3>2. Body(r) = Sql(r)
      BY <2>3 DEF Body
    <3> QED BY <2>1, <3>1, <3>2, SqlIsWhole
  <2>4. CASE r.call = "retrieve_text"
    <3>1. /\ r.table \in Names /\ r.embedding_column \in Ints /\ r.text \in Names
          /\ r.k \in Ints
      BY <2>4 DEF AnyRequest
    <3>2. Body(r) = RetrieveText(r)
      BY <2>4 DEF Body
    <3> QED BY <2>1, <3>1, <3>2, RetrieveTextIsWhole
  <2>5. CASE r.call = "history_retention_set"
    <3>1. r.epochs \in Ints
      BY <2>5 DEF AnyRequest
    <3>2. Body(r) = Retention(r)
      BY <2>5 DEF Body
    <3> QED BY <2>1, <3>1, <3>2, RetentionIsWhole
  <2>6. CASE r.call = "cancel_query"
    <3>1. Body(r) = << BeginObject, EndObject >>
      BY <2>6 DEF Body
    <3>2. << BeginObject >> \o End = << BeginObject, EndObject >>
      BY AreTokens, Pair DEF End
    <3> QED BY <2>1, <3>1, <3>2, EmptyObjectIsWhole
  <2>7. r.call \in {"commit", "sql", "retrieve_text", "history_retention_set", "cancel_query"}
    BY <1>3 DEF AnyRequest
  <2> QED BY <2>2, <2>3, <2>4, <2>5, <2>6, <2>7
<1> QED BY <1>1, <1>2, <1>3

(* What is posted is one JSON value: whatever an application asks for, and *)
(* however many columns, cells, conditions and operations it gives, the    *)
(* body that the calls of mongreldb.c write is a value of the grammar from *)
(* its first token to its last, unless a bound of a range is NaN or        *)
(* infinite or the settings of an index outgrow their buffer; and in those *)
(* two cases it never is.                                                  *)
THEOREM BodiesAreJson == WireSpec => []BodyIsJson
<1> DEFINE Inv == asked \in Requests \cup {NULL}
<1>1. WireInit => Inv
  BY DEF WireInit
<1>2. Inv /\ [WireNext]_wire => Inv'
  <2> SUFFICES ASSUME Inv, [WireNext]_wire PROVE Inv'
    OBVIOUS
  <2>1. CASE \E r \in Requests : Post(r)
    BY <2>1 DEF Post
  <2>2. CASE \E token \in Heard : Arrive(token)
    BY <2>2 DEF Arrive
  <2>3. CASE UNCHANGED wire
    BY <2>3 DEF wire
  <2> QED BY <2>1, <2>2, <2>3 DEF WireNext
<1>3. Inv => BodyIsJson
  <2> SUFFICES ASSUME Inv, asked # NULL
               PROVE  CanBeSaid(asked) <=> ValueEnd(Body(asked), 1) = Len(Body(asked)) + 1
    BY DEF BodyIsJson
  <2>1. asked \in AnyRequest
    BY RequestsAssumption
  <2>2. IF CanBeSaid(asked) THEN Whole(Body(asked)) ELSE Broken(Body(asked))
    BY <2>1, BodyIs
  <2> QED BY <2>2, WholeIsValue, BrokenIsNoValue
<1> QED BY <1>1, <1>2, <1>3, PTL DEF WireSpec
=============================================================================
