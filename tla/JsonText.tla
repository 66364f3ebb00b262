------------------------------ MODULE JsonText ------------------------------
(***************************************************************************)
(* Strings on the wire: json_escape spells a C string as a JSON string,    *)
(* jp_string finds where a JSON string ends, and parse_scalar_into and     *)
(* json_get_string (with the same loop) decode what lies between the       *)
(* quotes into memory reserved for as many bytes as it has.                *)
(*                                                                         *)
(* A string is either staged by the application, spelled by the client and *)
(* sent back by the daemon as it was spelled, or written by the daemon in  *)
(* any way.  One action is one turn of a loop.  Every append and the       *)
(* reservation find memory.                                                *)
(***************************************************************************)
EXTENDS Integers, Sequences

CONSTANTS
    Texts,      \* The strings an application may stage.
    Tails,      \* What may follow the closing quote of one of them.
    Replies,    \* What else a reply may hold behind an opening quote.
    NoText

ASSUME TextAssumption ==
    /\ Texts \subseteq Seq(1 .. 255)
    /\ Tails \subseteq Seq(0 .. 255) /\ Replies \subseteq Seq(0 .. 255)
    /\ NoText \notin Texts

VARIABLES
    pc,         \* The loop that runs, or how it ended.
    text,       \* What the application staged, or NoText.
    raw,        \* What follows the opening quote: in the body, then in the reply.
    at,         \* The cursor of the loop.
    end,        \* Where jp_string found the closing quote.
    out         \* What was decoded.

vars == << pc, text, raw, at, end, out >>

Quote == 34
Backslash == 92
LetterU == 117

(* The letters that stand for control characters: b, t, n, f, r.           *)
Letter == [c \in {8, 9, 10, 12, 13} |->
             CASE c = 8 -> 98 [] c = 9 -> 116 [] c = 10 -> 110 [] c = 12 -> 102 [] c = 13 -> 114]

HexDigit(n) == IF n < 10 THEN n + 48 ELSE n + 87

(* Mutant: backslashes are left as they are.                               *)
QuoteOnly == {Quote}

(* The characters that a backslash in front of them stands for.            *)
Special == {Quote, Backslash}

(* What json_escape writes for one character.                              *)
Spelled(c) ==
    CASE c \in Special       -> << Backslash, c >>
      [] c \in DOMAIN Letter -> << Backslash, Letter[c] >>
      [] c < 32 /\ c \notin DOMAIN Letter ->
           << Backslash, LetterU, 48, 48, HexDigit(c \div 16), HexDigit(c % 16) >>
      [] OTHER               -> << c >>

-----------------------------------------------------------------------------
Init == /\ pc = "idle" /\ text = NoText /\ raw = << >>
        /\ at = 1 /\ end = 0 /\ out = << >>

(* The application stages a string; json_escape writes the opening quote.  *)
Stage == /\ pc = "idle"
         /\ pc' = "escape" /\ text' \in Texts
         /\ UNCHANGED << raw, at, end, out >>

(* The daemon writes a string of its own.                                  *)
Hear == /\ pc = "idle"
        /\ pc' = "find" /\ raw' \in Replies
        /\ UNCHANGED << text, at, end, out >>

(* json_escape: the next character.                                        *)
Escape == /\ pc = "escape" /\ at <= Len(text)
          /\ raw' = raw \o Spelled(text[at])
          /\ at' = at + 1
          /\ UNCHANGED << pc, text, end, out >>

(* The closing quote, and what the document has behind it.                 *)
EscapeEnds(tail) == /\ pc = "escape" /\ at > Len(text)
                    /\ raw' = raw \o << Quote >> \o tail
                    /\ pc' = "find" /\ at' = 1
                    /\ UNCHANGED << text, end, out >>

(* jp_string: a backslash hides the byte behind it.                        *)
Skipped == IF raw[at] = Backslash /\ at < Len(raw) THEN 2 ELSE 1

Find == /\ pc = "find"
        /\ \/ /\ at > Len(raw)
              /\ pc' = "fail" /\ UNCHANGED << at, end >>
           \/ /\ at <= Len(raw) /\ raw[at] = Quote
              /\ pc' = "decode" /\ end' = at /\ at' = 1
           \/ /\ at <= Len(raw) /\ raw[at] # Quote
              /\ at' = at + Skipped /\ UNCHANGED << pc, end >>
        /\ UNCHANGED << text, raw, out >>

-----------------------------------------------------------------------------
HexValue(c) == CASE c \in 48 .. 57  -> c - 48
                 [] c \in 65 .. 70  -> c - 55
                 [] c \in 97 .. 102 -> c - 87
                 [] OTHER           -> -1

Spaces == {9, 10, 11, 12, 13, 32}
Signs == {43, 45}
HexMarks == {88, 120}

Unread == [phase |-> "space", sign |-> 1, value |-> 0]

(* strtoul in base 16 reads one byte more: space, a sign, 0x, digits.      *)
Read(n, c) ==
    CASE n.phase = "space" /\ c \in Spaces -> n
      [] n.phase = "space" /\ c \in Signs ->
           [n EXCEPT !.phase = "signed", !.sign = IF c = 45 THEN -1 ELSE 1]
      [] n.phase = "zero" /\ c \in HexMarks -> [n EXCEPT !.phase = "digits"]
      [] n.phase # "end" /\ HexValue(c) >= 0 ->
           [phase |-> IF c = 48 /\ n.phase \in {"space", "signed"} THEN "zero" ELSE "digits",
            sign |-> n.sign, value |-> 16 * n.value + HexValue(c)]
      [] OTHER -> [n EXCEPT !.phase = "end"]

(* No digit at all is 0; a negative number wraps, beyond any character.    *)
HexNumber(a, b, c, d) ==
    LET n == Read(Read(Read(Read(Unread, a), b), c), d) IN n.sign * n.value

(* Mutant: the escape that ends the string is taken for a cut one.         *)
HasDigitsBefore == at + 6 < end

(* Four more bytes follow the \u at the cursor.                            *)
HasDigits == at + 5 < end

(* Mutant: U+FFFD, in UTF-8, as other decoders have it.                    *)
Replacement == << 239, 191, 189 >>

(* What is written for a \u that cannot be decoded: it is dropped.         *)
Undecoded == << >>

Ascii(cp) == IF cp \in 0 .. 127 THEN << cp >> ELSE Undecoded

(* \b, \f, \n, \r, \t; any other byte after a backslash is itself.         *)
Unescaped(c) == CASE c = 98 -> 8 [] c = 116 -> 9 [] c = 110 -> 10 [] c = 102 -> 12
                  [] c = 114 -> 13 [] OTHER -> c

Write(bytes, width) == out' = out \o bytes /\ at' = at + width /\ UNCHANGED pc

(* The unescape loop: a backslash that is the last byte is itself.         *)
Hidden == at + 1 < end /\ raw[at] = Backslash

Decode ==
    /\ pc = "decode"
    /\ \/ /\ at >= end
          /\ pc' = "done" /\ UNCHANGED << at, out >>
       \/ /\ at < end /\ ~Hidden
          /\ Write(<< raw[at] >>, 1)
       \/ /\ at < end /\ Hidden /\ raw[at + 1] # LetterU
          /\ Write(<< Unescaped(raw[at + 1]) >>, 2)
       \/ /\ at < end /\ Hidden /\ raw[at + 1] = LetterU
          /\ IF HasDigits
             THEN Write(Ascii(HexNumber(raw[at + 2], raw[at + 3], raw[at + 4], raw[at + 5])), 6)
             ELSE Write(Undecoded, 2)
    /\ UNCHANGED << text, raw, end >>

Next == \/ Stage \/ Hear \/ Escape
        \/ \E tail \in Tails : EscapeEnds(tail)
        \/ Find \/ Decode

Spec == Init /\ [][Next]_vars

-----------------------------------------------------------------------------
(* The ASCII characters that RFC 8259 has n bytes spell, from i on: one,   *)
(* or none.                                                                *)
Spells(bytes, i, n) ==
    CASE n = 1 -> {c \in 32 .. 127 \ {Quote, Backslash} : bytes[i] = c}
      [] n = 2 -> {c \in {Quote, Backslash, 47} \cup DOMAIN Letter :
                     /\ bytes[i] = Backslash
                     /\ bytes[i + 1] = IF c \in DOMAIN Letter THEN Letter[c] ELSE c}
      [] n = 6 -> {c \in 0 .. 127 :
                     /\ bytes[i] = Backslash /\ bytes[i + 1] = LetterU
                     /\ bytes[i + 2] = 48 /\ bytes[i + 3] = 48
                     /\ HexValue(bytes[i + 4]) = c \div 16
                     /\ HexValue(bytes[i + 5]) = c % 16}

(* The strings that they spell from i on up to a quote, and that quote,    *)
(* given what they spell behind i.                                         *)
Meaning(bytes, meant, i) ==
    IF i > Len(bytes) THEN {}
    ELSE IF bytes[i] = Quote THEN {[string |-> << >>, quote |-> i]}
    ELSE UNION {{[string |-> << cm[1] >> \o cm[2].string, quote |-> cm[2].quote] :
                    cm \in Spells(bytes, i, n) \X meant[i + n]} :
                  n \in {k \in {1, 2, 6} : i + k <= Len(bytes)}}

Meant(bytes) ==
    LET meant[i \in 1 .. Len(bytes) + 1] == Meaning(bytes, meant, i) IN meant

(* Any string the application stages (column text, names, SQL, a key) is   *)
(* found and comes back as it was when its spelling is decoded again, and  *)
(* what follows it in the document is left to be read.                     *)
RoundTrip ==
    text # NoText =>
        /\ pc # "fail"
        /\ pc = "done" => out = text /\ SubSeq(raw, end + 1, Len(raw)) \in Tails

(* Whatever the daemon puts between two quotes, broken escapes included,   *)
(* the loop never reads at or behind the closing quote, nor writes more    *)
(* than it has read: what sbuf_reserve and malloc were asked for, the      *)
(* bytes between the quotes, is enough.                                    *)
DecodeFits ==
    pc \in {"decode", "done"} => /\ at <= end /\ Len(out) < at
                                 /\ raw[end] = Quote

(* However the daemon chooses to spell an ASCII string, the client finds   *)
(* its end and reads that string.                                          *)
AnySpellingIsRead ==
    pc \in {"done", "fail"} =>
        \A m \in Meant(raw)[1] : pc = "done" /\ end = m.quote /\ out = m.string
=============================================================================
