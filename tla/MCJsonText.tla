----------------------------- MODULE MCJsonText -----------------------------
(* Bytes chosen so that one is a letter of an escape and a hex digit, one  *)
(* a control character with a letter, one without, and the two that end or *)
(* hide the end of a string; and what RFC 8259 lets a daemon write.  Names *)
(* of bytes that mean something in a URL, with a digit and a byte that is  *)
(* not ASCII; and how a URL is read.  And replies that may be a number     *)
(* instead, with digits below, at and above the largest integer.           *)
EXTENDS JsonText, UrlPath, NumberText

Question == 63

MCBytes == {1, 10, Quote, 48, Backslash, 98, LetterU}
UrlBytes == {Percent, Dot, Slash, 50, Question, 200}
NumberBytes == {Minus, Point, 48, 49, 55, 57, 101}

MCTexts == BoundedSeq(MCBytes, 3) \cup BoundedSeq(UrlBytes, 4)
MCTails == {<< >>, << Quote >>, << Backslash, Quote, 48 >>}

(* A whole escape, and a byte in front of it or behind it.                 *)
MCReplies == BoundedSeq(MCBytes, 4)
             \cup {Append(t, Quote) : t \in BoundedSeq(MCBytes \ {Quote}, 6)}
             \cup {<< Backslash, LetterU, 48, 48, b, c, d, Quote >> : b, c, d \in MCBytes}
             \cup BoundedSeq(NumberBytes, 5)

-----------------------------------------------------------------------------
(* The segments of a path, which ends where a query begins.                *)
Segments(path) ==
    LET stop == SelectInSeq(path, LAMBDA c : c = Question)
        whole == IF stop = 0 THEN path ELSE SubSeq(path, 1, stop - 1)
    IN  FoldLeft(LAMBDA found, c : IF c = Slash THEN Append(found, << >>)
                                   ELSE Append(Front(found), Append(Last(found), c)),
                 << >>, whole)

(* libcurl removes the segments . and .. before it sends a path.           *)
Undotted(segments) ==
    LET step(kept, s) == CASE s = << Dot >>      -> kept
                           [] s = << Dot, Dot >> -> IF kept = << >> THEN kept ELSE Front(kept)
                           [] OTHER              -> Append(kept, s)
        kept == FoldLeft(step, << >>, segments)
    IN  IF Last(segments) \in {<< Dot >>, << Dot, Dot >>} THEN Append(kept, << >>) ELSE kept

(* A segment without its escapes.                                          *)
Unescape(segment) ==
    LET from[i \in 1 .. Len(segment) + 3] ==
          CASE i > Len(segment) -> << >>
            [] i <= Len(segment) - 2 /\ segment[i] = Percent ->
                 << 16 * HexValue(segment[i + 1]) + HexValue(segment[i + 2]) >> \o from[i + 3]
            [] OTHER -> << segment[i] >> \o from[i + 1]
    IN  from[1]

Found(path) ==
    LET segments == Undotted(Segments(path)) IN
    [i \in DOMAIN segments |-> Unescape(segments[i])]

(* A table or query can be named by any text, which the daemon finds as    *)
(* one segment of the path, where the route has it, unless the text is one *)
(* or two dots or holds a slash: those name something else.  Bound: the    *)
(* texts of URL bytes, as they are staged.                                 *)
PathNamesIt ==
    pc = "escape" /\ at = 1 /\ text # << >> /\ ToSet(text) \subseteq UrlBytes =>
        \A f \in DOMAIN Routes :
            LET words(segments) == [i \in DOMAIN segments |-> << segments[i] >>] IN
            Found(Path(f, text)) = words(Routes[f].before) \o << text >> \o words(Routes[f].after)
                <=> Slash \notin ToSet(text) /\ text \notin {<< Dot >>, << Dot, Dot >>}
=============================================================================
