------------------------------- MODULE UrlPath --------------------------------
(***************************************************************************)
(* The paths of the calls that name a table or a query: a fixed route with *)
(* the name, encoded by url_path_encode, as one of its segments.           *)
(*                                                                         *)
(* A path is a sequence of bytes; a segment that the code spells out is    *)
(* one number above the bytes.  Every append succeeds.                     *)
(***************************************************************************)
EXTENDS Integers, Sequences, SequencesExt

Percent == 37
Dot == 46
Slash == 47

Tables == 256
Count == 257
Kit == 258
Schema == 259
Queries == 260
Cancel == 261

Alphanumeric == (48 .. 57) \cup (65 .. 90) \cup (97 .. 122)

(* Mutant: a percent sign is left as it is.                                *)
KeptPercent == Alphanumeric \cup {45, 46, 95, 126, Slash, Percent}

(* What url_path_encode leaves as it is: what a segment may hold, and `/`. *)
Kept == Alphanumeric \cup {45, 46, 95, 126, Slash}

(* "%%%02X"                                                                *)
UpperHex(n) == IF n < 10 THEN n + 48 ELSE n + 55
Escaped(c) == << Percent, UpperHex(c \div 16), UpperHex(c % 16) >>

UrlEncode(name) ==
    FoldLeft(LAMBDA out, c : out \o (IF c \in Kept THEN << c >> ELSE Escaped(c)),
             << >>, name)

(* What stands before the name, and what after it.                         *)
Routes == [drop_table       |-> [before |-> << Tables >>, after |-> << >>],
           count            |-> [before |-> << Tables >>, after |-> << Count >>],
           schema_for       |-> [before |-> << Kit, Schema >>, after |-> << >>],
           query_status_get |-> [before |-> << Queries >>, after |-> << >>],
           cancel_query     |-> [before |-> << Queries >>, after |-> << Cancel >>]]

Route(segments) == FlattenSeq([i \in DOMAIN segments |-> << Slash, segments[i] >>])

(* The path of the call f about name.                                      *)
Path(f, name) ==
    Route(Routes[f].before) \o << Slash >> \o UrlEncode(name) \o Route(Routes[f].after)
=============================================================================
