----------------------------- MODULE ByteString -----------------------------
(***************************************************************************)
(* What an sbuf promises the code that uses it: a string of bytes to which *)
(* an append adds all of its bytes or, reporting a failure, none of them.  *)
(* No capacity, no terminator, no allocator.  Sbuf implements this module. *)
(***************************************************************************)
EXTENDS Sequences

CONSTANTS
    Payloads,   \* The byte strings the callers append.
    NUL         \* The byte that ends a C string.

VARIABLES
    str,        \* The bytes appended so far.
    asked,      \* The bytes the pending append is to add.
    ret         \* "busy" while an append is pending, then its result.

vars == << str, asked, ret >>

Init == str = << >> /\ asked = << >> /\ ret = "ok"

(* A caller asks for p, bare or with a NUL that is counted in the length.  *)
Ask == /\ ret # "busy"
       /\ ret' = "busy"
       /\ \E p \in Payloads \cup {<< >>} : asked' \in {p, Append(p, NUL)}
       /\ UNCHANGED str

Succeed == /\ ret = "busy"
           /\ str' = str \o asked
           /\ asked' = << >>
           /\ ret' = "ok"

Refuse == /\ ret = "busy"
          /\ asked' = << >>
          /\ ret' = "fail"
          /\ UNCHANGED str

Clear == ret # "busy" /\ str' = << >> /\ UNCHANGED << asked, ret >>

Next == Ask \/ Succeed \/ Refuse \/ Clear

Spec == Init /\ [][Next]_vars
=============================================================================
