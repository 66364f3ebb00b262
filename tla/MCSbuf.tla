------------------------------- MODULE MCSbuf -------------------------------
(* A three-bit size_t, so that every size and every wrap is reached, and   *)
(* an allocator that grants up to 6 bytes.                                 *)
EXTENDS Sbuf

CONSTANTS a, b, nul, junk

MCByte == {a, b, nul}
MCPayloads == {<< >>, << a >>, << nul >>, << a, b >>, << b, b, a, a, a >>,
               << a, a, a, a, a, a >>}
=============================================================================
