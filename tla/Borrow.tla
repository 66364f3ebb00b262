-------------------------------- MODULE Borrow --------------------------------
(***************************************************************************)
(* What mongreldb.h promises of the memory a client lends: everything a    *)
(* call hands out (a message, a body, names, a result, the strings of a    *)
(* status) can be read until the next call on that client, or its closing, *)
(* begins.  Looking at the last error, or giving a result back, is no such *)
(* call.  What else stays readable, and for how long, is left open.        *)
(***************************************************************************)
CONSTANT Kinds      \* The kinds of things that are lent.

VARIABLES
    busy,       \* Whether a call runs.
    lent,       \* What was handed out since the last call began.
    readable    \* What the application holds and may really read.

vars == << busy, lent, readable >>

Init == busy = FALSE /\ lent = {} /\ readable = {}

(* A call begins: from here on, everything lent may vanish.                *)
Begin == /\ ~busy /\ busy' = TRUE
         /\ lent' = {} /\ readable' \subseteq readable

Run == /\ busy /\ busy' = TRUE
       /\ lent' = {} /\ readable' \subseteq readable

(* It returns, and what it lends can be read.                              *)
Return == /\ busy /\ busy' = FALSE
          /\ lent' \subseteq Kinds /\ lent' \subseteq readable'
          /\ readable' \subseteq readable \cup lent'

(* A call that does both in one step lends nothing.                        *)
ReturnAtOnce == /\ ~busy /\ busy' = FALSE
                /\ lent' = {} /\ readable' \subseteq readable

(* Between two calls: more may be lent, and nothing lent is taken back.    *)
Look == /\ ~busy /\ busy' = FALSE
        /\ lent \subseteq lent' /\ lent' \subseteq Kinds
        /\ lent' \subseteq readable'
        /\ readable' \subseteq readable \cup lent'

Next == Begin \/ Run \/ Return \/ ReturnAtOnce \/ Look

Spec == Init /\ [][Next]_vars
=============================================================================
