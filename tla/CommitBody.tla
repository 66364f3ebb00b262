----------------------------- MODULE CommitBody -----------------------------
(***************************************************************************)
(* The body of POST /kit/txn: what mongreldb_commit writes, piece by       *)
(* piece, and what the daemon reads.  An operation and a key are one piece *)
(* each; the brackets, commas and labels around them are pieces too, since *)
(* any append may fail on its own and its result is never looked at.       *)
(***************************************************************************)
EXTENDS Integers, Sequences, SequencesExt

CONSTANT NoKey      \* A NULL or empty idempotency_key.

(* Mutant: the loop stops one operation early.                             *)
OpsShort(ops) == [n \in 1 .. 2 * Len(ops) - 3 |->
                     IF n % 2 = 1 THEN ops[(n + 1) \div 2] ELSE "comma"]

(* The operations, with a comma between any two.                           *)
Ops(ops) == [n \in 1 .. 2 * Len(ops) - 1 |->
                IF n % 2 = 1 THEN ops[(n + 1) \div 2] ELSE "comma"]

(* Mutant: the key is not sent.                                            *)
BodyUnkeyed(ops, key) == << "ops:[" >> \o Ops(ops) \o << "]", "end" >>

Body(ops, key) ==
    << "ops:[" >> \o Ops(ops) \o << "]" >>
    \o (IF key = NoKey THEN << >> ELSE << "idempotency_key:", key >>)
    \o << "end" >>

(* The pieces at the positions in kept, in order.                          *)
Kept(pieces, kept) ==
    FlattenSeq([i \in DOMAIN pieces |-> IF i \in kept THEN << pieces[i] >> ELSE << >>])

(* What is left of a body when some of its pieces found no memory.         *)
Torn(body) == {Kept(body, kept) : kept \in SUBSET DOMAIN body}

(* Whether the daemon understands a body as the transaction t: the         *)
(* operations at the even places, a comma or the closing bracket after     *)
(* each, then the key if there is one, and nothing more.                   *)
Says(body, t) ==
    LET n == Len(t.ops) IN
    /\ Len(body) = 2 * n + (IF t.key = NoKey THEN 2 ELSE 4)
    /\ body[1] = "ops:[" /\ body[Len(body)] = "end"
    /\ \A k \in 1 .. n : /\ body[2 * k] = t.ops[k]
                        /\ body[2 * k + 1] = IF k = n THEN "]" ELSE "comma"
    /\ t.key # NoKey => /\ body[2 * n + 2] = "idempotency_key:"
                        /\ body[2 * n + 3] = t.key

(* The transactions, among those given, that a body says.                  *)
Reads(body, txns) == {t \in txns : t.ops # << >> /\ Says(body, t)}
=============================================================================
