----------------------------- MODULE MCTxnRetry -----------------------------
(* Two clients commit the same batch of two operations under one key; two  *)
(* exchanges of a client may be open at a time.                            *)
EXTENDS TxnRetry, TLC

CONSTANTS c1, c2, i1, a, b, k1

MCIntentOf == (c1 :> i1) @@ (c2 :> i1)
MCBatch == (i1 :> << a, b >>)
MCKeyOf == (i1 :> k1)

OneIntentOf == (c1 :> i1)
=============================================================================
