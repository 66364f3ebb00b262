---------------------------- MODULE ExactlyOnce -----------------------------
(***************************************************************************)
(* What an idempotency key promises those who commit under it: the batch   *)
(* takes effect at most once, whoever is told "ok" finds it in effect, and *)
(* whoever is told "no" knows it never will be.  TxnRetry implements this. *)
(***************************************************************************)
EXTENDS Naturals

CONSTANTS Clients, Intents, IntentOf

VARIABLES
    times,      \* How often each intent has taken effect.
    told        \* What each client was told in the end.

vars == << times, told >>

Init == times = [i \in Intents |-> 0] /\ told = [c \in Clients |-> "none"]

Commit(i) == /\ times[i] = 0
             /\ \A c \in Clients : IntentOf[c] = i => told[c] # "no"
             /\ times' = [times EXCEPT ![i] = 1]
             /\ UNCHANGED told

Tell(c) == /\ told[c] = "none"
           /\ told' = [told EXCEPT ![c] =
                          IF times[IntentOf[c]] = 1 THEN "ok" ELSE "no"]
           /\ UNCHANGED times

Next == (\E i \in Intents : Commit(i)) \/ (\E c \in Clients : Tell(c))

Spec == Init /\ [][Next]_vars
=============================================================================
