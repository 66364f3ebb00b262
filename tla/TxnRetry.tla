------------------------------ MODULE TxnRetry ------------------------------
(***************************************************************************)
(* Committing a batch over a network that loses and delays: clients call   *)
(* mongreldb_commit until they get an answer that is final, as the retry   *)
(* loop of docs/errors.md does; each call is one HTTP exchange, which the  *)
(* client abandons when its time limit passes; the daemon applies a batch  *)
(* atomically, keeps it with its idempotency key, and may crash between    *)
(* applying and answering.  An abandoned request may still arrive, after   *)
(* the retry that replaced it.                                             *)
(*                                                                         *)
(* The daemon, the network and the loop are not code of this repository:   *)
(* they are modelled as the client and its documentation use them.         *)
(***************************************************************************)
EXTENDS CommitBody, FiniteSets

CONSTANTS
    Clients,    \* Processes, each with a client handle of its own.
    Intents,    \* The batches they want committed.
    IntentOf,   \* The intent of a client; several may share one.
    Batch,      \* The operations of an intent.
    KeyOf,      \* Its idempotency key.
    Slots,      \* Bound: the exchanges of a client open at a time.
    MaxCrashes, \* Bound: how often the daemon crashes.
    Tears       \* Whether appends to the body may fail.

ASSUME RetryAssumption ==
    /\ IntentOf \in [Clients -> Intents]
    /\ DOMAIN Batch = Intents /\ DOMAIN KeyOf = Intents
    /\ \A i \in Intents : Batch[i] \in Seq(Range(Batch[i]))
    /\ Slots # {}
    /\ Tears \in BOOLEAN /\ MaxCrashes \in Nat

VARIABLES
    app,        \* "ready" to call, "waiting" in a call, or "done".
    result,     \* What the client was told in the end.
    current,    \* The exchange the client waits for.
    wire,       \* Every exchange: its state, and the body or the status.
    violating,  \* The intents that violate a constraint (fixed).
    log,        \* The batches the daemon applied, durable.
    up,         \* Whether the daemon runs.
    crashes     \* How often it crashed.

daemon == << violating, log, up, crashes >>
vars == << app, result, current, wire, violating, log, up, crashes >>

Closed == [state |-> "closed"]
Lost   == [state |-> "lost"]

(* The transactions a body, whole or torn, may say: operations of one      *)
(* intent, with its key or without.                                        *)
Txns == UNION {[ops : SeqOf(Range(Batch[i]), Len(Batch[i])), key : {KeyOf[i], NoKey}] :
                  i \in Intents}

Init == /\ app = [c \in Clients |-> "ready"]
        /\ result = [c \in Clients |-> "none"]
        /\ current = [c \in Clients |-> CHOOSE s \in Slots : TRUE]
        /\ wire = [c \in Clients |-> [s \in Slots |-> Closed]]
        /\ violating \in SUBSET Intents
        /\ log = << >> /\ up = TRUE /\ crashes = 0

-----------------------------------------------------------------------------
(* mongreldb_commit: build the body, post it.                              *)
Bodies(i) == IF Tears THEN Torn(Body(Batch[i], KeyOf[i]))
             ELSE {Body(Batch[i], KeyOf[i])}

Becomes(c, s, x) == wire' = [wire EXCEPT ![c][s] = x]

Commit(c) ==
    /\ app[c] = "ready"
    /\ \E s \in Slots, b \in Bodies(IntentOf[c]) :
          /\ wire[c][s] = Closed
          /\ Becomes(c, s, [state |-> "sent", body |-> b])
          /\ current' = [current EXCEPT ![c] = s]
    /\ app' = [app EXCEPT ![c] = "waiting"]
    /\ UNCHANGED << result, daemon >>

(* Mutant: a conflict is not told from other failures.                     *)
CodeCoarse(status) == IF status = 200 THEN "OK" ELSE "QUERY"

(* classify_http_error, on the statuses the daemon gives a commit.         *)
Code(status) == CASE status = 200 -> "OK"
                  [] status = 409 -> "CONFLICT"
                  [] OTHER        -> "QUERY"

(* Mutant: a transient failure ends the loop.                              *)
FinalEarly == [OK |-> "ok", CONFLICT |-> "no", QUERY |-> "failed"]

(* The loop: an answer that is final ends it, any other is tried again.    *)
Final == [OK |-> "ok", CONFLICT |-> "no"]

Told(c, code) ==
    IF code \in DOMAIN Final
    THEN /\ app' = [app EXCEPT ![c] = "done"]
         /\ result' = [result EXCEPT ![c] = Final[code]]
    ELSE app' = [app EXCEPT ![c] = "ready"] /\ UNCHANGED result

Answered(c) == wire[c][current[c]].state = "answered"

(* The reply of the open exchange arrives.                                 *)
Receive(c) ==
    /\ app[c] = "waiting" /\ Answered(c)
    /\ Told(c, Code(wire[c][current[c]].status))
    /\ Becomes(c, current[c], Closed)
    /\ UNCHANGED << current, daemon >>

(* MDB_ERR_NETWORK: refused, reset, or the time limit passed.  A request   *)
(* that was sent stays on its way.                                         *)
TimeOut(c) ==
    /\ app[c] = "waiting"
    /\ Told(c, "NETWORK")
    /\ UNCHANGED << current, wire, daemon >>

-----------------------------------------------------------------------------
(* The network and the daemon.                                             *)
Sent(c, s) == wire[c][s].state = "sent"

Reply(c, s, status) == Becomes(c, s, [state |-> "answered", status |-> status])

Known(key) == key # NoKey /\ \E n \in DOMAIN log : log[n].key = key

Violates(ops) == \E i \in violating : ops = Batch[i]

(* A request reaches the daemon, which replays a known key, refuses what   *)
(* violates a constraint, or applies the whole batch and keeps its key.    *)
Process(c, s) ==
    /\ up /\ Sent(c, s)
    /\ LET txns == Reads(wire[c][s].body, Txns) IN
       \/ txns = {} /\ Reply(c, s, 400) /\ UNCHANGED log
       \/ \E t \in txns :
             \/ Known(t.key) /\ Reply(c, s, 200) /\ UNCHANGED log
             \/ ~Known(t.key) /\ Violates(t.ops) /\ Reply(c, s, 409) /\ UNCHANGED log
             \/ /\ ~Known(t.key) /\ ~Violates(t.ops)
                /\ Reply(c, s, 200) /\ log' = Append(log, t)
    /\ UNCHANGED << app, result, current, violating, up, crashes >>

(* A transient failure: nothing is applied.                                *)
Falter(c, s) ==
    /\ up /\ Sent(c, s) /\ Reply(c, s, 503)
    /\ UNCHANGED << app, result, current, daemon >>

Lose(c, s) ==
    /\ wire[c][s].state \in {"sent", "answered"}
    /\ Becomes(c, s, Lost)
    /\ UNCHANGED << app, result, current, daemon >>

(* An exchange nobody waits for any more comes to its end.                 *)
Discard(c, s) ==
    /\ wire[c][s].state \in {"answered", "lost"}
    /\ app[c] # "waiting" \/ current[c] # s
    /\ Becomes(c, s, Closed)
    /\ UNCHANGED << app, result, current, daemon >>

(* Open connections break; the log survives.                               *)
Crash == /\ up /\ crashes < MaxCrashes
         /\ up' = FALSE /\ crashes' = crashes + 1
         /\ wire' = [c \in Clients |-> [s \in Slots |->
                        IF wire[c][s] = Closed THEN Closed ELSE Lost]]
         /\ UNCHANGED << app, result, current, violating, log >>

Restart == /\ ~up /\ up' = TRUE
           /\ UNCHANGED << app, result, current, wire, violating, log, crashes >>

Next == \/ \E c \in Clients : Commit(c) \/ Receive(c) \/ TimeOut(c)
        \/ \E c \in Clients, s \in Slots :
              Process(c, s) \/ Falter(c, s) \/ Lose(c, s) \/ Discard(c, s)
        \/ Crash \/ Restart

ProcessCurrent(c) == app[c] = "waiting" /\ Process(c, current[c])

ReceiveProcessed(c) == Receive(c) /\ wire[c][current[c]].status # 503

(* The client's own steps are fair: its code runs on, libcurl's timer      *)
(* fires.  Of the outside it is assumed that exchanges come to an end, the *)
(* daemon restarts, and a client that keeps asking is served in the end:   *)
(* not every exchange is lost, nor every answer that is not transient.     *)
Fairness ==
    /\ WF_vars(Restart)
    /\ \A c \in Clients :
         /\ WF_vars(Commit(c)) /\ WF_vars(TimeOut(c))
         /\ SF_vars(ProcessCurrent(c)) /\ SF_vars(ReceiveProcessed(c))
         /\ \A s \in Slots : WF_vars(Lose(c, s)) /\ WF_vars(Discard(c, s))

Spec == Init /\ [][Next]_vars /\ Fairness

-----------------------------------------------------------------------------
(* What is known of an exchange.                                           *)
Exchange == {Closed, Lost}
            \cup [state : {"sent"}, body : UNION {Bodies(i) : i \in Intents}]
            \cup [state : {"answered"}, status : {200, 400, 409, 503}]

TypeOK ==
    /\ app \in [Clients -> {"ready", "waiting", "done"}]
    /\ result \in [Clients -> {"none", "ok", "no"}]
    /\ current \in [Clients -> Slots]
    /\ wire \in [Clients -> [Slots -> Exchange]]
    /\ log \in Seq(Txns) /\ violating \subseteq Intents
    /\ up \in BOOLEAN /\ crashes \in 0 .. MaxCrashes

(* What the daemon applies is a batch as some caller staged it, whole: no  *)
(* operation of a commit is left out (docs/transactions.md).               *)
WholeBatches == \A n \in DOMAIN log : \E i \in Intents : log[n].ops = Batch[i]

(* How often a batch took effect: under its key, or under none.            *)
Effects(i) == {n \in DOMAIN log : log[n].ops = Batch[i] /\ log[n].key \in {KeyOf[i], NoKey}}

Applied(i) == Cardinality(Effects(i))

(* However often a keyed commit is retried, raced by a delayed copy of     *)
(* itself, or cut by a crash after it was applied, it takes effect at most *)
(* once; MDB_OK means it did and MDB_ERR_CONFLICT that it never will.      *)
Once == INSTANCE ExactlyOnce WITH
           times <- [i \in Intents |-> Applied(i)], told <- result

IsExactlyOnce == Once!Spec

(* A client that keeps retrying is told in the end, whatever was lost.     *)
Settles == \A c \in Clients : <>(result[c] # "none")
=============================================================================
