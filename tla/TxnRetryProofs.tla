---------------------------- MODULE TxnRetryProofs ----------------------------
(***************************************************************************)
(* Theorems about TxnRetry, for any number of clients, batches, exchanges  *)
(* and crashes.                                                            *)
(***************************************************************************)
EXTENDS TxnRetry, FiniteSetTheorems, SequenceTheorems, TLAPS

(* The transaction an intent asks for, and whether its key was applied.    *)
Txn(i) == [ops |-> Batch[i], key |-> KeyOf[i]]

Taken(i) == \E n \in DOMAIN log : log[n].key = KeyOf[i]

(* What is on its way is the whole body of its client's intent, or an      *)
(* answer that says what became of it.                                     *)
Fits(c, x) ==
    /\ x.state = "sent" => x.body = Body(Batch[IntentOf[c]], KeyOf[IntentOf[c]])
    /\ x.state = "answered" => /\ x.status = 200 => Taken(IntentOf[c])
                               /\ x.status = 409 => Violates(Batch[IntentOf[c]])

WireTrue == \A c \in Clients, s \in Slots : Fits(c, wire[c][s])

(* So is the answer a client was left with.                                *)
ToldTrue == \A c \in Clients :
    /\ result[c] = "ok" => Taken(IntentOf[c])
    /\ result[c] = "no" => Violates(Batch[IntentOf[c]])
    /\ app[c] # "done" => result[c] = "none"

(* What was applied is what an intent asks for and violates nothing, and   *)
(* no key was applied twice.                                               *)
LogWhole == \A n \in DOMAIN log :
    \E i \in Intents : log[n] = Txn(i) /\ ~Violates(Batch[i])

KeysOnce == \A m, n \in DOMAIN log :
    log[m].key = log[n].key /\ log[m].key # NoKey => m = n

IInv == TypeOK /\ WireTrue /\ ToldTrue /\ LogWhole /\ KeysOnce

(* Every commit has a key of its own.                                      *)
Keyed == \A i \in Intents : /\ KeyOf[i] # NoKey
                            /\ \A j \in Intents : KeyOf[j] = KeyOf[i] => j = i

-----------------------------------------------------------------------------
(* The pieces of a whole body.                                             *)
LEMMA OpsShape ==
    ASSUME NEW S, NEW ops \in Seq(S), Len(ops) > 0
    PROVE  /\ Ops(ops) \in Seq(S \cup {"comma"}) /\ Len(Ops(ops)) = 2 * Len(ops) - 1
           /\ \A k \in 1 .. Len(ops) : Ops(ops)[2 * k - 1] = ops[k]
           /\ \A k \in 1 .. Len(ops) - 1 : Ops(ops)[2 * k] = "comma"
<1> DEFINE n == Len(ops)
           N == 2 * n - 1
           o == Ops(ops)
           T == S \cup {"comma"}
<1>1. n \in Nat /\ n > 0 /\ N \in Nat
  OBVIOUS
<1>2. o = [m \in 1 .. N |-> IF m % 2 = 1 THEN ops[(m + 1) \div 2] ELSE "comma"]
  BY DEF Ops
<1>3. \A m \in 1 .. N : m % 2 = 1 => (m + 1) \div 2 \in 1 .. n
  BY <1>1
<1>4. \A k \in 1 .. n : ops[k] \in S
  OBVIOUS
<1>5. \A k \in 1 .. n : 2 * k - 1 \in 1 .. N /\ (2 * k - 1) % 2 = 1 /\ (2 * k - 1 + 1) \div 2 = k
  OBVIOUS
<1>6. \A k \in 1 .. n - 1 : 2 * k \in 1 .. N /\ (2 * k) % 2 # 1
  OBVIOUS
<1> HIDE DEF n, N, o
<1>7. o \in [1 .. N -> T]
  BY <1>2, <1>3, <1>4
<1> HIDE DEF T
<1>8. o \in Seq(T) /\ Len(o) = N
  BY <1>1, <1>7
<1>9. \A k \in 1 .. n : o[2 * k - 1] = ops[k]
  BY <1>2, <1>5
<1>10. \A k \in 1 .. n - 1 : o[2 * k] = "comma"
  BY <1>2, <1>6
<1> QED BY <1>8, <1>9, <1>10 DEF n, N, o, T

(* A sequence with one element before it, or after it.                     *)
LEMMA Prefixed ==
    ASSUME NEW T, NEW e \in T, NEW s \in Seq(T)
    PROVE  /\ << e >> \o s \in Seq(T) /\ Len(<< e >> \o s) = 1 + Len(s)
           /\ \A m \in 1 .. Len(s) : (<< e >> \o s)[1 + m] = s[m]
OBVIOUS

LEMMA Suffixed ==
    ASSUME NEW T, NEW e \in T, NEW s \in Seq(T)
    PROVE  /\ s \o << e >> \in Seq(T) /\ Len(s \o << e >>) = 1 + Len(s)
           /\ \A m \in 1 .. Len(s) : (s \o << e >>)[m] = s[m]
           /\ (s \o << e >>)[Len(s) + 1] = e
OBVIOUS

(* The pieces of a body before, between and after the operations and the   *)
(* key.                                                                    *)
LEMMA Framed ==
    ASSUME NEW T, "ops:[" \in T, "]" \in T, "end" \in T, NEW o \in Seq(T), NEW t \in Seq(T)
    PROVE  LET b == ((<< "ops:[" >> \o o \o << "]" >>) \o t) \o << "end" >> IN
           /\ Len(b) = Len(o) + 3 + Len(t)
           /\ \A m \in 1 .. Len(o) : b[1 + m] = o[m]
           /\ b[Len(o) + 2] = "]"
           /\ \A m \in 1 .. Len(t) : b[Len(o) + 2 + m] = t[m]
<1> DEFINE l1 == << "ops:[" >> \o o
           l2 == l1 \o << "]" >>
           l3 == l2 \o t
           l4 == l3 \o << "end" >>
<1>1. /\ l1 \in Seq(T) /\ Len(l1) = 1 + Len(o)
      /\ \A m \in 1 .. Len(o) : l1[1 + m] = o[m]
  BY Prefixed
<1> HIDE DEF l1
<1>2. /\ l2 \in Seq(T) /\ Len(l2) = 1 + Len(l1)
      /\ \A m \in 1 .. Len(l1) : l2[m] = l1[m]
      /\ l2[Len(l1) + 1] = "]"
  <2>1. l1 \in Seq(T)
    BY <1>1
  <2> QED BY <2>1, Suffixed
<1> HIDE DEF l2
<1>3. /\ l3 \in Seq(T) /\ Len(l3) = Len(l2) + Len(t)
      /\ \A m \in 1 .. Len(l2) : l3[m] = l2[m]
      /\ \A m \in 1 .. Len(t) : l3[Len(l2) + m] = t[m]
  <2>1. l2 \in Seq(T)
    BY <1>2
  <2> QED BY <2>1, ConcatProperties
<1> HIDE DEF l3
<1>4. /\ Len(l4) = 1 + Len(l3)
      /\ \A m \in 1 .. Len(l3) : l4[m] = l3[m]
  <2>1. l3 \in Seq(T)
    BY <1>3
  <2> QED BY <2>1, Suffixed
<1> HIDE DEF l4
<1>5. /\ Len(o) \in Nat /\ Len(t) \in Nat
      /\ Len(l1) = Len(o) + 1 /\ Len(l2) = Len(o) + 2 /\ Len(l3) = Len(o) + 2 + Len(t)
  BY <1>1, <1>2, <1>3
<1>6. Len(l4) = Len(o) + 3 + Len(t)
  BY <1>4, <1>5
<1>7. ASSUME NEW m \in 1 .. Len(o) PROVE l4[1 + m] = o[m]
  <2>1. 1 + m \in 1 .. Len(l1) /\ 1 + m \in 1 .. Len(l2) /\ 1 + m \in 1 .. Len(l3)
    BY <1>5
  <2> QED BY <1>1, <1>2, <1>3, <1>4, <2>1
<1>8. l4[Len(o) + 2] = "]"
  <2>1. Len(o) + 2 \in 1 .. Len(l2) /\ Len(o) + 2 \in 1 .. Len(l3) /\ Len(o) + 2 = Len(l1) + 1
    BY <1>5
  <2> QED BY <1>2, <1>3, <1>4, <2>1
<1>9. ASSUME NEW m \in 1 .. Len(t) PROVE l4[Len(o) + 2 + m] = t[m]
  <2>1. Len(o) + 2 + m \in 1 .. Len(l3) /\ Len(o) + 2 + m = Len(l2) + m
    BY <1>5
  <2> QED BY <1>3, <1>4, <2>1
<1> QED BY <1>6, <1>7, <1>8, <1>9 DEF l1, l2, l3, l4

LEMMA BodyShape ==
    ASSUME NEW S, NEW ops \in Seq(S), Len(ops) > 0, NEW key
    PROVE  /\ Len(Body(ops, key)) = 2 * Len(ops) + (IF key = NoKey THEN 2 ELSE 4)
           /\ \A k \in 1 .. Len(ops) : Body(ops, key)[2 * k] = ops[k]
           /\ \A k \in 1 .. Len(ops) :
                 Body(ops, key)[2 * k + 1] = IF k = Len(ops) THEN "]" ELSE "comma"
           /\ key # NoKey => Body(ops, key)[2 * Len(ops) + 3] = key
<1> DEFINE n == Len(ops)
           N == 2 * n - 1
           T == S \cup {"comma", key, "ops:[", "]", "end", "idempotency_key:"}
           o == Ops(ops)
           t == IF key = NoKey THEN << >> ELSE << "idempotency_key:", key >>
           b == Body(ops, key)
<1>1. n \in Nat /\ n > 0 /\ N \in Nat /\ N = 2 * n - 1
  OBVIOUS
<1>2. "ops:[" \in T /\ "]" \in T /\ "end" \in T
  OBVIOUS
<1>3. t \in Seq(T) /\ Len(t) = (IF key = NoKey THEN 0 ELSE 2)
  <2>1. CASE key = NoKey
    BY <2>1
  <2>2. CASE key # NoKey
    BY <2>2
  <2> QED BY <2>1, <2>2
<1>4. key # NoKey => t[2] = key
  OBVIOUS
<1>5. /\ o \in Seq(T) /\ Len(o) = N
      /\ \A k \in 1 .. n : o[2 * k - 1] = ops[k]
      /\ \A k \in 1 .. n - 1 : o[2 * k] = "comma"
  <2>1. o \in Seq(S \cup {"comma"})
    BY OpsShape
  <2>2. o \in Seq(T)
    BY <2>1, SeqMonotonic
  <2> QED BY <2>2, OpsShape
<1>6. b = ((<< "ops:[" >> \o o \o << "]" >>) \o t) \o << "end" >>
  BY DEF Body
<1> HIDE DEF n, N, T, o, t, b
<1>7. /\ Len(b) = Len(o) + 3 + Len(t)
      /\ \A m \in 1 .. Len(o) : b[1 + m] = o[m]
      /\ b[Len(o) + 2] = "]"
      /\ \A m \in 1 .. Len(t) : b[Len(o) + 2 + m] = t[m]
  <2>1. o \in Seq(T) /\ t \in Seq(T)
    BY <1>3, <1>5
  <2> QED BY <1>2, <1>6, <2>1, Framed
<1>8. /\ Len(b) = N + 3 + Len(t)
      /\ \A m \in 1 .. N : b[1 + m] = o[m]
      /\ b[N + 2] = "]"
      /\ \A m \in 1 .. Len(t) : b[N + 2 + m] = t[m]
  BY <1>2, <1>5, <1>7
<1>11. \A k \in 1 .. n : b[2 * k] = ops[k]
  <2> SUFFICES ASSUME NEW k \in 1 .. n PROVE b[2 * k] = ops[k]
    OBVIOUS
  <2>1. 2 * k - 1 \in 1 .. N /\ 1 + (2 * k - 1) = 2 * k
    BY <1>1
  <2> QED BY <1>5, <1>8, <2>1
<1>12. \A k \in 1 .. n : b[2 * k + 1] = IF k = n THEN "]" ELSE "comma"
  <2> SUFFICES ASSUME NEW k \in 1 .. n PROVE b[2 * k + 1] = IF k = n THEN "]" ELSE "comma"
    OBVIOUS
  <2>1. CASE k = n
    <3>1. 2 * k + 1 = N + 2
      BY <1>1, <2>1
    <3> QED BY <1>8, <2>1, <3>1
  <2>2. CASE k # n
    <3>1. k \in 1 .. n - 1 /\ 2 * k \in 1 .. N
      BY <1>1, <2>2
    <3>2. 1 + 2 * k = 2 * k + 1
      BY <1>1
    <3>3. o[2 * k] = "comma"
      BY <1>5, <3>1
    <3>4. b[1 + 2 * k] = o[2 * k]
      BY <1>8, <3>1
    <3> QED BY <2>2, <3>2, <3>3, <3>4
  <2> QED BY <2>1, <2>2
<1>13. Len(b) = 2 * n + (IF key = NoKey THEN 2 ELSE 4)
  BY <1>1, <1>3, <1>8
<1>14. key # NoKey => b[2 * n + 3] = key
  BY <1>1, <1>3, <1>4, <1>8
<1> QED BY <1>11, <1>12, <1>13, <1>14 DEF n, b

(* A body without operations is no transaction's: its length is odd.       *)
LEMMA EmptyBody ==
    ASSUME NEW S, NEW ops \in Seq(S), Len(ops) = 0, NEW key, NEW t, Len(t.ops) \in Nat
    PROVE  ~Says(Body(ops, key), t)
<1> DEFINE T == S \cup {key, "ops:[", "]", "end", "idempotency_key:"}
           o == Ops(ops)
           k == IF key = NoKey THEN << >> ELSE << "idempotency_key:", key >>
           b == Body(ops, key)
<1>1. o \in [1 .. 0 -> T]
  BY DEF Ops
<1>2. k \in Seq(T) /\ Len(k) = (IF key = NoKey THEN 0 ELSE 2)
  <2>1. CASE key = NoKey
    BY <2>1
  <2>2. CASE key # NoKey
    BY <2>2
  <2> QED BY <2>1, <2>2
<1>3. "ops:[" \in T /\ "]" \in T /\ "end" \in T
  OBVIOUS
<1>4. b = ((<< "ops:[" >> \o o \o << "]" >>) \o k) \o << "end" >>
  BY DEF Body
<1> HIDE DEF T, o, k, b
<1>5. o \in Seq(T) /\ Len(o) = 0
  BY <1>1
<1>6. Len(b) = 3 + Len(k)
  <2>1. Len(b) = Len(o) + 3 + Len(k)
    <3>1. o \in Seq(T) /\ k \in Seq(T)
      BY <1>2, <1>5
    <3> QED BY <1>3, <1>4, <3>1, Framed
  <2> QED BY <1>2, <1>5, <2>1
<1>7. Len(b) \in {3, 5}
  BY <1>2, <1>6
<1>8. Len(b) # 2 * Len(t.ops) + (IF t.key = NoKey THEN 2 ELSE 4)
  <2>1. \A m \in Nat : 2 * m + 2 \notin {3, 5} /\ 2 * m + 4 \notin {3, 5}
    OBVIOUS
  <2> QED BY <1>7, <2>1
<1> QED BY <1>8 DEF Says, b

(* The daemon reads from a whole body what the client staged.              *)
LEMMA ReadsWhole ==
    ASSUME NEW S, NEW ops \in Seq(S), NEW key, NEW t, NEW U, t.ops \in Seq(U), t.ops # << >>,
           Says(Body(ops, key), t)
    PROVE  t.ops = ops /\ t.key = key
<1> DEFINE n == Len(ops)
           m == Len(t.ops)
           b == Body(ops, key)
<1>1. n \in Nat /\ m \in Nat /\ m > 0
  OBVIOUS
<1>2. n > 0
  BY <1>1, EmptyBody
<1>3. /\ Len(b) = 2 * n + (IF key = NoKey THEN 2 ELSE 4)
      /\ \A k \in 1 .. n : b[2 * k] = ops[k]
      /\ \A k \in 1 .. n : b[2 * k + 1] = IF k = n THEN "]" ELSE "comma"
      /\ key # NoKey => b[2 * n + 3] = key
  BY <1>2, BodyShape
<1>4. /\ Len(b) = 2 * m + (IF t.key = NoKey THEN 2 ELSE 4)
      /\ \A k \in 1 .. m : b[2 * k] = t.ops[k]
      /\ \A k \in 1 .. m : b[2 * k + 1] = IF k = m THEN "]" ELSE "comma"
      /\ t.key # NoKey => b[2 * m + 3] = t.key
  BY DEF Says
<1> HIDE DEF n, m, b
<1>5. n = m
  <2>1. CASE n < m
    <3>1. n \in 1 .. n /\ n \in 1 .. m /\ n # m
      BY <1>1, <1>2, <2>1
    <3> QED BY <1>3, <1>4, <3>1
  <2>2. CASE m < n
    <3>1. m \in 1 .. n /\ m \in 1 .. m /\ n # m
      BY <1>1, <1>2, <2>2
    <3> QED BY <1>3, <1>4, <3>1
  <2> QED BY <1>1, <2>1, <2>2
<1>6. t.ops = ops
  <2>1. \A k \in 1 .. n : ops[k] = t.ops[k]
    BY <1>3, <1>4, <1>5
  <2>2. ops = [k \in 1 .. n |-> ops[k]]
    BY DEF n
  <2>3. t.ops = [k \in 1 .. m |-> t.ops[k]]
    BY DEF m
  <2> QED BY <1>5, <2>1, <2>2, <2>3
<1>7. t.key = key
  BY <1>1, <1>3, <1>4, <1>5
<1> QED BY <1>6, <1>7

-----------------------------------------------------------------------------
(* A step that changes one exchange.                                       *)
LEMMA OneExchange ==
    ASSUME TypeOK, NEW c \in Clients, NEW s \in Slots, NEW x \in Exchange,
           Becomes(c, s, x)
    PROVE  /\ wire' \in [Clients -> [Slots -> Exchange]]
           /\ \A d \in Clients, u \in Slots :
                 wire'[d][u] = IF d = c /\ u = s THEN x ELSE wire[d][u]
BY DEF TypeOK, Becomes

LEMMA Bodied ==
    \A c \in Clients : \A b \in Bodies(IntentOf[c]) :
        [state |-> "sent", body |-> b] \in Exchange
<1> TAKE c \in Clients
<1> TAKE b \in Bodies(IntentOf[c])
<1>1. IntentOf[c] \in Intents
  BY RetryAssumption
<1>2. b \in UNION {Bodies(i) : i \in Intents}
  BY <1>1
<1> QED BY <1>2 DEF Exchange

LEMMA Statused ==
    \A n \in {200, 400, 409, 503} : [state |-> "answered", status |-> n] \in Exchange
BY DEF Exchange

LEMMA Ended == Closed \in Exchange /\ Lost \in Exchange
BY DEF Exchange

LEMMA InitType == Init => TypeOK
<1> SUFFICES ASSUME Init PROVE TypeOK
  OBVIOUS
<1>1. current \in [Clients -> Slots]
  BY RetryAssumption DEF Init
<1>2. wire \in [Clients -> [Slots -> Exchange]]
  BY Ended DEF Init
<1>3. log \in Seq(Txns) /\ violating \subseteq Intents /\ crashes \in 0 .. MaxCrashes
  BY RetryAssumption DEF Init
<1>4. up \in BOOLEAN
  BY DEF Init
<1>5. app \in [Clients -> {"ready", "waiting", "done"}] /\ result \in [Clients -> {"none", "ok", "no"}]
  BY DEF Init
<1> QED BY <1>1, <1>2, <1>3, <1>4, <1>5 DEF TypeOK

LEMMA StepType == TypeOK /\ [Next]_vars => TypeOK'
<1> SUFFICES ASSUME TypeOK, [Next]_vars PROVE TypeOK'
  OBVIOUS
<1> USE DEF daemon
<1>1. ASSUME NEW c \in Clients, Commit(c) PROVE TypeOK'
  <2>1. PICK s \in Slots : \E b \in Bodies(IntentOf[c]) :
            /\ Becomes(c, s, [state |-> "sent", body |-> b])
            /\ current' = [current EXCEPT ![c] = s]
    BY <1>1 DEF Commit
  <2>2. wire' \in [Clients -> [Slots -> Exchange]]
    BY <2>1, Bodied, OneExchange
  <2>3. current' \in [Clients -> Slots]
    BY <2>1 DEF TypeOK
  <2>4. app' \in [Clients -> {"ready", "waiting", "done"}]
    BY <1>1 DEF Commit, TypeOK
  <2> QED BY <1>1, <2>2, <2>3, <2>4 DEF Commit, TypeOK
<1>2. ASSUME NEW c \in Clients, NEW code, Told(c, code)
      PROVE  /\ app' \in [Clients -> {"ready", "waiting", "done"}]
             /\ result' \in [Clients -> {"none", "ok", "no"}]
  <2>1. CASE code \in DOMAIN Final
    <3>1. Final[code] \in {"ok", "no"}
      BY <2>1 DEF Final
    <3> QED BY <1>2, <2>1, <3>1 DEF Told, TypeOK
  <2>2. CASE code \notin DOMAIN Final
    BY <1>2, <2>2 DEF Told, TypeOK
  <2> QED BY <2>1, <2>2
<1>3. ASSUME NEW c \in Clients, Receive(c) PROVE TypeOK'
  <2>1. current[c] \in Slots
    BY DEF TypeOK
  <2>2. wire' \in [Clients -> [Slots -> Exchange]]
    BY <1>3, <2>1, Ended, OneExchange DEF Receive
  <2> QED BY <1>2, <1>3, <2>2 DEF Receive, TypeOK
<1>4. ASSUME NEW c \in Clients, TimeOut(c) PROVE TypeOK'
  BY <1>2, <1>4 DEF TimeOut, TypeOK
<1>5. ASSUME NEW c \in Clients, NEW s \in Slots, NEW n \in {200, 400, 409, 503}, Reply(c, s, n)
      PROVE  wire' \in [Clients -> [Slots -> Exchange]]
  <2> DEFINE x == [state |-> "answered", status |-> n]
  <2>1. x \in Exchange
    BY <1>5, Statused
  <2>2. Becomes(c, s, x)
    BY <1>5 DEF Reply
  <2> HIDE DEF x
  <2> QED BY <2>1, <2>2, OneExchange
<1>6. ASSUME NEW c \in Clients, NEW s \in Slots, Process(c, s) PROVE TypeOK'
  <2>1. wire' \in [Clients -> [Slots -> Exchange]]
    BY <1>5, <1>6 DEF Process
  <2>2. log' \in Seq(Txns)
    <3>1. log' = log \/ \E t \in Txns : log' = Append(log, t)
      BY <1>6 DEF Process, Reads
    <3>2. log \in Seq(Txns)
      BY DEF TypeOK
    <3> QED BY <3>1, <3>2
  <2> QED BY <1>6, <2>1, <2>2 DEF Process, TypeOK
<1>7. ASSUME NEW c \in Clients, NEW s \in Slots, Falter(c, s) PROVE TypeOK'
  BY <1>5, <1>7 DEF Falter, TypeOK
<1>8. ASSUME NEW c \in Clients, NEW s \in Slots, Lose(c, s) PROVE TypeOK'
  <2>1. wire' \in [Clients -> [Slots -> Exchange]]
    BY <1>8, Ended, OneExchange DEF Lose
  <2> QED BY <1>8, <2>1 DEF Lose, TypeOK
<1>9. ASSUME NEW c \in Clients, NEW s \in Slots, Discard(c, s) PROVE TypeOK'
  <2>1. wire' \in [Clients -> [Slots -> Exchange]]
    BY <1>9, Ended, OneExchange DEF Discard
  <2> QED BY <1>9, <2>1 DEF Discard, TypeOK
<1>10. ASSUME Crash PROVE TypeOK'
  <2>1. wire' \in [Clients -> [Slots -> Exchange]]
    BY <1>10, Ended DEF Crash, TypeOK
  <2>2. crashes' \in 0 .. MaxCrashes
    BY <1>10, RetryAssumption DEF Crash, TypeOK
  <2>3. up' \in BOOLEAN
    BY <1>10 DEF Crash
  <2> QED BY <1>10, <2>1, <2>2, <2>3 DEF Crash, TypeOK
<1>11. ASSUME Restart PROVE TypeOK'
  <2>1. up' \in BOOLEAN
    BY <1>11 DEF Restart
  <2> QED BY <1>11, <2>1 DEF Restart, TypeOK
<1>12. CASE UNCHANGED vars
  BY <1>12 DEF vars, TypeOK
<1> QED BY <1>1, <1>3, <1>4, <1>6, <1>7, <1>8, <1>9, <1>10, <1>11, <1>12 DEF Next

(* The type invariant of the clients, the exchanges and the daemon.        *)
THEOREM TypeCorrect == Spec => []TypeOK
<1> QED BY InitType, StepType, PTL DEF Spec

-----------------------------------------------------------------------------
LEMMA InitInv == Init => IInv
<1> SUFFICES ASSUME Init PROVE IInv
  OBVIOUS
<1>1. TypeOK
  BY InitType
<1>2. \A c \in Clients, s \in Slots : wire[c][s].state = "closed"
  BY DEF Init, Closed
<1>3. WireTrue
  BY <1>2 DEF WireTrue, Fits
<1>4. ToldTrue /\ LogWhole /\ KeysOnce
  BY DEF Init, ToldTrue, LogWhole, KeysOnce
<1> QED BY <1>1, <1>3, <1>4 DEF IInv

(* A request is understood as what its client asked for, or as nothing.    *)
LEMMA UnderstoodAsStaged ==
    ASSUME IInv, NEW c \in Clients, NEW s \in Slots, Sent(c, s),
           NEW t \in Reads(wire[c][s].body, Txns)
    PROVE  t = Txn(IntentOf[c])
<1> DEFINE i == IntentOf[c]
           b == wire[c][s].body
<1>1. i \in Intents
  BY RetryAssumption
<1>2. b = Body(Batch[i], KeyOf[i])
  BY DEF IInv, WireTrue, Fits, Sent
<1>3. PICK j \in Intents : t \in [ops : SeqOf(Range(Batch[j]), Len(Batch[j])),
                                 key : {KeyOf[j], NoKey}]
  BY DEF Reads, Txns
<1>4. t.ops \in SeqOf(Range(Batch[j]), Len(Batch[j])) /\ t = [ops |-> t.ops, key |-> t.key]
  BY <1>3
<1>5. Batch[j] \in Seq(Range(Batch[j])) /\ Batch[i] \in Seq(Range(Batch[i]))
  BY <1>1, RetryAssumption
<1>6. t.ops \in Seq(Range(Batch[j]))
  <2> DEFINE R == Range(Batch[j])
             n == Len(Batch[j])
  <2>1. PICK m \in 0 .. n : t.ops \in [1 .. m -> R]
    BY <1>4 DEF SeqOf
  <2>2. m \in Nat
    BY <1>5
  <2> HIDE DEF R
  <2> QED BY <2>1, <2>2 DEF R
<1>7. t.ops # << >> /\ Says(Body(Batch[i], KeyOf[i]), t)
  BY <1>2 DEF Reads
<1>8. t.ops = Batch[i] /\ t.key = KeyOf[i]
  <2> DEFINE ops == Batch[i]
             key == KeyOf[i]
             S == Range(Batch[i])
             U == Range(Batch[j])
  <2>1. ops \in Seq(S) /\ t.ops \in Seq(U)
    BY <1>5, <1>6
  <2>2. t.ops # << >> /\ Says(Body(ops, key), t)
    BY <1>7
  <2> HIDE DEF ops, key, S, U
  <2>3. t.ops = ops /\ t.key = key
    BY <2>1, <2>2, ReadsWhole
  <2> QED BY <2>3 DEF ops, key
<1> QED BY <1>4, <1>8 DEF Txn

(* What the daemon does with a request.                                    *)
LEMMA Processed ==
    ASSUME IInv, NEW c \in Clients, NEW s \in Slots, Process(c, s)
    PROVE  \/ log' = log /\ Reply(c, s, 400)
           \/ log' = log /\ Reply(c, s, 200) /\ Taken(IntentOf[c])
           \/ log' = log /\ Reply(c, s, 409) /\ Violates(Batch[IntentOf[c]])
           \/ /\ log' = Append(log, Txn(IntentOf[c])) /\ Reply(c, s, 200)
              /\ ~Known(KeyOf[IntentOf[c]]) /\ ~Violates(Batch[IntentOf[c]])
<1>1. CASE log' = log /\ Reply(c, s, 400)
  BY <1>1
<1>2. ASSUME NEW t \in Reads(wire[c][s].body, Txns),
             \/ Known(t.key) /\ Reply(c, s, 200) /\ log' = log
             \/ ~Known(t.key) /\ Violates(t.ops) /\ Reply(c, s, 409) /\ log' = log
             \/ ~Known(t.key) /\ ~Violates(t.ops) /\ Reply(c, s, 200) /\ log' = Append(log, t)
      PROVE  \/ log' = log /\ Reply(c, s, 200) /\ Taken(IntentOf[c])
             \/ log' = log /\ Reply(c, s, 409) /\ Violates(Batch[IntentOf[c]])
             \/ /\ log' = Append(log, Txn(IntentOf[c])) /\ Reply(c, s, 200)
                /\ ~Known(KeyOf[IntentOf[c]]) /\ ~Violates(Batch[IntentOf[c]])
  <2>1. t = Txn(IntentOf[c])
    BY UnderstoodAsStaged DEF Process
  <2>2. t.ops = Batch[IntentOf[c]] /\ t.key = KeyOf[IntentOf[c]]
    BY <2>1 DEF Txn
  <2>3. Known(t.key) => Taken(IntentOf[c])
    BY <2>2 DEF Known, Taken
  <2> QED BY <1>2, <2>1, <2>2, <2>3
<1> QED BY <1>1, <1>2 DEF Process

(* A step that changes one exchange and does not shorten the log.          *)
LEMMA WireStaysTrue ==
    ASSUME IInv, NEW c \in Clients, NEW s \in Slots, NEW x \in Exchange, Becomes(c, s, x),
           violating' = violating, \A i \in Intents : Taken(i) => Taken(i)',
           Fits(c, x)'
    PROVE  WireTrue'
<1> SUFFICES ASSUME NEW d \in Clients, NEW u \in Slots PROVE Fits(d, wire[d][u])'
  BY DEF WireTrue
<1>1. wire'[d][u] = IF d = c /\ u = s THEN x ELSE wire[d][u]
  BY OneExchange DEF IInv
<1>2. CASE d = c /\ u = s
  BY <1>1, <1>2
<1>3. CASE ~(d = c /\ u = s)
  <2>1. Fits(d, wire[d][u])
    BY DEF IInv, WireTrue
  <2>2. wire'[d][u] = wire[d][u]
    BY <1>1, <1>3
  <2>3. IntentOf[d] \in Intents
    BY RetryAssumption
  <2> QED BY <2>1, <2>2, <2>3 DEF Fits, Violates
<1> QED BY <1>2, <1>3

(* What was taken stays taken.                                             *)
LEMMA Grows ==
    ASSUME TypeOK, NEW t, log' = log \/ log' = Append(log, t), NEW i, Taken(i)
    PROVE  Taken(i)'
<1>1. log \in Seq(Txns)
  BY DEF TypeOK
<1>2. PICK n \in DOMAIN log : log[n].key = KeyOf[i]
  BY DEF Taken
<1>3. n \in DOMAIN log' /\ log'[n] = log[n]
  BY <1>1, <1>2
<1> QED BY <1>2, <1>3 DEF Taken

LEMMA CommitInv == ASSUME ~Tears, IInv, NEW c \in Clients, Commit(c), TypeOK' PROVE IInv'
<1> USE DEF daemon
<1>1. PICK s \in Slots, b \in Bodies(IntentOf[c]) :
          Becomes(c, s, [state |-> "sent", body |-> b])
  BY DEF Commit
<1> DEFINE x == [state |-> "sent", body |-> b]
<1>2. b = Body(Batch[IntentOf[c]], KeyOf[IntentOf[c]])
  BY DEF Bodies
<1>3. Fits(c, x)'
  BY <1>2 DEF Fits
<1>4. x \in Exchange
  BY Bodied
<1>5. violating' = violating /\ log' = log
  BY DEF Commit
<1>6. \A i \in Intents : Taken(i) => Taken(i)'
  BY <1>5 DEF Taken
<1>7. WireTrue'
  <2> HIDE DEF x
  <2> QED BY <1>1, <1>3, <1>4, <1>5, <1>6, WireStaysTrue DEF x
<1>8. ToldTrue'
  BY <1>5 DEF Commit, IInv, ToldTrue, TypeOK, Taken, Violates
<1>9. LogWhole' /\ KeysOnce'
  BY <1>5 DEF IInv, LogWhole, KeysOnce, Violates
<1> QED BY <1>7, <1>8, <1>9 DEF IInv

(* What the loop makes of an answer.                                       *)
LEMMA ToldWhat ==
    ASSUME TypeOK, NEW c \in Clients, app[c] = "waiting", NEW code, Told(c, code)
    PROVE  \/ /\ code = "OK" /\ result' = [result EXCEPT ![c] = "ok"]
              /\ app' = [app EXCEPT ![c] = "done"]
           \/ /\ code = "CONFLICT" /\ result' = [result EXCEPT ![c] = "no"]
              /\ app' = [app EXCEPT ![c] = "done"]
           \/ /\ code \notin {"OK", "CONFLICT"} /\ result' = result
              /\ app' = [app EXCEPT ![c] = "ready"]
BY DEF Told, Final

(* MDB_OK reports a status of 200, MDB_ERR_CONFLICT one of 409.            *)
LEMMA CodeOf ==
    ASSUME NEW n \in {200, 400, 409, 503}
    PROVE  (Code(n) = "OK" <=> n = 200) /\ (Code(n) = "CONFLICT" <=> n = 409)
BY DEF Code

LEMMA StatusOf ==
    ASSUME TypeOK, NEW c \in Clients, Answered(c)
    PROVE  wire[c][current[c]].status \in {200, 400, 409, 503}
<1>1. current[c] \in Slots /\ wire[c][current[c]] \in Exchange
  BY DEF TypeOK
<1>2. wire[c][current[c]].state = "answered"
  BY DEF Answered
<1> QED BY <1>1, <1>2 DEF Exchange, Closed, Lost

LEMMA ReceiveInv == ASSUME IInv, NEW c \in Clients, Receive(c), TypeOK' PROVE IInv'
<1> USE DEF daemon
<1> DEFINE x == wire[c][current[c]]
<1>1. TypeOK /\ WireTrue /\ ToldTrue
  BY DEF IInv
<1>2. violating' = violating /\ log' = log
  BY DEF Receive
<1>3. \A i \in Intents : Taken(i) => Taken(i)'
  BY <1>2 DEF Taken
<1>4. WireTrue'
  <2>1. Fits(c, Closed)'
    BY DEF Fits, Closed
  <2>2. current[c] \in Slots
    BY <1>1 DEF TypeOK
  <2> QED BY <1>2, <1>3, <2>1, <2>2, Ended, WireStaysTrue DEF Receive
<1>5. ToldTrue'
  <2>1. x.status \in {200, 400, 409, 503} /\ Told(c, Code(x.status)) /\ app[c] = "waiting"
    BY <1>1, StatusOf DEF Receive
  <2>2. /\ x.status = 200 => Taken(IntentOf[c])
        /\ x.status = 409 => Violates(Batch[IntentOf[c]])
    BY <1>1 DEF Receive, Answered, WireTrue, Fits, TypeOK
  <2>3. \/ /\ x.status = 200 /\ result' = [result EXCEPT ![c] = "ok"]
           /\ app' = [app EXCEPT ![c] = "done"]
        \/ /\ x.status = 409 /\ result' = [result EXCEPT ![c] = "no"]
           /\ app' = [app EXCEPT ![c] = "done"]
        \/ result' = result /\ app' = [app EXCEPT ![c] = "ready"]
    BY <1>1, <2>1, ToldWhat, CodeOf
  <2> HIDE DEF x
  <2>4. app \in [Clients -> {"ready", "waiting", "done"}]
        /\ result \in [Clients -> {"none", "ok", "no"}]
    BY <1>1 DEF TypeOK
  <2> QED BY <1>1, <1>2, <2>1, <2>2, <2>3, <2>4 DEF ToldTrue, Taken, Violates
<1>6. LogWhole' /\ KeysOnce'
  BY <1>2 DEF IInv, LogWhole, KeysOnce, Violates
<1> QED BY <1>4, <1>5, <1>6 DEF IInv

LEMMA TimeOutInv == ASSUME IInv, NEW c \in Clients, TimeOut(c), TypeOK' PROVE IInv'
<1> USE DEF daemon
<1>1. result' = result /\ app' = [app EXCEPT ![c] = "ready"]
  BY ToldWhat DEF TimeOut, IInv
<1>2. ToldTrue'
  BY <1>1 DEF TimeOut, IInv, ToldTrue, TypeOK, Taken, Violates
<1>3. WireTrue' /\ LogWhole' /\ KeysOnce'
  BY DEF TimeOut, IInv, WireTrue, Fits, Taken, LogWhole, KeysOnce, Violates
<1> QED BY <1>2, <1>3 DEF IInv

(* A batch is applied under a key that was not taken.                      *)
LEMMA ProcessInv ==
    ASSUME IInv, NEW c \in Clients, NEW s \in Slots, Process(c, s), TypeOK' PROVE IInv'
<1> USE DEF daemon
<1> DEFINE i == IntentOf[c]
           A(n) == [state |-> "answered", status |-> n]
<1>1. /\ violating' = violating /\ app' = app /\ result' = result
      /\ i \in Intents /\ log \in Seq(Txns)
  BY RetryAssumption DEF Process, IInv, TypeOK
<1>2. \A j : Violates(j)' <=> Violates(j)
  BY <1>1 DEF Violates
<1>3. log' = log \/ log' = Append(log, Txn(i))
  BY Processed
<1>4. \A j \in Intents : Taken(j) => Taken(j)'
  BY <1>3, Grows DEF IInv
<1>5. WireTrue'
  <2>1. ASSUME NEW n \in {200, 400, 409, 503}, Reply(c, s, n),
               n = 200 => Taken(i)', n = 409 => Violates(Batch[i])
        PROVE  WireTrue'
    <3>1. A(n) \in Exchange
      BY <2>1, Statused
    <3>2. Fits(c, A(n))'
      BY <1>2, <2>1 DEF Fits
    <3>3. Becomes(c, s, A(n))
      BY <2>1 DEF Reply
    <3> HIDE DEF A
    <3> QED BY <1>1, <1>4, <3>1, <3>2, <3>3, WireStaysTrue
  <2>2. log' = Append(log, Txn(i)) => Taken(i)'
    <3> SUFFICES ASSUME log' = Append(log, Txn(i)) PROVE Taken(i)'
      OBVIOUS
    <3>1. Len(log) + 1 \in DOMAIN log' /\ log'[Len(log) + 1] = Txn(i)
      BY <1>1
    <3> QED BY <3>1 DEF Taken, Txn
  <2>3. CASE log' = log /\ Reply(c, s, 400)
    BY <2>1, <2>3
  <2>4. CASE log' = log /\ Reply(c, s, 200) /\ Taken(i)
    BY <1>1, <1>4, <2>1, <2>4
  <2>5. CASE log' = log /\ Reply(c, s, 409) /\ Violates(Batch[i])
    BY <2>1, <2>5
  <2>6. CASE log' = Append(log, Txn(i)) /\ Reply(c, s, 200)
    BY <2>1, <2>2, <2>6
  <2> QED BY <2>3, <2>4, <2>5, <2>6, Processed
<1>6. ToldTrue'
  <2> SUFFICES ASSUME NEW d \in Clients
               PROVE  /\ result[d] = "ok" => Taken(IntentOf[d])'
                      /\ result[d] = "no" => Violates(Batch[IntentOf[d]])'
                      /\ app[d] # "done" => result[d] = "none"
    BY <1>1 DEF ToldTrue
  <2>1. IntentOf[d] \in Intents
    BY RetryAssumption
  <2> QED BY <1>2, <1>4, <2>1 DEF IInv, ToldTrue
<1>7. LogWhole' /\ KeysOnce'
  <2>1. CASE log' = log
    BY <1>2, <2>1 DEF IInv, LogWhole, KeysOnce
  <2>2. CASE log' = Append(log, Txn(i)) /\ ~Known(KeyOf[i]) /\ ~Violates(Batch[i])
    <3>1. /\ DOMAIN log' = DOMAIN log \cup {Len(log) + 1} /\ Len(log) + 1 \notin DOMAIN log
          /\ \A n \in DOMAIN log : log'[n] = log[n]
          /\ log'[Len(log) + 1] = Txn(i)
      BY <1>1, <2>2
    <3>2. LogWhole'
      BY <1>1, <1>2, <2>2, <3>1 DEF IInv, LogWhole
    <3>3. \A n \in DOMAIN log : KeyOf[i] # NoKey => log[n].key # KeyOf[i]
      BY <2>2 DEF Known
    <3>4. KeysOnce'
      BY <3>1, <3>3 DEF IInv, KeysOnce, Txn
    <3> QED BY <3>2, <3>4
  <2> QED BY <2>1, <2>2, Processed
<1> QED BY <1>5, <1>6, <1>7 DEF IInv

(* The other steps of the network and the daemon leave the log alone, and  *)
(* no exchange they change says anything.                                  *)
Silent(x) == x.state = "sent" \/ x.state = "answered" => x = [state |-> "answered", status |-> 503]

LEMMA SilentInv ==
    ASSUME IInv, UNCHANGED << app, result, violating, log >>, TypeOK',
           \A c \in Clients, s \in Slots : wire'[c][s] = wire[c][s] \/ Silent(wire'[c][s])
    PROVE  IInv'
<1>1. WireTrue'
  BY DEF IInv, WireTrue, Fits, Silent, Taken, Violates
<1>2. ToldTrue' /\ LogWhole' /\ KeysOnce'
  BY DEF IInv, ToldTrue, LogWhole, KeysOnce, Taken, Violates
<1> QED BY <1>1, <1>2 DEF IInv

LEMMA SilentStep ==
    ASSUME IInv, NEW c \in Clients, NEW s \in Slots, TypeOK',
           Falter(c, s) \/ Lose(c, s) \/ Discard(c, s)
    PROVE  IInv'
<1> USE DEF daemon
<1>1. UNCHANGED << app, result, violating, log >>
  BY DEF Falter, Lose, Discard
<1>2. PICK x \in Exchange : Becomes(c, s, x) /\ Silent(x)
  <2> DEFINE A == [state |-> "answered", status |-> 503]
  <2>1. A \in Exchange /\ Silent(A)
    BY Statused DEF Silent
  <2>2. Silent(Closed) /\ Silent(Lost)
    BY DEF Silent, Closed, Lost
  <2>3. Becomes(c, s, A) \/ Becomes(c, s, Lost) \/ Becomes(c, s, Closed)
    BY DEF Falter, Lose, Discard, Reply
  <2> HIDE DEF A
  <2> QED BY <2>1, <2>2, <2>3, Ended
<1>3. \A d \in Clients, u \in Slots : wire'[d][u] = wire[d][u] \/ Silent(wire'[d][u])
  BY <1>2, OneExchange DEF IInv
<1> QED BY <1>1, <1>3, SilentInv

LEMMA StepInv == ASSUME ~Tears PROVE IInv /\ [Next]_vars => IInv'
<1> SUFFICES ASSUME IInv, [Next]_vars PROVE IInv'
  OBVIOUS
<1> USE DEF daemon
<1>1. TypeOK'
  BY StepType DEF IInv
<1>2. ASSUME NEW c \in Clients, Commit(c) \/ Receive(c) \/ TimeOut(c) PROVE IInv'
  BY <1>1, <1>2, CommitInv, ReceiveInv, TimeOutInv
<1>3. ASSUME NEW c \in Clients, NEW s \in Slots,
             Process(c, s) \/ Falter(c, s) \/ Lose(c, s) \/ Discard(c, s)
      PROVE  IInv'
  BY <1>1, <1>3, ProcessInv, SilentStep
<1>4. CASE Crash
  <2>1. \A c \in Clients, s \in Slots : Silent(wire'[c][s])
    BY <1>4 DEF Crash, Silent, Closed, Lost
  <2>2. UNCHANGED << app, result, violating, log >>
    BY <1>4 DEF Crash
  <2> QED BY <1>1, <2>1, <2>2, SilentInv
<1>5. CASE Restart
  BY <1>1, <1>5, SilentInv DEF Restart
<1>6. CASE UNCHANGED vars
  BY <1>1, <1>6, SilentInv DEF vars
<1> QED BY <1>2, <1>3, <1>4, <1>5, <1>6 DEF Next

LEMMA Invariant == ASSUME ~Tears PROVE Spec => []IInv
<1>1. IInv /\ [Next]_vars => IInv'
  BY StepInv
<1> QED BY InitInv, <1>1, PTL DEF Spec

(* What the daemon applies is a batch as some caller staged it, as long as *)
(* the appends that build the body find memory: bodies of different        *)
(* batches are never mistaken for one another.                             *)
THEOREM AppliedWhole == ASSUME ~Tears PROVE Spec => []WholeBatches
<1>1. IInv => WholeBatches
  BY DEF IInv, LogWhole, WholeBatches, Txn
<1>2. Spec => []IInv
  BY Invariant
<1> QED BY <1>1, <1>2, PTL

-----------------------------------------------------------------------------
(* A batch took effect once if its key was taken, otherwise never.         *)
LEMMA AppliedCount ==
    ASSUME IInv, Keyed, NEW i \in Intents
    PROVE  Applied(i) = IF Taken(i) THEN 1 ELSE 0
<1>1. \A n \in DOMAIN log : n \in Effects(i) <=> log[n].key = KeyOf[i]
  <2> SUFFICES ASSUME NEW n \in DOMAIN log PROVE n \in Effects(i) <=> log[n].key = KeyOf[i]
    OBVIOUS
  <2>1. PICK j \in Intents : log[n] = Txn(j)
    BY DEF IInv, LogWhole
  <2>2. log[n].ops = Batch[j] /\ log[n].key = KeyOf[j]
    BY <2>1 DEF Txn
  <2>3. KeyOf[j] # NoKey /\ (KeyOf[j] = KeyOf[i] => j = i)
    BY DEF Keyed
  <2> QED BY <2>2, <2>3 DEF Effects
<1>2. CASE Taken(i)
  <2>1. PICK n \in DOMAIN log : log[n].key = KeyOf[i]
    BY <1>2 DEF Taken
  <2>2. \A m \in DOMAIN log : log[m].key = KeyOf[i] => m = n
    BY <2>1 DEF IInv, KeysOnce, Keyed
  <2>3. Effects(i) = {n}
    BY <1>1, <2>1, <2>2 DEF Effects
  <2>4. Cardinality({n}) = 1
    BY FS_Singleton
  <2> QED BY <1>2, <2>3, <2>4 DEF Applied
<1>3. CASE ~Taken(i)
  <2>1. Effects(i) = {}
    BY <1>1, <1>3 DEF Taken, Effects
  <2>2. Cardinality({}) = 0
    BY FS_EmptySet
  <2> QED BY <1>3, <2>1, <2>2 DEF Applied
<1> QED BY <1>2, <1>3

LEMMA Counts == IInv /\ Keyed => \A i \in Intents : Applied(i) = IF Taken(i) THEN 1 ELSE 0
BY AppliedCount

LEMMA NextCounts ==
    (IInv /\ Keyed)' => \A i \in Intents : Applied(i)' = IF Taken(i)' THEN 1 ELSE 0
<1>1. (IInv /\ Keyed => \A i \in Intents : Applied(i) = IF Taken(i) THEN 1 ELSE 0)'
  BY Counts, PTL
<1> QED BY <1>1

(* A batch that violates a constraint is never taken.                      *)
LEMMA ViolatesOrTaken ==
    ASSUME IInv, Keyed, NEW i \in Intents, Taken(i) PROVE ~Violates(Batch[i])
<1>1. PICK n \in DOMAIN log : log[n].key = KeyOf[i]
  BY DEF Taken
<1>2. PICK j \in Intents : log[n] = Txn(j) /\ ~Violates(Batch[j])
  BY DEF IInv, LogWhole
<1>3. j = i
  BY <1>1, <1>2 DEF Txn, Keyed
<1> QED BY <1>2, <1>3

Times == [i \in Intents |-> Applied(i)]

LEMMA InitRefines == Init => Once!Init
<1> SUFFICES ASSUME Init PROVE Once!Init
  OBVIOUS
<1>1. ASSUME NEW i \in Intents PROVE Applied(i) = 0
  <2>1. Effects(i) = {}
    BY DEF Init, Effects
  <2> QED BY <2>1, FS_EmptySet DEF Applied
<1> QED BY <1>1 DEF Init, Once!Init

(* A step that leaves the log alone.                                       *)
LEMMA SameTimes == ASSUME log' = log PROVE Times' = Times
<1>1. ASSUME NEW i \in Intents PROVE Applied(i)' = Applied(i)
  BY DEF Applied, Effects
<1> QED BY <1>1 DEF Times

LEMMA TellRefines ==
    ASSUME IInv, Keyed, NEW c \in Clients, Receive(c) PROVE Once!Next \/ UNCHANGED Once!vars
<1> DEFINE x == wire[c][current[c]]
           i == IntentOf[c]
<1>1. i \in Intents /\ TypeOK /\ log' = log
  BY RetryAssumption DEF IInv, Receive, daemon
<1>2. x.status \in {200, 400, 409, 503} /\ Told(c, Code(x.status)) /\ app[c] = "waiting"
  BY <1>1, StatusOf DEF Receive
<1>3. (x.status = 200 => Taken(i)) /\ (x.status = 409 => Violates(Batch[i]))
  BY <1>1 DEF Receive, Answered, IInv, WireTrue, Fits, TypeOK
<1>4. result[c] = "none"
  BY <1>2 DEF IInv, ToldTrue
<1>5. \/ x.status = 200 /\ result' = [result EXCEPT ![c] = "ok"]
      \/ x.status = 409 /\ result' = [result EXCEPT ![c] = "no"]
      \/ result' = result
  BY <1>1, <1>2, ToldWhat, CodeOf
<1>6. Times' = Times
  BY <1>1, SameTimes
<1>7. Times[i] = IF Taken(i) THEN 1 ELSE 0
  BY <1>1, AppliedCount DEF Times
<1>8. CASE x.status = 200 /\ result' = [result EXCEPT ![c] = "ok"]
  <2>1. Once!Tell(c)
    BY <1>3, <1>4, <1>6, <1>7, <1>8 DEF Once!Tell, Times
  <2> QED BY <2>1 DEF Once!Next
<1>9. CASE x.status = 409 /\ result' = [result EXCEPT ![c] = "no"]
  <2>1. ~Taken(i)
    BY <1>1, <1>3, <1>9, ViolatesOrTaken
  <2>2. Times[i] # 1
    BY <1>7, <2>1
  <2>3. Once!Tell(c)
    BY <1>4, <1>6, <1>9, <2>2 DEF Once!Tell, Times
  <2> QED BY <2>3 DEF Once!Next
<1>10. CASE result' = result
  BY <1>6, <1>10 DEF Once!vars, Times
<1> QED BY <1>5, <1>8, <1>9, <1>10

LEMMA ProcessRefines ==
    ASSUME IInv, IInv', Keyed, NEW c \in Clients, NEW s \in Slots, Process(c, s)
    PROVE  Once!Next \/ UNCHANGED Once!vars
<1> DEFINE i == IntentOf[c]
<1>1. i \in Intents /\ log \in Seq(Txns) /\ result' = result
  BY RetryAssumption DEF Process, IInv, TypeOK
<1>2. CASE log' = log
  <2>1. Times' = Times
    BY <1>2, SameTimes
  <2> QED BY <1>1, <2>1 DEF Once!vars, Times
<1>3. CASE log' = Append(log, Txn(i)) /\ ~Known(KeyOf[i]) /\ ~Violates(Batch[i])
  <2>1. /\ DOMAIN log' = DOMAIN log \cup {Len(log) + 1}
        /\ \A n \in DOMAIN log : log'[n] = log[n]
        /\ log'[Len(log) + 1].key = KeyOf[i]
    BY <1>1, <1>3 DEF Txn
  <2>2. ~Taken(i) /\ Taken(i)'
    BY <1>1, <1>3, <2>1 DEF Known, Taken, Keyed
  <2>3. \A j \in Intents : j # i => (Taken(j)' <=> Taken(j))
    BY <1>1, <2>1 DEF Taken, Keyed
  <2>4. \A j \in Intents : Applied(j)' = IF Taken(j)' THEN 1 ELSE 0
    <3>1. (IInv /\ Keyed)'
      BY DEF Keyed
    <3> QED BY <3>1, NextCounts
  <2>5. Times[i] = 0 /\ Times' = [Times EXCEPT ![i] = 1]
    BY <1>1, <2>2, <2>3, <2>4, AppliedCount DEF Times
  <2>6. \A d \in Clients : IntentOf[d] = i => result[d] # "no"
    BY <1>3 DEF IInv, ToldTrue
  <2>7. Once!Commit(i)
    BY <1>1, <2>5, <2>6 DEF Once!Commit, Times
  <2> QED BY <1>1, <2>7 DEF Once!Next
<1> QED BY <1>2, <1>3, Processed

LEMMA NextRefines ==
    ASSUME IInv, IInv', Keyed, [Next]_vars PROVE Once!Next \/ UNCHANGED Once!vars
<1>1. ASSUME UNCHANGED << log, result >> PROVE UNCHANGED Once!vars
  <2>1. Times' = Times
    BY <1>1, SameTimes
  <2> QED BY <1>1, <2>1 DEF Once!vars, Times
<1>2. ASSUME NEW c \in Clients, TimeOut(c) PROVE UNCHANGED << log, result >>
  BY <1>2, ToldWhat DEF TimeOut, daemon, IInv
<1>3. CASE \E c \in Clients : Commit(c) \/ TimeOut(c)
  BY <1>1, <1>2, <1>3 DEF Commit, daemon
<1>4. CASE \E c \in Clients : Receive(c)
  BY <1>4, TellRefines
<1>5. CASE \E c \in Clients, s \in Slots : Process(c, s)
  BY <1>5, ProcessRefines
<1>6. CASE \E c \in Clients, s \in Slots : Falter(c, s) \/ Lose(c, s) \/ Discard(c, s)
  BY <1>1, <1>6 DEF Falter, Lose, Discard, daemon
<1>7. CASE Crash \/ Restart \/ UNCHANGED vars
  BY <1>1, <1>7 DEF Crash, Restart, vars
<1> QED BY <1>3, <1>4, <1>5, <1>6, <1>7 DEF Next

(* However often a commit with a key of its own is retried, raced by a     *)
(* delayed copy of itself, or cut by a crash after it was applied, it      *)
(* takes effect at most once; MDB_OK means it did and MDB_ERR_CONFLICT     *)
(* that it never will.                                                     *)
THEOREM ImplementsExactlyOnce == ASSUME ~Tears, Keyed PROVE Spec => IsExactlyOnce
<1>1. IInv /\ IInv' /\ [Next]_vars => [Once!Next]_Once!vars
  BY NextRefines
<1>2. Spec => []IInv
  BY Invariant
<1> QED BY InitRefines, <1>1, <1>2, PTL DEF Spec, IsExactlyOnce, Once!Spec
================================================================================
