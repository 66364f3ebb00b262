-------------------------- MODULE StatusDecodeProofs --------------------------
(***************************************************************************)
(* Theorems about StatusDecode, for every set of replies.                  *)
(***************************************************************************)
EXTENDS StatusDecode, SequenceTheorems, TLAPS

(* The reply is one that the daemon may give, the cursor in the script, and *)
(* the blob a sequence of strings.                                         *)
ShapeOK ==
    /\ pc \in 0 .. Len(Script) + 1
    /\ blob \in [gen : Nat, at : Seq(Strings \cup {<< "left_behind" >>})]
    /\ offs \in [Strings -> Nat]
    /\ reply \in Replies \cup {<< >>}

(* An offset leads to the string it was recorded for.                      *)
CopiedOK == \A s \in Strings :
    offs[s] # 0 => offs[s] \in DOMAIN blob.at /\ blob.at[offs[s]] = s /\ Here(s)

(* What the lookups that were done have left: a string, unless memory was  *)
(* short, each timestamp that is there, and the flag of `durable`.         *)
Done(j) == pc = Idle \/ j < pc

DoneOK == \A j \in DOMAIN Script : Done(j) =>
    /\ Script[j].kind = "string" /\ offs[Script[j].path] = 0 => ~Here(Script[j].path) \/ short
    /\ Script[j].kind = "hlc" /\ HlcPresent(Script[j].path) => Script[j].object \in hlcs
    /\ Script[j].kind = "object" /\ Script[j].path = Durable /\ Here(Durable) => Durable \in flags

(* No timestamp is reported that is not there.                             *)
HlcsReal == \A o \in hlcs : HlcPresent(Hlc(o))

IInv == ShapeOK /\ CopiedOK /\ DoneOK /\ HlcsReal /\ StringsFaithful

-----------------------------------------------------------------------------
(* The lookups, as a set.                                                  *)
LEMMA RangeJoined ==
    ASSUME NEW T, NEW s \in Seq(T), NEW t \in Seq(T)
    PROVE  s \o t \in Seq(T) /\ Range(s \o t) = Range(s) \cup Range(t)
<1>1. s \o t \in Seq(T) /\ Len(s \o t) = Len(s) + Len(t)
  OBVIOUS
<1>2. DOMAIN (s \o t) = 1 .. Len(s) + Len(t) /\ DOMAIN s = 1 .. Len(s) /\ DOMAIN t = 1 .. Len(t)
  BY <1>1
<1>3. ASSUME NEW m \in 1 .. Len(s) + Len(t)
      PROVE  (s \o t)[m] \in Range(s) \cup Range(t)
  <2>1. CASE m <= Len(s)
    BY <2>1, <1>2 DEF Range
  <2>2. CASE m > Len(s)
    <3>1. m - Len(s) \in 1 .. Len(t) /\ (s \o t)[m] = t[m - Len(s)]
      BY <2>2
    <3> QED BY <3>1, <1>2 DEF Range
  <2> QED BY <2>1, <2>2
<1>4. ASSUME NEW m \in 1 .. Len(s) PROVE s[m] \in Range(s \o t)
  <2>1. m \in 1 .. Len(s) + Len(t) /\ (s \o t)[m] = s[m]
    OBVIOUS
  <2> QED BY <2>1, <1>2 DEF Range
<1>5. ASSUME NEW m \in 1 .. Len(t) PROVE t[m] \in Range(s \o t)
  <2>1. Len(s) + m \in 1 .. Len(s) + Len(t) /\ (s \o t)[Len(s) + m] = t[m]
    OBVIOUS
  <2> QED BY <2>1, <1>2 DEF Range
<1>6. Range(s \o t) \subseteq Range(s) \cup Range(t)
  BY <1>2, <1>3 DEF Range
<1>7. Range(s) \cup Range(t) \subseteq Range(s \o t)
  <2>1. Range(s) \subseteq Range(s \o t)
    BY <1>2, <1>4 DEF Range
  <2>2. Range(t) \subseteq Range(s \o t)
    BY <1>2, <1>5 DEF Range
  <2> QED BY <2>1, <2>2
<1> QED BY <1>1, <1>6, <1>7

Names == {"query_id", "status", "state", "server_state", "terminal_state", "committed",
          "committed_statements", "last_commit_epoch", "last_commit_epoch_text",
          "last_commit_hlc", "first_commit_statement_index", "last_commit_statement_index",
          "completed_statements", "statement_index", "cancel_outcome", "cancellation_reason",
          "retryable", "serialization", "serialization_state"}

KindNames == {"string", "flag", "hlc"}

Field == [kind : KindNames, name : Names]

LEMMA RangeKinds ==
    ASSUME NEW names \in Seq(Names), NEW kind \in KindNames
    PROVE  /\ Kinds(kind, names) \in Seq(Field)
           /\ Range(Kinds(kind, names)) = {[kind |-> kind, name |-> n] : n \in Range(names)}
<1>1. Kinds(kind, names) = [i \in 1 .. Len(names) |-> [kind |-> kind, name |-> names[i]]]
  BY DEF Kinds
<1>2. \A i \in 1 .. Len(names) : [kind |-> kind, name |-> names[i]] \in Field
  BY DEF Field
<1>3. Kinds(kind, names) \in [1 .. Len(names) -> Field]
  BY <1>1, <1>2
<1>4. Kinds(kind, names) \in Seq(Field)
  <2>1. Len(names) \in Nat
    OBVIOUS
  <2> QED BY <1>3, <2>1
<1>5. Range(Kinds(kind, names)) = {[kind |-> kind, name |-> n] : n \in Range(names)}
  BY <1>1 DEF Range
<1> QED BY <1>4, <1>5

(* An object has one timestamp, and the strings the accessors ask for.     *)
LEMMA FieldsAre ==
    ASSUME NEW o
    PROVE  /\ Fields(o) \in Seq(Field)
           /\ [kind |-> "hlc", name |-> "last_commit_hlc"] \in Range(Fields(o))
           /\ \A f \in Range(Fields(o)) : f.kind = "hlc" => f.name = "last_commit_hlc"
           /\ o = Status => [kind |-> "string", name |-> "state"] \in Range(Fields(o))
           /\ o # Status => \A n \in {"serialization", "serialization_state"} :
                               [kind |-> "string", name |-> n] \in Range(Fields(o))
<1> DEFINE S5 == << "query_id", "status", "state", "server_state", "terminal_state" >>
           S3 == << "serialization", "serialization_state", "terminal_state" >>
           a == IF o = Status THEN Kinds("string", S5) ELSE << >>
           b == Kinds("flag", << "committed" >> \o Epochs)
           c == Kinds("string", << "last_commit_epoch_text" >>)
           d == Kinds("hlc", << "last_commit_hlc" >>)
           e == Kinds("flag", Indices)
           x == Kinds("string", << "cancel_outcome", "cancellation_reason" >>)
           y == Kinds("flag", << "retryable" >>)
           f == IF o = Status THEN x \o y ELSE Kinds("string", S3)
           Other(g) == g \in Seq(Field) /\ \A h \in Range(g) : h.kind # "hlc"
<1>1. ASSUME NEW names \in Seq(Names), NEW k \in {"string", "flag"} PROVE Other(Kinds(k, names))
  <2>1. k \in KindNames /\ k # "hlc"
    BY <1>1 DEF KindNames
  <2>2. Kinds(k, names) \in Seq(Field)
    BY <2>1, RangeKinds
  <2>3. \A h \in Range(Kinds(k, names)) : h.kind = k
    BY <2>1, RangeKinds
  <2> QED BY <2>1, <2>2, <2>3
<1>2. ASSUME NEW names \in Seq(Names), NEW n \in Range(names)
      PROVE  [kind |-> "string", name |-> n] \in Range(Kinds("string", names))
  <2>1. "string" \in KindNames
    BY DEF KindNames
  <2>2. Range(Kinds("string", names)) = {[kind |-> "string", name |-> m] : m \in Range(names)}
    BY <2>1, RangeKinds
  <2> QED BY <2>2
<1>3. << >> \in Seq(Field) /\ Range(<< >>) = {}
  BY DEF Range
<1> HIDE DEF Other
<1>4. Other(a) /\ (o = Status => [kind |-> "string", name |-> "state"] \in Range(a))
  <2>1. S5 \in Seq(Names)
    BY DEF Names
  <2>2. S5[3] = "state" /\ 3 \in DOMAIN S5
    OBVIOUS
  <2>3. "state" \in Range(S5)
    BY <2>2 DEF Range
  <2>4. CASE o = Status
    <3> HIDE DEF S5
    <3> QED BY <1>1, <1>2, <2>1, <2>3, <2>4
  <2>5. CASE o # Status
    BY <1>3, <2>5 DEF Other
  <2> QED BY <2>4, <2>5
<1>5. Other(b) /\ Other(c) /\ Other(e) /\ Other(x) /\ Other(y)
  <2>1. /\ << "committed" >> \o Epochs \in Seq(Names) /\ << "last_commit_epoch_text" >> \in Seq(Names)
        /\ Indices \in Seq(Names) /\ << "cancel_outcome", "cancellation_reason" >> \in Seq(Names)
        /\ << "retryable" >> \in Seq(Names)
    BY DEF Epochs, Indices, Names
  <2> QED BY <1>1, <2>1
<1>6. d \in Seq(Field) /\ Range(d) = {[kind |-> "hlc", name |-> "last_commit_hlc"]}
  <2> DEFINE N == << "last_commit_hlc" >>
  <2>1. N \in Seq(Names) /\ Range(N) = {"last_commit_hlc"}
    BY DEF Range, Names
  <2>2. "hlc" \in KindNames
    BY DEF KindNames
  <2> HIDE DEF N
  <2>3. Kinds("hlc", N) \in Seq(Field)
        /\ Range(Kinds("hlc", N)) = {[kind |-> "hlc", name |-> n] : n \in Range(N)}
    BY <2>1, <2>2, RangeKinds
  <2> QED BY <2>1, <2>3 DEF N
<1>7. /\ Other(f)
      /\ o # Status => \A n \in {"serialization", "serialization_state"} :
                          [kind |-> "string", name |-> n] \in Range(f)
  <2>1. S3 \in Seq(Names)
    BY DEF Names
  <2>2. S3[1] = "serialization" /\ S3[2] = "serialization_state" /\ 1 \in DOMAIN S3 /\ 2 \in DOMAIN S3
    OBVIOUS
  <2>3. "serialization" \in Range(S3) /\ "serialization_state" \in Range(S3)
    BY <2>2 DEF Range
  <2>4. CASE o = Status
    <3> HIDE DEF x, y
    <3>1. x \o y \in Seq(Field) /\ Range(x \o y) = Range(x) \cup Range(y)
      BY <1>5, RangeJoined DEF Other
    <3> QED BY <1>5, <2>4, <3>1 DEF Other
  <2>5. CASE o # Status
    <3> HIDE DEF S3
    <3>1. Other(Kinds("string", S3))
      BY <1>1, <2>1
    <3>2. \A n \in Range(S3) : [kind |-> "string", name |-> n] \in Range(Kinds("string", S3))
      BY <1>2, <2>1
    <3> QED BY <2>3, <2>5, <3>1, <3>2
  <2> QED BY <2>4, <2>5
<1>8. Fields(o) = a \o b \o c \o d \o e \o f
  BY DEF Fields
<1> HIDE DEF a, b, c, d, e, f
<1>9. /\ Fields(o) \in Seq(Field)
      /\ Range(Fields(o)) = Range(a) \cup Range(b) \cup Range(c) \cup Range(d)
                             \cup Range(e) \cup Range(f)
  <2>1. /\ a \in Seq(Field) /\ b \in Seq(Field) /\ c \in Seq(Field) /\ d \in Seq(Field)
        /\ e \in Seq(Field) /\ f \in Seq(Field)
    BY <1>4, <1>5, <1>6, <1>7 DEF Other
  <2> DEFINE g2 == a \o b
             g3 == g2 \o c
             g4 == g3 \o d
             g5 == g4 \o e
             g6 == g5 \o f
  <2>2. g2 \in Seq(Field) /\ Range(g2) = Range(a) \cup Range(b)
    BY <2>1, RangeJoined
  <2> HIDE DEF g2
  <2>3. g3 \in Seq(Field) /\ Range(g3) = Range(g2) \cup Range(c)
    BY <2>2, <2>1, RangeJoined
  <2> HIDE DEF g3
  <2>4. g4 \in Seq(Field) /\ Range(g4) = Range(g3) \cup Range(d)
    BY <2>3, <2>1, RangeJoined
  <2> HIDE DEF g4
  <2>5. g5 \in Seq(Field) /\ Range(g5) = Range(g4) \cup Range(e)
    BY <2>4, <2>1, RangeJoined
  <2> HIDE DEF g5
  <2>6. g6 \in Seq(Field) /\ Range(g6) = Range(g5) \cup Range(f)
    BY <2>5, <2>1, RangeJoined
  <2> HIDE DEF g6
  <2>7. Fields(o) = g6
    BY <1>8 DEF g2, g3, g4, g5, g6
  <2> QED BY <2>2, <2>3, <2>4, <2>5, <2>6, <2>7
<1> QED BY <1>4, <1>5, <1>6, <1>7, <1>9 DEF Other

Objects == {Status, Outcome, Durable}

PathNames == Names \cup {"outcome", "durable", "physical_micros"}

Lookup == [kind : KindNames \cup {"object"}, object : Objects,
           path : Seq(PathNames)]

LEMMA ObjectPaths == \A o \in Objects : o \in Seq(PathNames)
<1>1. "outcome" \in PathNames /\ "durable" \in PathNames
  BY DEF PathNames
<1>2. \A x \in PathNames : << x >> \in Seq(PathNames)
  OBVIOUS
<1>3. << >> \in Seq(PathNames)
  OBVIOUS
<1> QED BY <1>1, <1>2, <1>3 DEF Objects, Status, Outcome, Durable

LEMMA LookupsAre ==
    ASSUME NEW o \in Objects
    PROVE  /\ Lookups(o) \in Seq(Lookup)
           /\ Range(Lookups(o)) = {[kind |-> f.kind, object |-> o, path |-> Append(o, f.name)] :
                                      f \in Range(Fields(o))}
<1> DEFINE n == Len(Fields(o))
           E(f) == [kind |-> f.kind, object |-> o, path |-> Append(o, f.name)]
<1>1. Fields(o) \in Seq(Field)
  BY FieldsAre
<1>2. Lookups(o) = [i \in 1 .. n |-> E(Fields(o)[i])] /\ n \in Nat
  BY <1>1 DEF Lookups
<1>3. o \in Seq(PathNames)
  BY ObjectPaths
<1>4. ASSUME NEW f \in Field PROVE E(f) \in Lookup
  <2>1. f.name \in PathNames /\ f.kind \in KindNames \cup {"object"}
    BY DEF Field, PathNames
  <2>2. Append(o, f.name) \in Seq(PathNames)
    BY <1>3, <2>1
  <2> QED BY <2>1, <2>2 DEF Lookup
<1> HIDE DEF E
<1>5. Lookups(o) \in [1 .. n -> Lookup]
  BY <1>1, <1>2, <1>4
<1>6. Lookups(o) \in Seq(Lookup)
  <2> HIDE DEF n
  <2> QED BY <1>2, <1>5
<1>7. Range(Lookups(o)) = {E(f) : f \in Range(Fields(o))}
  BY <1>1, <1>2 DEF Range
<1> QED BY <1>6, <1>7 DEF E

LEMMA ScriptRange ==
    /\ Script \in Seq(Lookup)
    /\ Range(Script) = Range(Lookups(Status)) \cup Range(Lookups(Outcome)) \cup Range(Lookups(Durable))
                       \cup {[kind |-> "object", object |-> Status, path |-> p] : p \in {Outcome, Durable}}
<1> DEFINE S == Lookups(Status)
           O == Lookups(Outcome)
           D == Lookups(Durable)
           A(p) == << [kind |-> "object", object |-> Status, path |-> p] >>
<1>1. S \in Seq(Lookup) /\ O \in Seq(Lookup) /\ D \in Seq(Lookup)
  BY LookupsAre DEF Objects
<1>2. ASSUME NEW p \in {Outcome, Durable}
      PROVE  A(p) \in Seq(Lookup) /\ Range(A(p)) = {[kind |-> "object", object |-> Status, path |-> p]}
  <2> DEFINE e == [kind |-> "object", object |-> Status, path |-> p]
  <2>1. p \in Seq(PathNames)
    BY ObjectPaths DEF Objects
  <2>2. e \in Lookup
    BY <2>1 DEF Lookup, Objects
  <2> HIDE DEF e
  <2>3. << e >> \in Seq(Lookup) /\ Range(<< e >>) = {e}
    BY <2>2 DEF Range
  <2> QED BY <2>3 DEF e
<1>3. Script = S \o (A(Outcome) \o O) \o (A(Durable) \o D)
  BY DEF Script, Nested
<1>4. A(Outcome) \in Seq(Lookup) /\ A(Durable) \in Seq(Lookup)
  BY <1>2
<1>5. Range(A(Outcome)) \cup Range(A(Durable))
      = {[kind |-> "object", object |-> Status, path |-> p] : p \in {Outcome, Durable}}
  BY <1>2
<1> DEFINE a == A(Outcome)
           b == A(Durable)
           x == a \o O
           y == b \o D
           z == S \o x
           s == z \o y
<1> HIDE DEF S, O, D, A, a, b
<1>6. x \in Seq(Lookup) /\ Range(x) = Range(a) \cup Range(O)
  BY <1>1, <1>4, RangeJoined DEF a
<1>7. y \in Seq(Lookup) /\ Range(y) = Range(b) \cup Range(D)
  BY <1>1, <1>4, RangeJoined DEF b
<1> HIDE DEF x, y
<1>8. z \in Seq(Lookup) /\ Range(z) = Range(S) \cup Range(x)
  BY <1>1, <1>6, RangeJoined
<1> HIDE DEF z
<1>9. s \in Seq(Lookup) /\ Range(s) = Range(z) \cup Range(y)
  BY <1>7, <1>8, RangeJoined
<1> HIDE DEF s
<1>10. Script = s
  BY <1>3 DEF s, z, x, y, a, b
<1> QED BY <1>5, <1>6, <1>7, <1>8, <1>9, <1>10 DEF S, O, D, a, b

(* What the decoder looks up: the timestamp of each object, the `durable`  *)
(* object, and the strings the accessors ask for.                          *)
LEMMA ScriptIs ==
    /\ Script \in Seq(Lookup)
    /\ \A j \in DOMAIN Script : Script[j].kind = "hlc" => Script[j].path = Hlc(Script[j].object)
    /\ \A o \in Objects : \E j \in DOMAIN Script : Script[j].kind = "hlc" /\ Script[j].object = o
    /\ \E j \in DOMAIN Script : Script[j].kind = "object" /\ Script[j].path = Durable
    /\ << "state" >> \in Strings
    /\ \A o \in {Outcome, Durable} : \A n \in {"serialization", "serialization_state"} :
          Append(o, n) \in Strings
<1> DEFINE E(o, f) == [kind |-> f.kind, object |-> o, path |-> Append(o, f.name)]
<1>1. ASSUME NEW o \in Objects, NEW f \in Range(Fields(o)) PROVE E(o, f) \in Range(Script)
  <2>1. E(o, f) \in Range(Lookups(o))
    BY LookupsAre
  <2> QED BY <2>1, ScriptRange DEF Objects
<1>2. ASSUME NEW l \in Range(Script), l.kind = "hlc" PROVE l.path = Hlc(l.object)
  <2>1. PICK o \in Objects : l \in Range(Lookups(o))
    BY <1>2, ScriptRange DEF Objects
  <2>2. PICK f \in Range(Fields(o)) : l = E(o, f)
    BY <2>1, LookupsAre
  <2>3. f.name = "last_commit_hlc"
    BY <1>2, <2>2, FieldsAre
  <2> QED BY <2>2, <2>3 DEF Hlc
<1>3. ASSUME NEW o \in Objects PROVE \E l \in Range(Script) : l.kind = "hlc" /\ l.object = o
  <2> DEFINE f == [kind |-> "hlc", name |-> "last_commit_hlc"]
  <2>1. f \in Range(Fields(o))
    BY FieldsAre
  <2>2. E(o, f) \in Range(Script)
    BY <1>1, <2>1
  <2> QED BY <2>2
<1>4. \E l \in Range(Script) : l.kind = "object" /\ l.path = Durable
  <2> DEFINE e(p) == [kind |-> "object", object |-> Status, path |-> p]
  <2>1. e(Durable) \in {e(p) : p \in {Outcome, Durable}}
    OBVIOUS
  <2>2. e(Durable) \in Range(Script)
    BY <2>1, ScriptRange
  <2>3. e(Durable).kind = "object" /\ e(Durable).path = Durable
    OBVIOUS
  <2> QED BY <2>2, <2>3
<1>5. ASSUME NEW o \in Objects, NEW n, [kind |-> "string", name |-> n] \in Range(Fields(o))
      PROVE  Append(o, n) \in Strings
  <2> DEFINE f == [kind |-> "string", name |-> n]
  <2>1. E(o, f) \in Range(Script)
    BY <1>1, <1>5
  <2>2. PICK j \in DOMAIN Script : Script[j] = E(o, f)
    BY <2>1 DEF Range
  <2>3. Script[j].kind = "string" /\ Script[j].path = Append(o, n)
    BY <2>2
  <2> QED BY <2>3 DEF Strings
<1>6. << "state" >> \in Strings
  <2>1. Append(Status, "state") \in Strings
    BY <1>5, FieldsAre DEF Objects
  <2>2. Append(Status, "state") = << "state" >>
    BY DEF Status
  <2> QED BY <2>1, <2>2
<1>7. \A o \in {Outcome, Durable} : \A n \in {"serialization", "serialization_state"} :
          Append(o, n) \in Strings
  <2>1. Outcome # Status /\ Durable # Status
    BY DEF Outcome, Durable, Status
  <2> QED BY <1>5, <2>1, FieldsAre DEF Objects
<1>8. \A j \in DOMAIN Script : Script[j] \in Range(Script)
  BY DEF Range
<1>9. \A l \in Range(Script) : \E j \in DOMAIN Script : Script[j] = l
  BY DEF Range
<1> HIDE DEF E
<1>10. \A j \in DOMAIN Script : Script[j].kind = "hlc" => Script[j].path = Hlc(Script[j].object)
  BY <1>2, <1>8
<1>11. \A o \in Objects : \E j \in DOMAIN Script : Script[j].kind = "hlc" /\ Script[j].object = o
  BY <1>3, <1>9
<1>12. \E j \in DOMAIN Script : Script[j].kind = "object" /\ Script[j].path = Durable
  BY <1>4, <1>9
<1> QED BY <1>6, <1>7, <1>10, <1>11, <1>12, ScriptRange

-----------------------------------------------------------------------------
LEMMA ScriptDomain ==
    DOMAIN Script = 1 .. Len(Script) /\ Len(Script) \in Nat
BY ScriptIs

LEMMA InitInv == Init => IInv
<1> SUFFICES ASSUME Init PROVE IInv
  OBVIOUS
<1>1. \A p : ~Here(p)
  BY DEF Init, Here
<1>2. ShapeOK
  BY ScriptDomain DEF Init, ShapeOK, Idle, NoBlob, NoOffsets
<1>3. CopiedOK /\ HlcsReal
  BY DEF Init, CopiedOK, HlcsReal, NoOffsets
<1>4. DoneOK
  BY <1>1 DEF DoneOK, HlcPresent
<1>5. StringsFaithful
  BY <1>1 DEF Init, StringsFaithful, NoStrings
<1> QED BY <1>2, <1>3, <1>4, <1>5 DEF IInv

LEMMA GetInv == \A r \in Replies : IInv /\ Get(r) => IInv'
<1> SUFFICES ASSUME NEW r \in Replies, IInv, Get(r) PROVE IInv'
  OBVIOUS
<1>1. ShapeOK'
  BY ScriptDomain DEF Get, ShapeOK, NoBlob, NoOffsets
<1>2. CopiedOK' /\ HlcsReal'
  BY DEF Get, CopiedOK, HlcsReal, NoOffsets
<1>3. DoneOK' /\ StringsFaithful'
  BY ScriptDomain DEF Get, DoneOK, Done, StringsFaithful, Idle
<1> QED BY <1>1, <1>2, <1>3 DEF IInv

(* A lookup moves on: what was done before is still done.                  *)
LEMMA Moves ==
    ASSUME IInv, NEW kind, At(kind), Continue
    PROVE  /\ pc \in DOMAIN Script /\ Script[pc].kind = kind
           /\ pc' \in 0 .. Len(Script) + 1 /\ pc' # Idle
           /\ \A j \in DOMAIN Script : Done(j)' <=> Done(j) \/ j = pc
           /\ \A p : (Here(p)' <=> Here(p)) /\ (HlcPresent(p)' <=> HlcPresent(p))
           /\ short' = short /\ reply' = reply
<1>1. pc \in DOMAIN Script /\ Script[pc].kind = kind
  BY DEF At
<1>2. pc' = pc + 1 /\ short' = short /\ reply' = reply
  BY DEF Continue
<1>3. pc \in 1 .. Len(Script) /\ Len(Script) \in Nat
  BY <1>1, ScriptDomain
<1>4. pc' \in 0 .. Len(Script) + 1 /\ pc' # Idle /\ pc # Idle
  BY <1>2, <1>3 DEF Idle
<1>5. \A j \in DOMAIN Script : Done(j)' <=> Done(j) \/ j = pc
  BY <1>2, <1>3, <1>4, ScriptDomain DEF Done
<1>6. \A p : (Here(p)' <=> Here(p)) /\ (HlcPresent(p)' <=> HlcPresent(p))
  BY <1>2 DEF Here, HlcPresent, Got
<1> QED BY <1>1, <1>2, <1>4, <1>5, <1>6

LEMMA CopyStringInv == IInv /\ CopyString => IInv'
<1> SUFFICES ASSUME IInv, CopyString PROVE IInv'
  OBVIOUS
<1>1. At("string") /\ Continue /\ flags' = flags /\ hlcs' = hlcs
  BY DEF CopyString
<1>2. /\ pc \in DOMAIN Script /\ Script[pc].kind = "string"
      /\ pc' \in 0 .. Len(Script) + 1 /\ pc' # Idle
      /\ \A j \in DOMAIN Script : Done(j)' <=> Done(j) \/ j = pc
      /\ \A p : (Here(p)' <=> Here(p)) /\ (HlcPresent(p)' <=> HlcPresent(p))
      /\ short' = short /\ reply' = reply
  BY <1>1, Moves
<1>3. Path \in Strings
  BY <1>2 DEF Path, Strings
<1>4. /\ blob.gen \in Nat /\ blob.at \in Seq(Strings \cup {<< "left_behind" >>})
      /\ offs \in [Strings -> Nat] /\ reply \in Replies \cup {<< >>}
  BY DEF IInv, ShapeOK
<1>5. HlcsReal' /\ StringsFaithful'
  BY <1>1, <1>2 DEF IInv, HlcsReal, StringsFaithful
<1>6. CASE (~Here(Path) \/ short) /\ UNCHANGED << blob, offs >>
  <2>1. ShapeOK' /\ CopiedOK'
    BY <1>2, <1>6 DEF IInv, ShapeOK, CopiedOK
  <2>2. DoneOK'
    BY <1>1, <1>2, <1>6 DEF IInv, DoneOK, Path
  <2> QED BY <1>5, <2>1, <2>2 DEF IInv
<1>7. ASSUME NEW g \in Nat, Here(Path), blob' = [gen |-> g, at |-> Append(blob.at, Path)],
             offs' = [offs EXCEPT ![Path] = Start]
      PROVE  IInv'
  <2> DEFINE n == Len(blob.at)
  <2>1. /\ n \in Nat /\ DOMAIN blob.at = 1 .. n /\ DOMAIN blob'.at = 1 .. n + 1
        /\ \A i \in 1 .. n : blob'.at[i] = blob.at[i]
        /\ blob'.at[n + 1] = Path
        /\ blob'.at \in Seq(Strings \cup {<< "left_behind" >>})
    BY <1>3, <1>4, <1>7
  <2>2. /\ offs' \in [Strings -> Nat] /\ offs'[Path] = n + 1
        /\ \A s \in Strings : s # Path => offs'[s] = offs[s]
    BY <1>3, <1>4, <1>7, <2>1 DEF Start
  <2>3. ShapeOK'
    BY <1>2, <1>4, <1>7, <2>1, <2>2 DEF ShapeOK
  <2>4. CopiedOK'
    <3> SUFFICES ASSUME NEW s \in Strings, offs'[s] # 0
                 PROVE  offs'[s] \in DOMAIN blob'.at /\ blob'.at[offs'[s]] = s /\ Here(s)'
      BY DEF CopiedOK
    <3>1. CASE s = Path
      BY <1>2, <1>7, <2>1, <2>2, <3>1
    <3>2. CASE s # Path
      BY <1>2, <2>1, <2>2, <3>2 DEF IInv, CopiedOK
    <3> QED BY <3>1, <3>2
  <2>5. DoneOK'
    <3>1. \A s \in Strings : offs'[s] = 0 => offs[s] = 0 /\ s # Path
      BY <1>4, <2>1, <2>2
    <3>2. \A j \in DOMAIN Script : Script[j].kind = "string" => Script[j].path \in Strings
      BY DEF Strings
    <3> QED BY <1>1, <1>2, <3>1, <3>2 DEF IInv, DoneOK, Path
  <2> QED BY <1>5, <2>3, <2>4, <2>5 DEF IInv
<1>8. ASSUME NEW g \in Nat, short, blob' = [gen |-> g, at |-> Append(blob.at, << "left_behind" >>)],
             offs' = offs
      PROVE  IInv'
  <2> DEFINE n == Len(blob.at)
  <2>1. /\ n \in Nat /\ DOMAIN blob.at = 1 .. n /\ DOMAIN blob'.at = 1 .. n + 1
        /\ \A i \in 1 .. n : blob'.at[i] = blob.at[i]
        /\ blob'.at \in Seq(Strings \cup {<< "left_behind" >>})
    BY <1>4, <1>8
  <2>2. ShapeOK'
    BY <1>2, <1>4, <1>8, <2>1 DEF ShapeOK
  <2>3. CopiedOK'
    BY <1>2, <1>8, <2>1 DEF IInv, CopiedOK
  <2>4. DoneOK'
    BY <1>1, <1>2, <1>8 DEF IInv, DoneOK
  <2> QED BY <1>5, <2>2, <2>3, <2>4 DEF IInv
<1>9. \A g \in {blob.gen + 1} \cup (IF blob.gen = 0 THEN {} ELSE {blob.gen}) : g \in Nat
  BY <1>4
<1> QED BY <1>6, <1>7, <1>8, <1>9 DEF CopyString

(* The other lookups leave the strings alone.                              *)
LEMMA OtherLookupInv ==
    ASSUME IInv, ReadFlag \/ ReadHlc \/ ReadObject PROVE IInv'
<1>1. PICK kind \in {"flag", "hlc", "object"} : At(kind)
  BY DEF ReadFlag, ReadHlc, ReadObject
<1>2. Continue /\ UNCHANGED << blob, offs >>
  BY DEF ReadFlag, ReadHlc, ReadObject
<1>3. /\ pc \in DOMAIN Script /\ Script[pc].kind = kind
      /\ pc' \in 0 .. Len(Script) + 1 /\ pc' # Idle
      /\ \A j \in DOMAIN Script : Done(j)' <=> Done(j) \/ j = pc
      /\ \A p : (Here(p)' <=> Here(p)) /\ (HlcPresent(p)' <=> HlcPresent(p))
      /\ short' = short /\ reply' = reply
  BY <1>1, <1>2, Moves
<1>4. ShapeOK' /\ CopiedOK' /\ StringsFaithful'
  BY <1>2, <1>3 DEF IInv, ShapeOK, CopiedOK, StringsFaithful
<1>5. flags \subseteq flags' /\ hlcs \subseteq hlcs'
  BY DEF ReadFlag, ReadHlc, ReadObject
<1>6. kind = "hlc" /\ HlcPresent(Path) => Script[pc].object \in hlcs'
  BY <1>3 DEF ReadFlag, ReadHlc, ReadObject, At
<1>7. kind = "object" /\ Path = Durable /\ Here(Durable) => Durable \in flags'
  BY <1>3 DEF ReadFlag, ReadHlc, ReadObject, At, Got, Here
<1>8. DoneOK'
  BY <1>1, <1>2, <1>3, <1>5, <1>6, <1>7 DEF IInv, DoneOK, Path
<1>9. HlcsReal'
  <2>1. hlcs' = hlcs \/ (/\ kind = "hlc" /\ HlcPresent(Path)
                          /\ hlcs' = hlcs \cup {Script[pc].object})
    BY <1>3 DEF ReadFlag, ReadHlc, ReadObject, At
  <2>2. kind = "hlc" => Path = Hlc(Script[pc].object)
    BY <1>3, ScriptIs DEF Path
  <2> QED BY <1>3, <2>1, <2>2 DEF IInv, HlcsReal
<1> QED BY <1>4, <1>8, <1>9 DEF IInv

LEMMA ResolveInv == IInv /\ Resolve => IInv'
<1> SUFFICES ASSUME IInv, Resolve PROVE IInv'
  OBVIOUS
<1>1. /\ pc = Len(Script) + 1 /\ pc' = Idle /\ blob' = blob /\ offs' = offs /\ reply' = reply
      /\ flags' = flags /\ hlcs' = hlcs /\ short' = short
  BY DEF Resolve
<1>2. \A j \in DOMAIN Script : Done(j)
  BY <1>1, ScriptDomain DEF Done
<1>3. \A p : (Here(p)' <=> Here(p)) /\ (HlcPresent(p)' <=> HlcPresent(p))
  BY <1>1 DEF Here, HlcPresent, Got
<1>4. ShapeOK'
  BY <1>1, ScriptDomain DEF IInv, ShapeOK, Idle
<1>5. CopiedOK' /\ HlcsReal'
  BY <1>1, <1>3 DEF IInv, CopiedOK, HlcsReal
<1>6. DoneOK'
  BY <1>1, <1>2, <1>3 DEF IInv, DoneOK
<1>7. StringsFaithful'
  <2> SUFFICES ASSUME NEW s \in Strings, NEW from,
                      from = IF s = Server /\ offs[s] = 0 THEN << "state" >> ELSE s
               PROVE  /\ strings'[s] # NULL => /\ strings'[s].gen = blob.gen
                                               /\ strings'[s].off \in DOMAIN blob.at
                                               /\ blob.at[strings'[s].off] = from /\ Here(from)
                      /\ strings'[s] = NULL => ~Here(from) \/ short
    BY <1>1, <1>3 DEF StringsFaithful
  <2>1. from \in Strings
    BY ScriptIs
  <2>2. strings'[s] = Resolved(from)
    BY DEF Resolve
  <2>3. PICK j \in DOMAIN Script : Script[j].kind = "string" /\ Script[j].path = from
    BY <2>1 DEF Strings
  <2>4. CASE offs[from] = 0
    <3>1. strings'[s] = NULL
      BY <2>2, <2>4 DEF Resolved
    <3>2. ~Here(from) \/ short
      BY <1>2, <2>3, <2>4 DEF IInv, DoneOK
    <3> QED BY <3>1, <3>2
  <2>5. CASE offs[from] # 0
    <3>1. strings'[s] = [gen |-> blob.gen, off |-> offs[from]]
      BY <2>2, <2>5 DEF Resolved
    <3>2. blob.gen \in Nat /\ offs[from] \in Nat
      BY <2>1 DEF IInv, ShapeOK
    <3>3. strings'[s] # NULL
      BY <3>1, <3>2, NullAssumption
    <3>4. offs[from] \in DOMAIN blob.at /\ blob.at[offs[from]] = from /\ Here(from)
      BY <2>1, <2>5 DEF IInv, CopiedOK
    <3> QED BY <3>1, <3>3, <3>4
  <2> QED BY <2>4, <2>5
<1> QED BY <1>4, <1>5, <1>6, <1>7 DEF IInv

LEMMA NextInv == IInv /\ [Next]_vars => IInv'
<1> SUFFICES ASSUME IInv, [Next]_vars PROVE IInv'
  OBVIOUS
<1>1. CASE Next
  BY <1>1, GetInv, CopyStringInv, OtherLookupInv, ResolveInv DEF Next
<1>2. CASE UNCHANGED vars
  <2>1. ShapeOK' /\ CopiedOK'
    BY <1>2 DEF vars, IInv, ShapeOK, CopiedOK, Here
  <2>2. DoneOK' /\ HlcsReal'
    BY <1>2 DEF vars, IInv, DoneOK, Done, HlcsReal, Here, HlcPresent, Got
  <2>3. StringsFaithful'
    BY <1>2 DEF vars, IInv, StringsFaithful, Here
  <2> QED BY <2>1, <2>2, <2>3 DEF IInv
<1> QED BY <1>1, <1>2

LEMMA Invariance == Spec => []IInv
BY InitInv, NextInv, PTL DEF Spec

(* A string of a decoded status is the reply's string of that name, and    *)
(* leads into the buffer where that is now, or it is NULL for a reason.    *)
THEOREM StringsAreFaithful == Spec => []StringsFaithful
<1>1. IInv => StringsFaithful
  BY DEF IInv
<1> QED BY <1>1, Invariance, PTL

-----------------------------------------------------------------------------
(* Paths lead from an object to its fields.                                *)
LEMMA FrontOfField ==
    ASSUME NEW o \in Seq(PathNames), NEW n \in PathNames
    PROVE  /\ Front(Append(o, n)) = o
           /\ Append(o, n) \in Seq(PathNames) /\ Len(Append(o, n)) = Len(o) + 1
<1>1. Append(o, n) \in Seq(PathNames) /\ Len(Append(o, n)) = Len(o) + 1
  OBVIOUS
<1>2. SubSeq(Append(o, n), 1, Len(o)) = o
  OBVIOUS
<1> QED BY <1>1, <1>2 DEF Front

LEMMA Paths ==
    ASSUME NEW o \in Objects
    PROVE  /\ Front(Hlc(o)) = o /\ Front(Physical(o)) = Hlc(o) /\ Len(Physical(o)) > 1
           /\ o # Status => Len(Hlc(o)) > 1
<1>1. o \in Seq(PathNames)
  BY ObjectPaths
<1>2. "last_commit_hlc" \in PathNames
  BY DEF PathNames, Names
<1>3. Hlc(o) \in Seq(PathNames) /\ Front(Hlc(o)) = o /\ Len(Hlc(o)) = Len(o) + 1
  BY <1>1, <1>2, FrontOfField DEF Hlc
<1>4. Front(Physical(o)) = Hlc(o) /\ Len(Physical(o)) = Len(Hlc(o)) + 1
  <2>1. "physical_micros" \in PathNames
    BY DEF PathNames
  <2> QED BY <1>3, <2>1, FrontOfField DEF Physical
<1>5. Len(o) \in Nat /\ (o # Status => Len(o) > 0)
  BY <1>1 DEF Objects, Status, Outcome, Durable
<1> QED BY <1>3, <1>4, <1>5

(* Looked up in a reply: what an object holds implies the object.          *)
LEMMA Closed ==
    ASSUME IInv, NEW p, Here(p), Len(p) > 1
    PROVE  Here(Front(p))
<1>1. reply \in Replies
  BY DEF IInv, ShapeOK, Here
<1> QED BY <1>1, RepliesAssumption DEF Here

(* A timestamp that is reported has members, and it is not always its time *)
(* that is among them.                                                     *)
HasMembers(o) ==
    \E p \in DOMAIN reply : Len(p) = Len(Physical(o)) /\ Front(p) = Hlc(o)

LEMMA HlcsAre ==
    ASSUME IInv, pc = Idle, NEW o \in Objects
    PROVE  /\ o \in hlcs <=> HasMembers(o)
           /\ Here(Physical(o)) => HasMembers(o)
<1>1. Got(Physical(o)) <=> HasMembers(o)
  BY Paths DEF Got, HasMembers
<1>2. ASSUME o \in hlcs PROVE HasMembers(o)
  <2>1. Got(Physical(o))
    BY <1>2 DEF IInv, HlcsReal, HlcPresent, Physical
  <2> QED BY <1>1, <2>1
<1>3. ASSUME HasMembers(o) PROVE o \in hlcs
  <2>1. PICK p \in DOMAIN reply : Len(p) = Len(Physical(o)) /\ Front(p) = Hlc(o)
    BY <1>3 DEF HasMembers
  <2>2. Here(p) /\ Len(p) > 1
    BY <2>1, Paths DEF Here
  <2>3. Here(Hlc(o))
    BY <2>1, <2>2, Closed
  <2>4. HlcPresent(Hlc(o))
    BY <1>1, <1>3, <2>3 DEF HlcPresent, Physical
  <2>5. PICK j \in DOMAIN Script : Script[j].kind = "hlc" /\ Script[j].object = o
    BY ScriptIs
  <2>6. Script[j].path = Hlc(o)
    BY <2>5, ScriptIs
  <2> QED BY <2>4, <2>5, <2>6 DEF IInv, DoneOK, Done
<1>4. Here(Physical(o)) => HasMembers(o)
  BY Paths DEF Here, HasMembers
<1> QED BY <1>2, <1>3, <1>4

LEMMA DurableFlagged ==
    ASSUME IInv, pc = Idle, Here(Durable)
    PROVE  Durable \in flags
<1>1. PICK j \in DOMAIN Script : Script[j].kind = "object" /\ Script[j].path = Durable
  BY ScriptIs
<1> QED BY <1>1 DEF IInv, DoneOK, Done

(* For every reply, timestamps without a time included: the accessor gives *)
(* the timestamp that the header promises if and only if none without      *)
(* physical_micros shadows it, and otherwise one of those.                 *)
THEOREM CommitTimestampIsReal == Spec => []CommitHlcIsReal
<1>1. IInv => CommitHlcIsReal
  <2> DEFINE time(o) == Here(Physical(o))
             has(o) == HasMembers(o)
  <2> SUFFICES ASSUME IInv, pc = Idle PROVE CommitHlcIsReal
    BY DEF CommitHlcIsReal
  <2>1. /\ Durable \in hlcs <=> has(Durable)
        /\ Outcome \in hlcs <=> has(Outcome)
        /\ Status \in hlcs <=> has(Status)
    BY HlcsAre DEF Objects
  <2>2. /\ time(Durable) => has(Durable)
        /\ time(Outcome) => has(Outcome)
        /\ time(Status) => has(Status)
    BY HlcsAre DEF Objects
  <2>3. Durable \in hlcs => Durable \in flags
    <3> SUFFICES ASSUME Durable \in hlcs PROVE Durable \in flags
      OBVIOUS
    <3>1. Durable \in Objects /\ Durable # Status
      BY DEF Objects, Durable, Status
    <3>2. Here(Hlc(Durable))
      BY DEF IInv, HlcsReal, HlcPresent
    <3>3. Here(Front(Hlc(Durable)))
      BY <3>1, <3>2, Closed, Paths
    <3> QED BY <3>1, <3>3, Paths, DurableFlagged
  <2>4. /\ Durable # Outcome /\ Durable # Status /\ Outcome # Status
        /\ NULL \notin {Durable, Outcome, Status}
    <3>1. Len(Status) = 0 /\ Len(Outcome) = 1 /\ Len(Durable) = 1 /\ Outcome[1] # Durable[1]
      BY DEF Status, Outcome, Durable
    <3> QED BY <3>1, NullAssumption
  <2>5. /\ Shadows(Durable) <=> ~time(Durable) /\ has(Durable)
        /\ Shadows(Outcome) <=> ~time(Outcome) /\ has(Outcome) /\ ~time(Durable)
        /\ Shadows(Status) <=> ~time(Status) /\ has(Status) /\ ~time(Durable) /\ ~time(Outcome)
    BY <2>4 DEF Shadows, MoreDurable, HasMembers
  <2>6. CommitHlc = IF has(Durable) THEN Durable
                    ELSE IF has(Outcome) THEN Outcome
                    ELSE IF has(Status) THEN Status ELSE NULL
    BY <2>1, <2>3 DEF CommitHlc
  <2>7. Promised = IF time(Durable) THEN Durable
                   ELSE IF time(Outcome) THEN Outcome
                   ELSE IF time(Status) THEN Status ELSE NULL
    BY DEF Promised
  <2>8. /\ CommitHlc = Promised <=> ~Shadows(Durable) /\ ~Shadows(Outcome) /\ ~Shadows(Status)
        /\ CommitHlc # Promised => CommitHlc # NULL /\ Shadows(CommitHlc)
    <3> HIDE DEF time, has
    <3>1. CASE has(Durable)
      BY <2>2, <2>4, <2>5, <2>6, <2>7, <3>1
    <3>2. CASE ~has(Durable) /\ has(Outcome)
      BY <2>2, <2>4, <2>5, <2>6, <2>7, <3>2
    <3>3. CASE ~has(Durable) /\ ~has(Outcome)
      BY <2>2, <2>4, <2>5, <2>6, <2>7, <3>3
    <3> QED BY <3>1, <3>2, <3>3
  <2> QED BY <2>8 DEF CommitHlcIsReal
<1> QED BY <1>1, Invariance, PTL

(* Without a failed copy, a string an accessor asks for is told if and     *)
(* only if the reply has it and it says something.                         *)
LEMMA ToldAre ==
    ASSUME IInv, pc = Idle, ~short, NEW o \in {Outcome, Durable},
           NEW n \in {"serialization", "serialization_state"}
    PROVE  /\ Told(Append(o, n)) <=> Here(Append(o, n)) /\ reply[Append(o, n)] # "empty"
           /\ Front(Append(o, n)) = o
<1> DEFINE s == Append(o, n)
<1>1. o \in Seq(PathNames) /\ Len(o) = 1 /\ n \in PathNames
  BY ObjectPaths DEF Objects, Outcome, Durable, PathNames, Names
<1>2. Front(s) = o /\ Len(s) = 2
  <2>1. Front(Append(o, n)) = o /\ Len(Append(o, n)) = Len(o) + 1
    BY <1>1, FrontOfField
  <2> QED BY <1>1, <2>1
<1>3. s \in Strings /\ s # Server
  <2>1. Len(Server) = 1
    BY DEF Server
  <2> QED BY <1>2, <2>1, ScriptIs
<1>4. strings[s] # NULL <=> Here(s)
  BY <1>3 DEF IInv, StringsFaithful
<1>5. Here(s) /\ Front(s) = Durable => Durable \in flags
  <2> SUFFICES ASSUME Here(s), o = Durable PROVE Durable \in flags
    BY <1>2
  <2>1. Len(s) > 1
    BY <1>2
  <2>2. Here(Front(s))
    BY <2>1, Closed
  <2> QED BY <1>2, <2>2, DurableFlagged
<1> HIDE DEF s
<1>6. Told(s) <=> Here(s) /\ reply[s] # "empty"
  BY <1>4, <1>5 DEF Told
<1> QED BY <1>2, <1>6 DEF s

(* The serialization state is what the durable object says, if it says     *)
(* anything, before what the outcome says, unless memory ran out.          *)
THEOREM DurableIsFirst == Spec => []DurableSpeaksFirst
<1>1. IInv => DurableSpeaksFirst
  <2> DEFINE says(object) == \E n \in {"serialization_state", "serialization"} :
                               Here(Append(object, n)) /\ reply[Append(object, n)] # "empty"
             told == {i \in DOMAIN Candidates : Told(Candidates[i])}
             k == CHOOSE i \in told : \A j \in told : i <= j
             C(i) == Candidates[i]
  <2> SUFFICES ASSUME IInv, pc = Idle, ~short
               PROVE  /\ SerializationState = NULL => ~says(Durable) /\ ~says(Outcome)
                      /\ SerializationState # NULL =>
                            Front(SerializationState) = IF says(Durable) THEN Durable ELSE Outcome
    BY DEF DurableSpeaksFirst
  <2>1. /\ DOMAIN Candidates = 1 .. 4
        /\ C(1) = Append(Durable, "serialization_state") /\ C(2) = Append(Durable, "serialization")
        /\ C(3) = Append(Outcome, "serialization_state") /\ C(4) = Append(Outcome, "serialization")
    BY DEF Candidates
  <2>2. /\ Front(C(1)) = Durable /\ Front(C(2)) = Durable
        /\ Front(C(3)) = Outcome /\ Front(C(4)) = Outcome
    BY <2>1, ToldAre
  <2>3. /\ says(Durable) <=> Told(C(1)) \/ Told(C(2))
        /\ says(Outcome) <=> Told(C(3)) \/ Told(C(4))
    BY <2>1, ToldAre
  <2>4. \A i \in 1 .. 4 : C(i) # NULL
    <3>1. C(1) \in Strings /\ C(2) \in Strings /\ C(3) \in Strings /\ C(4) \in Strings
      BY <2>1, ScriptIs
    <3> QED BY <3>1, NullAssumption
  <2>5. SerializationState = IF told = {} THEN NULL ELSE C(k)
    BY DEF SerializationState
  <2>6. \A i \in 1 .. 4 : i \in told <=> Told(C(i))
    BY <2>1
  <2>7. told \subseteq 1 .. 4
    BY <2>1
  <2>8. told # {} => k \in told /\ \A j \in told : k <= j
    <3> HIDE DEF told
    <3>1. ASSUME told # {} PROVE \E i \in told : \A j \in told : i <= j
      <4>1. CASE 1 \in told
        BY <2>7, <4>1
      <4>2. CASE 1 \notin told /\ 2 \in told
        BY <2>7, <4>2
      <4>3. CASE 1 \notin told /\ 2 \notin told /\ 3 \in told
        BY <2>7, <4>3
      <4>4. CASE 1 \notin told /\ 2 \notin told /\ 3 \notin told
        <5>1. PICK i \in told : TRUE
          BY <3>1
        <5>2. \A j \in told : j = 4
          BY <2>7, <4>4
        <5> QED BY <5>1, <5>2
      <4> QED BY <4>1, <4>2, <4>3, <4>4
    <3> QED BY <3>1
  <2> HIDE DEF told, k, says, C
  <2>9. CASE told = {}
    BY <2>3, <2>5, <2>6, <2>9
  <2>10. CASE told # {}
    <3>1. k \in 1 .. 4 /\ k \in told /\ \A j \in told : k <= j
      BY <2>7, <2>8, <2>10
    <3>2. SerializationState = C(k) /\ C(k) # NULL
      BY <2>4, <2>5, <2>10, <3>1
    <3>3. says(Durable) <=> k \in {1, 2}
      BY <2>3, <2>6, <3>1
    <3>4. Front(C(k)) = IF says(Durable) THEN Durable ELSE Outcome
      BY <2>2, <3>1, <3>3
    <3> QED BY <3>2, <3>4
  <2> QED BY <2>9, <2>10
<1> QED BY <1>1, Invariance, PTL
===============================================================================
