------------------------------ MODULE JsonWalk ------------------------------
(***************************************************************************)
(* The JSON walker of the client: jp_value and its helpers skip over one   *)
(* value without building a tree, and json_get_string, json_get_number,    *)
(* json_get_bool and json_get_object_raw look a field up in an object by   *)
(* walking its members.                                                    *)
(*                                                                         *)
(* A reply is a sequence of tokens and a cursor is an index into it: white *)
(* space is skipped before every token, a string is what jp_string skips   *)
(* (JsonText), and a number or a literal is one run of characters (the     *)
(* code looks at the first only: `1-+` is a number and `troo` a boolean).  *)
(* The reply may stop anywhere, and may be no JSON at all.  The malloc of  *)
(* json_get_string succeeds.                                               *)
(***************************************************************************)
EXTENDS Integers, Sequences

CONSTANTS
    Names,      \* The strings that occur, as keys and as values.
    Numbers,    \* The numbers that occur.
    Heard,      \* The tokens of the replies that are enumerated.
    MaxLen      \* Bound: tokens of a reply.

(* The tokens of RFC 8259 that are no values.                              *)
BeginArray == "["
EndArray == "]"
BeginObject == "{"
EndObject == "}"
NameSeparator == ":"
ValueSeparator == ","

Marks == {BeginArray, EndArray, BeginObject, EndObject, NameSeparator, ValueSeparator}
Bools == {"true", "false"}
Unknown == "?"      \* Any character that starts no value.
Nothing == "end"    \* What jp_peek finds behind the last token.
Tokens == Marks \cup Names \cup Numbers \cup Bools \cup {"null", Unknown}
Scalars == Names \cup Numbers \cup Bools \cup {"null"}

ASSUME WalkAssumption ==
    /\ MaxLen \in Nat /\ Heard \subseteq Tokens
    /\ Names \cap (Marks \cup Numbers \cup Bools \cup {"null", Unknown, Nothing}) = {}
    /\ Numbers \cap (Marks \cup Bools \cup {"null", Unknown, Nothing}) = {}

VARIABLE reply      \* The tokens received.

(* jp_peek: the token at the cursor.                                       *)
At(t, i) == IF i \in DOMAIN t THEN t[i] ELSE Nothing

Failed == 0

(* Mutant: any closing bracket ends an array or an object.                 *)
AfterAny(t, e, close) ==
    CASE e # Failed /\ At(t, e) = ValueSeparator           -> "more"
      [] e # Failed /\ At(t, e) \in {EndArray, EndObject} -> "done"
      [] OTHER                                             -> "fail"

(* What the loops of jp_array and jp_object do where a value ends, at e.   *)
After(t, e, close) ==
    CASE e # Failed /\ At(t, e) = ValueSeparator -> "more"
      [] e # Failed /\ At(t, e) = close          -> "done"
      [] OTHER                                   -> "fail"

(* jp_value, the loop of jp_array, and the loop of jp_object.              *)
Sorts == {"value", "elements", "members"}
Places(t) == Sorts \X (1 .. Len(t) + 1)

IsKey(t, i) == At(t, i) \in Names /\ At(t, i + 1) = NameSeparator

(* Where each of them leaves the cursor that it gets at i, given where the *)
(* calls that it makes leave theirs.                                       *)
Step(t, walk, sort, i) ==
    LET open(loop, close) == IF At(t, i + 1) = close THEN i + 2
                             ELSE walk[<< loop, i + 1 >>]
        onward(e, close)  == CASE After(t, e, close) = "more" -> walk[<< sort, e + 1 >>]
                               [] After(t, e, close) = "done" -> e + 1
                               [] After(t, e, close) = "fail" -> Failed
    IN  CASE sort = "value" /\ At(t, i) \in Scalars -> i + 1
          [] sort = "value" /\ At(t, i) = BeginArray -> open("elements", EndArray)
          [] sort = "value" /\ At(t, i) = BeginObject -> open("members", EndObject)
          [] sort = "elements" -> onward(walk[<< "value", i >>], EndArray)
          [] sort = "members" /\ IsKey(t, i) -> onward(walk[<< "value", i + 2 >>], EndObject)
          [] OTHER -> Failed

Walk(t) ==
    LET walk[place \in Places(t)] == Step(t, walk, place[1], place[2]) IN walk

ValueEnd(t, i) == IF i > Len(t) THEN Failed ELSE Walk(t)[<< "value", i >>]

-----------------------------------------------------------------------------
(* The four lookups differ in the token a matching value must start with,  *)
(* and json_get_object_raw walks the object it found.                      *)
Kinds == [string |-> Names, number |-> Numbers, bool |-> Bools, object |-> {BeginObject}]

Matches(t, i, kind) ==
    /\ At(t, i) \in Kinds[kind]
    /\ kind = "object" => ValueEnd(t, i) # Failed

NotFound == [ret |-> 0, at |-> 0]

(* The end of the member loop: `return ch == '}'`.                         *)
Exhausted(token) == [ret |-> IF token = EndObject THEN 1 ELSE 0, at |-> 0]

(* Mutant: a key is compared before it is known to be at the top level.    *)
GetDeep(t, key, kind) ==
    LET hits == {i \in DOMAIN t : t[i] = key /\ IsKey(t, i) /\ Matches(t, i + 2, kind)}
    IN  IF hits = {} THEN NotFound
        ELSE [ret |-> 1, at |-> 2 + CHOOSE i \in hits : \A j \in hits : i <= j]

(* One turn of the member loop of json_get_<kind>(key), at a member, given *)
(* what the turns at the members behind it come to.                        *)
Look(t, key, kind, members, i) ==
    LET e == ValueEnd(t, i + 2) IN
    CASE ~ IsKey(t, i) -> NotFound
      [] IsKey(t, i) /\ t[i] = key /\ At(t, i + 2) \in Kinds[kind] ->
           IF Matches(t, i + 2, kind) THEN [ret |-> 1, at |-> i + 2] ELSE NotFound
      [] OTHER ->
           IF e = Failed THEN NotFound
           ELSE IF At(t, e) = ValueSeparator THEN members[e + 1] ELSE Exhausted(At(t, e))

(* What it returns, and where the value it decodes is (0 when it leaves    *)
(* its output as it was cleared).                                          *)
Get(t, key, kind) ==
    LET members[i \in 1 .. Len(t) + 1] == Look(t, key, kind, members, i)
    IN  IF At(t, 1) # BeginObject \/ At(t, 2) = EndObject THEN NotFound ELSE members[2]

-----------------------------------------------------------------------------
WalkInit == reply = << >>

(* One token more of a reply.                                              *)
Receive(token) == /\ Len(reply) < MaxLen
                  /\ reply' = Append(reply, token)

WalkNext == \E token \in Heard : Receive(token)

WalkSpec == WalkInit /\ [][WalkNext]_reply

-----------------------------------------------------------------------------
(* The grammar of RFC 8259: when the tokens of t from i up to j, j not     *)
(* included, are a value, or what an array (or an object) has behind its   *)
(* opening bracket if it is not empty, given what the shorter spans are.   *)
Derives(t, known, sort, i, j) ==
    LET goesOn(e, close) == \/ At(t, e) = close /\ j = e + 1
                            \/ At(t, e) = ValueSeparator /\ << sort, e + 1, j >> \in known
        bracketed(open, inner, close) ==
            /\ At(t, i) = open
            /\ \/ At(t, i + 1) = close /\ j = i + 2
               \/ << inner, i + 1, j >> \in known
    IN  \/ /\ sort = "value"
           /\ \/ At(t, i) \in Scalars /\ j = i + 1
              \/ bracketed(BeginArray, "elements", EndArray)
              \/ bracketed(BeginObject, "members", EndObject)
        \/ /\ sort = "elements"
           /\ \E e \in i .. j - 1 : << "value", i, e >> \in known /\ goesOn(e, EndArray)
        \/ /\ sort = "members" /\ IsKey(t, i)
           /\ \E e \in i .. j - 1 : << "value", i + 2, e >> \in known /\ goesOn(e, EndObject)

(* All the spans, by their length.                                         *)
Longer(t, known, n) ==
    {span \in {<< sort, i, i + n >> : sort \in Sorts, i \in 1 .. Len(t) + 1 - n} :
        Derives(t, known, span[1], span[2], span[3])}

Spans(t) ==
    LET spans[n \in 0 .. Len(t)] ==
          IF n = 0 THEN {} ELSE LET known == spans[n - 1] IN known \cup Longer(t, known, n)
    IN  spans[Len(t)]

(* The walker accepts exactly the grammar's values: wherever it is started *)
(* it stops where a value ends, however deeply brackets nest, and if none  *)
(* starts there it fails.                                                  *)
WalkIsGrammar ==
    LET spans == Spans(reply) IN
    \A i \in DOMAIN reply :
        LET e == ValueEnd(reply, i) IN
        \A j \in 1 .. Len(reply) + 1 : e = j <=> << "value", i, j >> \in spans

(* A lookup in an object decodes the value of its first member of that     *)
(* name and kind, wherever it stands among others, and never one of a      *)
(* nested object that happens to have a field of the same name: a member   *)
(* is its own if what is left of a member list from there ends where the   *)
(* object does.                                                            *)
LookupIsFirst ==
    LET spans == Spans(reply)
        last  == Len(reply) + 1
        own   == {i \in DOMAIN reply : << "members", i, last >> \in spans}
    IN  At(reply, 1) = BeginObject /\ << "value", 1, last >> \in spans =>
            \A key \in Names \cap Heard, kind \in DOMAIN Kinds :
                LET hits  == {i \in own : reply[i] = key /\ reply[i + 2] \in Kinds[kind]}
                    found == Get(reply, key, kind).at
                IN  IF hits = {} THEN found = 0
                    ELSE \E first \in hits : found = first + 2 /\ \A i \in hits : first <= i

(* "Returns 1 if the field was present", say the comments of the lookups.  *)
FoundIsPresent ==
    \A key \in Names \cap Heard, kind \in DOMAIN Kinds :
        Get(reply, key, kind).ret = 1 => Get(reply, key, kind).at # 0
=============================================================================
