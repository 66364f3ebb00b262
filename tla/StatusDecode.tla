---------------------------- MODULE StatusDecode ----------------------------
(***************************************************************************)
(* query_status_decode_json: a query's status is read field by field, by   *)
(* the lookups of JsonWalk, out of a reply that may leave out any of them. *)
(* Strings go into a buffer that moves while it grows, so that offsets are *)
(* kept and resolved at the end; numbers and booleans have a *_set flag.   *)
(* The two accessors then choose between what the `durable` object, the    *)
(* `outcome` object and the status itself say.                             *)
(*                                                                         *)
(* A field is a path, and a reply gives the paths it has a value: "empty"  *)
(* for an empty string, "x" for any other.  The object a path leads        *)
(* through is there too.  A value of another kind than the lookup wants is *)
(* a member of another name: all that the lookup sees of it.               *)
(***************************************************************************)
EXTENDS Integers, Sequences, SequencesExt

CONSTANTS
    Replies,    \* The replies the daemon may give.
    NULL

Status == << >>
Outcome == << "outcome" >>
Durable == << "durable" >>
Hlc(object) == Append(object, "last_commit_hlc")
Physical(object) == Append(Hlc(object), "physical_micros")

ASSUME RepliesAssumption ==
    \A r \in Replies : \A p \in DOMAIN r : Len(p) > 1 => Front(p) \in DOMAIN r

Kinds(kind, names) == [i \in DOMAIN names |-> [kind |-> kind, name |-> names[i]]]

Epochs == << "committed_statements", "last_commit_epoch" >>
Indices == << "first_commit_statement_index", "last_commit_statement_index",
              "completed_statements", "statement_index" >>

(* The fields of one object, in the order of the code.                     *)
Fields(object) ==
    (IF object = Status
     THEN Kinds("string", << "query_id", "status", "state", "server_state", "terminal_state" >>)
     ELSE << >>)
    \o Kinds("flag", << "committed" >> \o Epochs)
    \o Kinds("string", << "last_commit_epoch_text" >>)
    \o Kinds("hlc", << "last_commit_hlc" >>)
    \o Kinds("flag", Indices)
    \o (IF object = Status
        THEN Kinds("string", << "cancel_outcome", "cancellation_reason" >>)
             \o Kinds("flag", << "retryable" >>)
        ELSE Kinds("string", << "serialization", "serialization_state", "terminal_state" >>))

Lookups(object) == [i \in DOMAIN Fields(object) |->
                       [kind |-> Fields(object)[i].kind, object |-> object,
                        path |-> Append(object, Fields(object)[i].name)]]

(* A nested object is looked up, then read: "object" is the first of them. *)
Nested(object) == << [kind |-> "object", object |-> Status, path |-> object] >>
                  \o Lookups(object)

Script == Lookups(Status) \o Nested(Outcome) \o Nested(Durable)

Strings == {Script[i].path : i \in {j \in DOMAIN Script : Script[j].kind = "string"}}

ASSUME NullAssumption ==
    NULL \notin [gen : Nat, off : Nat] \cup {Status, Outcome, Durable} \cup Strings

VARIABLES
    short,      \* Whether memory may run out (fixed).
    pc,         \* The index of the next lookup in Script, or Idle.
    reply,      \* The reply being decoded.
    blob,       \* c->values_blob: its generation and the strings in it.
    offs,       \* Where the strings that were copied start; 0 if not copied.
    flags,      \* The *_set flags that are set, and durable_set.
    hlcs,       \* The objects whose last_commit_hlc.present is set.
    strings     \* The pointers of the decoded status.

vars == << short, pc, reply, blob, offs, flags, hlcs, strings >>

Idle == 0
NoBlob == [gen |-> 0, at |-> << >>]
NoOffsets == [s \in Strings |-> 0]
NoStrings == [s \in Strings |-> NULL]

Init == /\ short \in BOOLEAN /\ pc = Idle /\ reply = << >> /\ blob = NoBlob /\ offs = NoOffsets
        /\ flags = {} /\ hlcs = {} /\ strings = NoStrings

-----------------------------------------------------------------------------
(* What json_get_number, json_get_bool and json_get_object_raw return: 1   *)
(* at the end of an object that has any member at all (JsonWalk, Get), 0   *)
(* for an object that is empty or that was not found.                      *)
Got(path) == \E p \in DOMAIN reply : Len(p) = Len(path) /\ Front(p) = Front(path)

Here(path) == path \in DOMAIN reply

(* The memset, and the buffer emptied for the strings of this status.      *)
Get(r) == /\ pc = Idle
          /\ reply' = r /\ pc' = 1 /\ blob' = NoBlob /\ offs' = NoOffsets
          /\ flags' = {} /\ hlcs' = {} /\ strings' = NoStrings
          /\ UNCHANGED short

At(kind) == pc \in DOMAIN Script /\ Script[pc].kind = kind

Path == Script[pc].path

Continue == pc' = pc + 1 /\ UNCHANGED << short, reply, strings >>

(* Mutant: the length of the blob is read after the append.                *)
StartAfter == Len(blob.at) + 2

(* Where the string that is appended next starts.                          *)
Start == Len(blob.at) + 1

(* json_copy_string_field_off: the string, if it is there and memory is    *)
(* enough for a copy of it and for its bytes and its NUL in the blob; when *)
(* only the NUL finds no room, the bytes stay behind.                      *)
CopyString ==
    /\ At("string")
    /\ \/ /\ ~Here(Path) \/ short
          /\ UNCHANGED << blob, offs >>
       \/ /\ Here(Path)
          /\ \E g \in {blob.gen + 1} \cup (IF blob.gen = 0 THEN {} ELSE {blob.gen}) :
               \/ /\ blob' = [gen |-> g, at |-> Append(blob.at, Path)]
                  /\ offs' = [offs EXCEPT ![Path] = Start]
               \/ /\ short
                  /\ blob' = [gen |-> g, at |-> Append(blob.at, << "left_behind" >>)]
                  /\ UNCHANGED offs
    /\ Continue /\ UNCHANGED << flags, hlcs >>

(* A number or a boolean.                                                  *)
ReadFlag == /\ At("flag")
            /\ flags' = flags \cup (IF Got(Path) THEN {Path} ELSE {})
            /\ Continue /\ UNCHANGED << blob, offs, hlcs >>

(* Mutant: an object that was looked up counts as there.                   *)
HlcIfGot(path) == Got(path)

(* parse_commit_hlc on what json_get_object_raw found, which is nothing    *)
(* when it returns 1 for an absent object.                                 *)
HlcPresent(path) == Here(path) /\ Got(Append(path, "physical_micros"))

ReadHlc == /\ At("hlc")
           /\ hlcs' = hlcs \cup (IF HlcPresent(Path) THEN {Script[pc].object} ELSE {})
           /\ Continue /\ UNCHANGED << blob, offs, flags >>

(* Before its fields, the object; only `durable` has a flag.               *)
ReadObject == /\ At("object")
              /\ flags' = flags \cup (IF Path = Durable /\ Got(Path) THEN {Path} ELSE {})
              /\ Continue /\ UNCHANGED << blob, offs, hlcs >>

Resolved(s) == IF offs[s] = 0 THEN NULL ELSE [gen |-> blob.gen, off |-> offs[s]]

Server == << "server_state" >>

(* The blob stands still: offsets become pointers, and the state stands in *)
(* for a server_state that is not there.                                   *)
Resolve == /\ pc = Len(Script) + 1
           /\ strings' = [s \in Strings |-> IF s = Server /\ offs[s] = 0
                                            THEN Resolved(<< "state" >>) ELSE Resolved(s)]
           /\ pc' = Idle
           /\ UNCHANGED << short, reply, blob, offs, flags, hlcs >>

Next == \/ \E r \in Replies : Get(r)
        \/ CopyString \/ ReadFlag \/ ReadHlc \/ ReadObject \/ Resolve

Spec == Init /\ [][Next]_vars

-----------------------------------------------------------------------------
(* mongreldb_query_status_commit_hlc: the object whose timestamp it gives. *)
CommitHlc == CASE Durable \in flags /\ Durable \in hlcs -> Durable
               [] Durable \notin flags \cap hlcs /\ Outcome \in hlcs -> Outcome
               [] Durable \notin flags \cap hlcs /\ Outcome \notin hlcs
                  /\ Status \in hlcs -> Status
               [] OTHER -> NULL

(* Mutant: the outcome is asked before the durable object.                 *)
OutcomeFirst == << Append(Outcome, "serialization_state"), Append(Outcome, "serialization"),
                   Append(Durable, "serialization_state"), Append(Durable, "serialization") >>

(* The strings that mongreldb_query_status_serialization_state tries.      *)
Candidates == << Append(Durable, "serialization_state"), Append(Durable, "serialization"),
                 Append(Outcome, "serialization_state"), Append(Outcome, "serialization") >>

Told(s) == /\ strings[s] # NULL /\ reply[s] # "empty"
           /\ Front(s) = Durable => Durable \in flags

(* The first that says something, or NULL for "".                          *)
SerializationState ==
    LET told == {i \in DOMAIN Candidates : Told(Candidates[i])}
    IN  IF told = {} THEN NULL
        ELSE Candidates[CHOOSE i \in told : \A j \in told : i <= j]

-----------------------------------------------------------------------------
(* Whatever the blob did while it was filled, and whichever copies found   *)
(* no memory, a string of the decoded status is the reply's string of that *)
(* name, or NULL; it is NULL only for want of memory if the reply has it;  *)
(* and server_state falls back to state.                                   *)
StringsFaithful ==
    pc = Idle => \A s \in Strings :
        LET from == IF s = Server /\ offs[s] = 0 THEN << "state" >> ELSE s IN
        /\ strings[s] # NULL => /\ strings[s].gen = blob.gen
                                /\ strings[s].off \in DOMAIN blob.at
                                /\ blob.at[strings[s].off] = from /\ Here(from)
        /\ strings[s] = NULL => ~Here(from) \/ short

(* What mongreldb.h promises: the most durable object whose timestamp has  *)
(* a physical_micros that was parsed.                                      *)
Promised == CASE Here(Physical(Durable)) -> Durable
              [] ~Here(Physical(Durable)) /\ Here(Physical(Outcome)) -> Outcome
              [] ~Here(Physical(Durable)) /\ ~Here(Physical(Outcome))
                 /\ Here(Physical(Status)) -> Status
              [] OTHER -> NULL

MoreDurable(object) == CASE object = Durable -> {}
                         [] object = Outcome -> {Durable}
                         [] object = Status  -> {Durable, Outcome}

(* A timestamp that has members, but no physical_micros, while no object   *)
(* that is more durable has one.                                           *)
Shadows(object) ==
    /\ ~Here(Physical(object))
    /\ \E p \in DOMAIN reply : Len(p) = Len(Physical(object)) /\ Front(p) = Hlc(object)
    /\ \A o \in MoreDurable(object) : ~Here(Physical(o))

(* The commit timestamp given out is the one that mongreldb.h promises,    *)
(* although the lookups report objects that are absent as found, exactly   *)
(* when no timestamp without physical_micros comes before it.  For one     *)
(* that does, `present` is set with 0 for the time, and it is given out in *)
(* the place of a real one or of none: the lookup of the absent field      *)
(* reports it as found (717).                                              *)
CommitHlcIsReal ==
    pc = Idle =>
        /\ CommitHlc = Promised <=> \A o \in {Status, Outcome, Durable} : ~Shadows(o)
        /\ CommitHlc # Promised => CommitHlc # NULL /\ Shadows(CommitHlc)

(* The serialization state is what the durable object says, if it says     *)
(* anything, before what the outcome says, unless memory ran out.          *)
DurableSpeaksFirst ==
    pc = Idle /\ ~short =>
        LET says(object) == \E n \in {"serialization_state", "serialization"} :
                               Here(Append(object, n)) /\ reply[Append(object, n)] # "empty"
        IN  /\ SerializationState = NULL => ~says(Durable) /\ ~says(Outcome)
            /\ SerializationState # NULL =>
                  Front(SerializationState) = IF says(Durable) THEN Durable ELSE Outcome
=============================================================================
