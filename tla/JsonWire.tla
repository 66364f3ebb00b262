------------------------------- MODULE JsonWire -------------------------------
(***************************************************************************)
(* JSON in both directions: the bodies a client posts (RequestBody) and    *)
(* the replies it walks over (JsonWalk).  One body or one reply is looked  *)
(* at, since neither depends on the other.                                 *)
(***************************************************************************)
EXTENDS RequestBody

CONSTANT Requests   \* What the application asks for.

ASSUME RequestsAssumption == Requests \subseteq AnyRequest

VARIABLE
    asked           \* The request that was posted, or NULL.

wire == << reply, asked >>

WireInit == WalkInit /\ asked = NULL

(* A request is written.                                                   *)
Post(r) == /\ asked = NULL /\ reply = << >>
           /\ asked' = r /\ UNCHANGED reply

(* One token more of a reply arrives.                                      *)
Arrive(token) == /\ asked = NULL
                 /\ Receive(token) /\ UNCHANGED asked

WireNext == \/ \E r \in Requests : Post(r)
            \/ \E token \in Heard : Arrive(token)

WireSpec == WireInit /\ [][WireNext]_wire

-----------------------------------------------------------------------------
(* A condition none of whose bounds is NaN or infinite.                    *)
IsFinite(c) == c.kind = "range" /\ Blank(c.condition_json) =>
                   /\ c.lo_set => c.lo # NotFinite
                   /\ c.hi_set => c.hi # NotFinite

(* An index none of whose settings outgrow the buffer they are printed to. *)
IsPrintable(x) ==
    x.kind = "ANN" => /\ AnnSize(x) < 96
                      /\ x.ann_algorithm = "DISKANN" => DiskannSize(x) < 96
                      /\ x.ann_quantization = "PRODUCT" => ProductSize(x) < 96

CanBeSaid(r) ==
    /\ r.call = "query" => \A i \in DOMAIN r.conditions : IsFinite(r.conditions[i])
    /\ r.call = "create_table" => \A i \in DOMAIN r.indexes : IsPrintable(r.indexes[i])

(* What is posted is one JSON value (a value that the walker, which goes   *)
(* by the grammar, takes for whole), whichever optional fields are there   *)
(* and however often arrays repeat, unless a bound of a range is NaN or    *)
(* infinite (unlike a value, which becomes null, it is written as it is)   *)
(* or the settings of an index have too many digits: then it is not.       *)
BodyIsJson ==
    asked # NULL =>
        (CanBeSaid(asked) <=> ValueEnd(Body(asked), 1) = Len(Body(asked)) + 1)
=============================================================================
