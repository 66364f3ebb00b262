--------------------------- MODULE MCStatusDecode ---------------------------
(* Replies with each combination of objects and timestamps, of which some  *)
(* lack physical_micros, and with a few of the strings, empty or not, in   *)
(* each object.                                                            *)
EXTENDS StatusDecode

Closure(paths) == UNION {{SubSeq(p, 1, n) : n \in 1 .. Len(p)} : p \in paths}

(* A timestamp: absent, empty, without its time, and with it.              *)
Timestamps(object) == {{}, {Hlc(object)}, {Append(Hlc(object), "logical")},
                       {Append(Hlc(object), "logical"), Physical(object)}}

Scalars == {<< "committed" >>, Append(Durable, "committed"), Append(Outcome, "retryable")}

(* Timestamps: every combination, with and without other fields.           *)
Timed == {[p \in Closure(ps \cup os) |-> "x"] :
             ps \in {d \cup o \cup s : d \in Timestamps(Durable), o \in Timestamps(Outcome),
                                      s \in Timestamps(Status)},
             os \in {{}, Scalars, {<< "state" >>, Durable}}}

Spoken == {<< "state" >>, << "server_state" >>, Append(Durable, "serialization_state"),
           Append(Durable, "serialization"), Append(Outcome, "serialization")}

(* Strings: some of them, some of these empty.                             *)
Texts == {[p \in Closure(ps) |-> IF p \in es THEN "empty" ELSE "x"] :
             ps \in SUBSET Spoken, es \in SUBSET (Spoken \ {<< "state" >>, << "server_state" >>})}

MCReplies == Timed \cup Texts
=============================================================================
