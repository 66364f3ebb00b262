------------------------------ MODULE ClientApi -------------------------------
(***************************************************************************)
(* The life of one client handle: it is made by one of the constructors,   *)
(* serves public calls one after another, and is closed.  Every call lends *)
(* memory that the handle owns, and every later call reuses some of it:    *)
(* which buffer is freed by whom, and when, decides what the application   *)
(* may still read, and whether what it borrowed earlier may be an argument *)
(* of the next call.                                                       *)
(*                                                                         *)
(* A buffer is one block, though some are two or four (TableNames and      *)
(* QueryDecode have them one by one); its contents, which a call moves as  *)
(* they grow, are out of reach until the call returns.  What do_request    *)
(* does is Request; here a request succeeds or fails.  A NULL out_body     *)
(* borrows nothing and is left out.                                        *)
(***************************************************************************)
EXTENDS Integers

CONSTANTS
    Calls,      \* The public calls the application makes.
    FaultSets,  \* Which allocations may fail, in one history or another.
    NULL

(* The calls with one signature's worth of behaviour each: the CRUD calls  *)
(* check their arguments, stage one operation and are mongreldb_commit.    *)
AllCalls == {"health", "table_names", "create_table", "drop_table", "count",
             "history_retention_get", "history_retention_set", "commit",
             "query", "sql", "schema", "schema_for", "query_status_get",
             "cancel_query", "retrieve_text"}

Sites == {"handle", "error", "base_url", "token", "username", "password",
          "body", "scratch"}

Kinds == {"message", "body", "names", "result", "status"}

ASSUME ClientAssumption ==
    /\ Calls \subseteq AllCalls /\ FaultSets \subseteq SUBSET Sites
    /\ NULL \notin Kinds

VARIABLES
    faults,     \* The allocations that may fail: fixed.
    open,       \* Whether the application has a handle.
    heap,       \* The blocks that are allocated.
    fields,     \* The pointers of the handle that are not NULL.
    pc,         \* Where the call is, or "idle".
    call,       \* The call that runs, or NULL.
    argument,   \* The borrowed thing it was given to read, or NULL.
    lent,       \* What was handed out since the last call began.
    readable,   \* What of it, or of the argument, is in memory not freed.
    into,       \* The blocks each of those leads into.
    lastCode,   \* c->last_code
    told,       \* Whether c->error_msg holds a message.
    ret         \* Result of the last call.

memory == << heap, fields >>
loans == << lent, readable, into >>
error == << lastCode, told >>
locals == << pc, call, argument >>
vars == << faults, open, heap, fields, pc, call, argument, lent, readable,
           into, lastCode, told, ret >>

Entry(table, f) == IF f \in DOMAIN table THEN table[f] ELSE {}

(* The buffers a call decodes its reply into, and fills anew.              *)
Scratch(f) == Entry([table_names |-> {"names"}, query |-> {"rows", "values"},
                     query_status_get |-> {"values"}], f)

(* What a successful call lends.                                           *)
Lends(f) == Entry([table_names |-> {"names"}, query |-> {"result"},
                   query_status_get |-> {"status"}, sql |-> {"body"},
                   schema |-> {"body"}, schema_for |-> {"body"},
                   cancel_query |-> {"body"}, retrieve_text |-> {"body"}], f)

(* How decoding may fail.                                                  *)
DecodeErrors(f) ==
    Entry([table_names |-> {"JSON", "NOMEM"}, query |-> {"JSON", "NOMEM"},
           history_retention_get |-> {"QUERY"},
           history_retention_set |-> {"QUERY"}], f)

(* The calls that take a string, or a structure with strings in it.        *)
TakesText(f) == f \notin {"health", "table_names", "history_retention_get",
                          "history_retention_set", "schema"}

(* The calls that look at nothing but the handle before they start.        *)
Unchecked == {"health", "history_retention_get", "history_retention_set"}

(* Mutant: a call starts with a clean slate.                               *)
FreesEarly(f, step) == CASE step = "enter"   -> {"error", "recv"} \cup Scratch(f)
                         [] step = "request" -> {"error", "recv"}
                         [] step = "decode"  -> Scratch(f)

(* What a call frees before it reads its arguments, in do_request, and     *)
(* before it decodes the reply.                                            *)
Frees(f, step) == CASE step = "enter"   -> {}
                    [] step = "request" -> {"error", "recv"}
                    [] step = "decode"  -> Scratch(f)

(* The allocations, of those in sites, that may succeed together.          *)
Allocs(sites) == {got \in SUBSET sites : sites \ got \subseteq faults}

(* Free the buffers in old, of which some are allocated again.             *)
Replace(old, new) ==
    /\ heap' = (heap \ (old \cap fields)) \cup new
    /\ fields' = (fields \ old) \cup new

Nowhere == [k \in Kinds |-> {}]

(* What may be read of kept once the buffers in old are freed.             *)
Keep(kept, old) ==
    /\ readable' = {k \in kept \cap readable : into[k] \cap old = {}}
    /\ into' = [k \in Kinds |-> IF k \in readable' THEN into[k] ELSE {}]

(* The thing of kind k, handed out as pointers into blocks.                *)
Hand(k, blocks) == /\ lent' = lent \cup {k} /\ readable' = readable \cup {k}
                   /\ into' = [into EXCEPT ![k] = blocks]

(* set_error.                                                              *)
SetError(code, old, new) ==
    /\ Replace({"error"} \cup old, new)
    /\ told' = ("error" \in new) /\ lastCode' = code

Return(code) == ret' = code /\ pc' = "idle" /\ call' = NULL /\ argument' = NULL

(* Everything lent before is the application's loss.                       *)
LendNothing == lent' = {} /\ Keep({}, {})

-----------------------------------------------------------------------------
Init == /\ faults \in FaultSets
        /\ open = FALSE /\ heap = {} /\ fields = {}
        /\ pc = "idle" /\ call = NULL /\ argument = NULL
        /\ lent = {} /\ readable = {} /\ into = Nowhere
        /\ lastCode = "OK" /\ told = FALSE /\ ret = "none"

(* The strings that each constructor copies.                               *)
Copies == {{"base_url"}, {"base_url", "token"}, {"base_url", "username", "password"}}

(* The three constructors: without a handle they return NULL, without the  *)
(* base URL they free the handle alone, without a credential they close.   *)
Connect ==
    /\ ~open
    /\ \E strings \in Copies :
       \E got \in Allocs(strings \cup {"handle", "error"}) :
         \/ /\ strings \cup {"handle"} \subseteq got
            /\ open' = TRUE /\ heap' = heap \cup got /\ fields' = got \ {"handle"}
         \/ /\ "handle" \in got /\ "base_url" \notin got
            /\ heap' = heap \cup (got \cap {"error"}) /\ UNCHANGED << open, fields >>
         \/ /\ "handle" \notin got \/ ("base_url" \in got /\ ~(strings \subseteq got))
            /\ UNCHANGED << open, heap, fields >>
    /\ lastCode' = "OK" /\ told' = FALSE /\ ret' = "none"
    /\ UNCHANGED << faults, locals, loans >>

(* A NULL handle or a missing argument: the last error stays as it was,    *)
(* but for the calls that require a query id or a text.                    *)
Refuse(f) ==
    /\ pc = "idle"
    /\ f \in Unchecked => ~open
    /\ \/ /\ f \notin {"cancel_query", "retrieve_text"} \/ ~open
          /\ UNCHANGED << memory, error >>
       \/ /\ f \in {"query_status_get", "cancel_query", "retrieve_text"} /\ open
          /\ \E new \in Allocs({"error"}) : SetError("INVALID_ARG", {}, new)
    /\ Return("INVALID_ARG") /\ LendNothing
    /\ UNCHANGED << faults, open >>

(* mongreldb_commit with no operation succeeds without a request.          *)
CommitNothing == /\ pc = "idle" /\ open /\ "commit" \in Calls
                 /\ Return("OK") /\ LendNothing
                 /\ UNCHANGED << faults, open, memory, error >>

(* A call with good arguments, one of them borrowed or none.               *)
Enter(f, a) ==
    /\ pc = "idle" /\ open
    /\ a # NULL => a \in lent /\ TakesText(f)
    /\ pc' = "build" /\ call' = f /\ argument' = a /\ lent' = {}
    /\ Replace(Frees(f, "enter"), {}) /\ Keep({a}, Frees(f, "enter"))
    /\ ret' = "none"
    /\ UNCHANGED << faults, open, error >>

(* The path or body is written from the arguments, which are not looked at *)
(* again.  An unknown operation stops mongreldb_commit, and retrieve_text  *)
(* is the one call that looks whether its body could be written.           *)
Build ==
    /\ pc = "build"
    /\ \/ /\ pc' = "request" /\ argument' = NULL
          /\ UNCHANGED << memory, error, call, ret >>
       \/ /\ call = "commit"
          /\ \E new \in Allocs({"error"}) : SetError("INVALID_ARG", {}, new)
          /\ Return("INVALID_ARG")
       \/ /\ call = "retrieve_text" /\ "body" \in faults
          /\ \E new \in Allocs({"error"}) : SetError("NOMEM", {}, new)
          /\ Return("NOMEM")
    /\ LendNothing
    /\ UNCHANGED << faults, open >>

(* do_request: on success the reply, if it is not empty, is in recv.       *)
DoRequest ==
    /\ pc = "request"
    /\ LET old == Frees(call, "request") IN
       \/ \E new \in Allocs({"error"}), body \in SUBSET {"recv"} :
             /\ SetError("FAILED", old, new \cup body)
             /\ Return("FAILED")
       \/ \E body \in SUBSET {"recv"} :
             /\ Replace(old, body)
             /\ lastCode' = "OK" /\ told' = FALSE
             /\ pc' = "decode"
             /\ UNCHANGED << call, argument, ret >>
    /\ UNCHANGED << faults, open, loans >>

(* Decoding frees what the last one of the same buffers left and fills     *)
(* them anew, wholly or, when it fails, in part.                           *)
Decode ==
    /\ pc = "decode"
    /\ LET old == Frees(call, "decode") IN
       \E new \in SUBSET Scratch(call) :
          /\ Replace(old, new)
          /\ \/ Lends(call) = {} /\ Return("OK") /\ UNCHANGED loans
             \/ \E k \in Lends(call) :
                   /\ Hand(k, IF k = "body" THEN fields \cap {"recv"} ELSE new)
                   /\ Return("OK")
             \/ \E code \in DecodeErrors(call) :
                   /\ code = "NOMEM" => "scratch" \in faults
                   /\ Return(code) /\ UNCHANGED loans
    /\ UNCHANGED << faults, open, error >>

(* mongreldb_last_error: the message, or "" which is no one's memory.      *)
LastError == /\ pc = "idle"
             /\ Hand("message", fields \cap {"error"})
             /\ UNCHANGED << faults, open, heap, fields, locals, error, ret >>

(* Mutant: the result is freed, as its name suggests.                      *)
ResultFreeReally ==
    /\ pc = "idle" /\ "result" \in lent
    /\ Replace({"rows", "values"}, {}) /\ Keep(lent, {"rows", "values"})
    /\ UNCHANGED << faults, open, locals, lent, error, ret >>

(* mongreldb_result_free does nothing: the result may be read on.          *)
ResultFree == /\ pc = "idle" /\ "result" \in lent
              /\ UNCHANGED vars

(* Mutant: the offsets and rows are forgotten.                             *)
FreedButRows == {"handle"} \cup (fields \ {"rows"})

(* What mongreldb_close frees.                                             *)
Freed == {"handle"} \cup fields

Close == /\ pc = "idle" /\ open
         /\ open' = FALSE /\ heap' = heap \ Freed /\ fields' = {}
         /\ lastCode' = "OK" /\ told' = FALSE /\ ret' = "none"
         /\ LendNothing
         /\ UNCHANGED << faults, locals >>

Next == \/ Connect
        \/ \E f \in Calls : Refuse(f)
        \/ CommitNothing
        \/ \E f \in Calls, a \in Kinds \cup {NULL} : Enter(f, a)
        \/ Build \/ DoRequest \/ Decode
        \/ LastError \/ ResultFree \/ Close

Spec == Init /\ [][Next]_vars

-----------------------------------------------------------------------------
(* Memory is lent as mongreldb.h says: whichever calls shared a buffer,    *)
(* whichever of them failed half-way, and whatever was looked at since,    *)
(* what the last call handed out can be read until the next one begins.    *)
Lent == INSTANCE Borrow WITH busy <- pc # "idle"

IsBorrow == Lent!Spec

(* A name, a query id or a message that was borrowed may be an argument of *)
(* the next call, even of the one that frees it (mongreldb_count of a name *)
(* just listed, a status polled by the id in the last one): it is read     *)
(* before any buffer is freed.                                             *)
ArgumentsAreRead == pc = "build" /\ argument # NULL => argument \in readable

(* Between two steps every block belongs to one pointer of an open handle  *)
(* and every pointer to a block: nothing is lost or freed twice, failed    *)
(* constructors and calls included, unless the copy of the base URL was    *)
(* what failed.                                                            *)
OwnsItsBlocks ==
    "base_url" \notin faults =>
        heap = fields \cup (IF open THEN {"handle"} ELSE {})

(* "Every non-MDB_OK return sets the last-error string" (docs/errors.md),  *)
(* and the code is the one just returned.                                  *)
FailureIsTold ==
    pc = "idle" /\ open /\ ret \notin {"none", "OK"} => told /\ lastCode = ret
=============================================================================
