------------------------------- MODULE Request -------------------------------
(***************************************************************************)
(* do_request, the one function through which every public call talks to   *)
(* the daemon: it assembles the request, hands it to libcurl, receives the *)
(* reply chunk by chunk in write_cb, and turns what happened into an error *)
(* code and a message.  Memory may run out at any of its allocations, and  *)
(* the network may answer, stall or break at any point of a transfer.      *)
(*                                                                         *)
(* A byte count stands for a body, a first line for a libcurl header list, *)
(* and a name for a block of memory.                                       *)
(***************************************************************************)
EXTENDS Integers, FiniteSets

CONSTANTS
    MaxBody,    \* MONGRELDB_MAX_RESPONSE_BYTES
    Sizes,      \* Sizes of the bodies the daemon sends.
    Statuses,   \* HTTP status codes it answers.
    Creds,      \* How clients were made: "none", "token" or "basic".
    Timeouts,   \* Arguments of mongreldb_set_timeout.
    FaultSets,  \* Which allocations may fail, in one history or another.
    NULL

Sites == {"url", "handle", "accept", "ctype", "auth", "creds", "recv",
          "msg", "error"}

(* The allocations whose failure the code looks at.                        *)
Reported == {"handle", "auth", "msg", "error"}

(* What the daemon answers: a status, a body of a size, of which some is   *)
(* left to arrive, and what an error body is: an envelope with a top-level *)
(* message (text), or anything else, whose text is then taken whole.       *)
Reply == [status : Statuses, size : Sizes, left : Nat, envelope : BOOLEAN,
          text : {"plain", "not_found:"}]

ASSUME RequestAssumption ==
    /\ MaxBody \in Nat /\ Sizes \subseteq Nat /\ Statuses \subseteq 100 .. 599
    /\ Creds \subseteq {"none", "token", "basic"} /\ Timeouts \subseteq Int
    /\ FaultSets \subseteq SUBSET Sites
    /\ NULL \notin {"Accept", "Content-Type", "Authorization"} \cup Reply

Lines == {"Accept", "Content-Type", "Authorization"}

VARIABLES
    faults,     \* The allocations that may fail: fixed.
    cred,       \* c->token / c->username: fixed by the constructor.
    timeout,    \* c->timeout_seconds
    lastCode,   \* c->last_code
    errMsg,     \* What c->error_msg holds: a kind of message, or "empty".
    recv,       \* c->recv.len
    pc,         \* Where the call is, or "idle".
    body,       \* The request body of the call: "none", or "json".
    url,        \* "whole", or "torn" when a piece could not be appended.
    headers,    \* The local curl_slist: its first line, or NULL.
    lines,      \* The lines of the list that starts with a given line.
    given,      \* What CURLOPT_HTTPHEADER was set to.
    userpwd,    \* What CURLOPT_USERPWD was set to: "unset", "whole", "torn".
    heap,       \* The blocks this call allocated and has not freed.
    reply,      \* The Reply, or NULL.
    rc,         \* Result of curl_easy_perform.
    ret         \* Result of the last call.

client == << faults, cred, timeout, lastCode, errMsg, recv >>
request == << body, url, headers, lines, given, userpwd >>
vars == << faults, cred, timeout, lastCode, errMsg, recv, pc, body, url, headers,
           lines, given, userpwd, heap, reply, rc, ret >>

(* An allocation succeeds, or fails where it may.                          *)
MayFail(site) == site \in faults

NoLists == [l \in Lines |-> {}]

(* The locals of a call that returns.                                      *)
Leave == /\ pc' = "idle" /\ body' = "none" /\ url' = "whole"
         /\ headers' = NULL /\ lines' = NoLists /\ given' = NULL
         /\ userpwd' = "unset"

(* set_error and set_error_fmt: the code is kept even when the message can *)
(* not be copied.                                                          *)
SetError(code, text) ==
    /\ lastCode' = code
    /\ errMsg' = text \/ (MayFail("error") /\ errMsg' = "empty")

-----------------------------------------------------------------------------
Init == /\ faults \in FaultSets /\ cred \in Creds /\ timeout = 30
        /\ lastCode = "OK" /\ errMsg = "empty" /\ recv = 0
        /\ pc = "idle" /\ body = "none" /\ url = "whole"
        /\ headers = NULL /\ lines = NoLists /\ given = NULL
        /\ userpwd = "unset" /\ heap = {} /\ reply = NULL
        /\ rc = "none" /\ ret = "none"

(* Mutant: the argument is stored as it is.                                *)
SetTimeoutRaw(t) == /\ pc = "idle" /\ timeout' = t
                    /\ UNCHANGED << faults, cred, lastCode, errMsg, recv, pc, request,
                                    heap, reply, rc, ret >>

(* mongreldb_set_timeout.                                                  *)
SetTimeout(t) == /\ pc = "idle"
                 /\ timeout' = (IF t > 0 THEN t ELSE 30)
                 /\ UNCHANGED << faults, cred, lastCode, errMsg, recv, pc, request,
                                 heap, reply, rc, ret >>

(* Mutant: the last error outlives the call that made it.                  *)
ForgetBody == recv' = 0 /\ UNCHANGED << lastCode, errMsg >>

(* Entry: forget the previous call's error and body.                       *)
Forget == lastCode' = "OK" /\ errMsg' = "empty" /\ recv' = 0

(* The start of do_request, and the URL (failed appends go unnoticed).     *)
Call(payload) ==
    /\ pc = "idle"
    /\ Forget
    /\ body' = payload /\ reply' = NULL /\ rc' = "none"
    /\ url' = "whole" \/ (MayFail("url") /\ url' = "torn")
    /\ heap' = heap \cup {"url"}
    /\ pc' = "handle"
    /\ UNCHANGED << faults, cred, timeout, headers, lines, given, userpwd, ret >>

(* curl_easy_init.                                                         *)
InitHandle ==
    /\ pc = "handle"
    /\ \/ /\ heap' = heap \cup {"handle"}
          /\ pc' = "accept"
          /\ UNCHANGED << client, request, ret >>
       \/ /\ MayFail("handle")
          /\ heap' = heap \ {"url"}
          /\ SetError("NETWORK", "curl_easy_init")
          /\ ret' = "NETWORK"
          /\ Leave
          /\ UNCHANGED << faults, cred, timeout, recv >>
    /\ UNCHANGED << reply, rc >>

(* Mutant: the line is put in front of the list that libcurl was given.    *)
SlistPrepend(line) ==
    /\ headers' = line
    /\ lines' = [lines EXCEPT ![line] =
                     {line} \cup (IF headers = NULL THEN {} ELSE lines[headers])]
    /\ heap' = (heap \ {headers}) \cup {line}

(* curl_slist_append(headers, line) with memory for the node: it extends   *)
(* the list in place, or starts one when there is none.                    *)
SlistAppend(line) ==
    IF headers = NULL
    THEN /\ headers' = line
         /\ lines' = [lines EXCEPT ![line] = {line}]
         /\ heap' = heap \cup {line}
    ELSE /\ lines' = [lines EXCEPT ![headers] = @ \cup {line}]
         /\ UNCHANGED << headers, heap >>

(* headers = curl_slist_append(headers, ...): NULL overwrites the list.    *)
AddLine(line, site) ==
    \/ SlistAppend(line)
    \/ MayFail(site) /\ headers' = NULL /\ UNCHANGED << lines, heap >>

AddAccept == /\ pc = "accept"
             /\ AddLine("Accept", "accept")
             /\ pc' = (IF body = "none" THEN "setopt" ELSE "ctype")
             /\ UNCHANGED << client, body, url, given, userpwd, reply, rc, ret >>

AddContentType == /\ pc = "ctype"
                  /\ AddLine("Content-Type", "ctype")
                  /\ pc' = "setopt"
                  /\ UNCHANGED << client, body, url, given, userpwd, reply, rc, ret >>

(* curl_easy_setopt(CURLOPT_HTTPHEADER) and the other options.             *)
SetOptions == /\ pc = "setopt"
              /\ given' = headers
              /\ pc' = (IF cred = "none" THEN "transfer" ELSE "auth")
              /\ UNCHANGED << client, body, url, headers, lines, userpwd, heap,
                              reply, rc, ret >>

(* Mutant: the URL is not freed.                                           *)
ReleasedButUrl == heap \ {"handle", "auth", headers}

(* What both clean-up paths of the bearer token free.                      *)
Released == heap \ {"url", "handle", "auth", headers}

AddToken ==
    /\ pc = "auth" /\ cred = "token"
    /\ \/ /\ SlistAppend("Authorization")
          /\ pc' = "transfer"
          /\ UNCHANGED << client, body, url, given, userpwd, ret >>
       \/ /\ MayFail("auth")
          /\ heap' = Released
          /\ SetError("NOMEM", "out_of_memory")
          /\ ret' = "NOMEM"
          /\ Leave
          /\ UNCHANGED << faults, cred, timeout, recv >>
    /\ UNCHANGED << reply, rc >>

AddBasic == /\ pc = "auth" /\ cred = "basic"
            /\ userpwd' = "whole" \/ (MayFail("creds") /\ userpwd' = "torn")
            /\ pc' = "transfer"
            /\ UNCHANGED << client, body, url, headers, lines, given, heap,
                            reply, rc, ret >>

-----------------------------------------------------------------------------
(* curl_easy_perform.                                                      *)

Performing == pc = "transfer" /\ rc = "none"

Perform(result) == /\ rc' = result
                   /\ UNCHANGED << faults, cred, timeout, lastCode, errMsg, pc, request,
                                   heap, reply, ret >>

(* The daemon answers, with a size that it announces or not.               *)
Answer(status, size, envelope, text) ==
    /\ Performing /\ reply = NULL
    /\ envelope => size > 0
    /\ reply' = [status |-> status, size |-> size, left |-> size,
                 envelope |-> envelope, text |-> text]
    /\ UNCHANGED << client, pc, request, heap, rc, ret >>

(* CURLOPT_MAXFILESIZE_LARGE, when the size is announced.                  *)
TooLarge == /\ Performing /\ reply # NULL /\ reply.left = reply.size
            /\ reply.size > MaxBody
            /\ Perform("FILESIZE_EXCEEDED") /\ UNCHANGED recv

(* Mutants: the bytes to come are not counted; the bound is off by one.    *)
ExceedsLate(n) == recv > MaxBody
ExceedsEarly(n) == recv + n >= MaxBody

(* write_cb refuses what would not fit under the cap.                      *)
Exceeds(n) == recv > MaxBody \/ n > MaxBody - recv

(* libcurl delivers n bytes to write_cb.                                   *)
Chunk(n) ==
    /\ Performing
    /\ \/ /\ Exceeds(n) \/ MayFail("recv")
          /\ Perform("WRITE_ERROR") /\ UNCHANGED recv
       \/ /\ ~Exceeds(n)
          /\ recv' = recv + n
          /\ reply' = [reply EXCEPT !.left = @ - n]
          /\ UNCHANGED << faults, cred, timeout, lastCode, errMsg, pc,
                          request, heap, rc, ret >>

Complete == /\ Performing /\ reply # NULL /\ reply.left = 0
            /\ Perform("OK") /\ UNCHANGED recv

(* Refused, reset or cut short.                                            *)
Break == Performing /\ Perform("NET") /\ UNCHANGED recv

(* CURLOPT_TIMEOUT; libcurl takes 0 for "no limit".                        *)
TimeOut == Performing /\ timeout > 0 /\ Perform("NET") /\ UNCHANGED recv

-----------------------------------------------------------------------------
(* Mutant: a status without a rule gets no code of mongreldb.h.            *)
ClassifyOpen(status, text) ==
    CASE status \in {401, 403} -> "AUTH"
      [] status = 404          -> "NOT_FOUND"
      [] status = 409          -> "CONFLICT"
      [] OTHER                 -> "HTTP"

(* classify_http_error; the text "not_found:" is one that starts so.       *)
Classify(status, text) ==
    CASE status \in {401, 403} -> "AUTH"
      [] status = 404          -> "NOT_FOUND"
      [] status = 409          -> "CONFLICT"
      [] OTHER -> IF text = "not_found:" THEN "NOT_FOUND" ELSE "QUERY"

(* The texts of an error reply that can be copied: the message of an       *)
(* envelope, else the whole body (a JSON text never starts with            *)
(* "not found:"), else none.                                               *)
Messages ==
    CASE reply.size = 0 -> {NULL}
      [] reply.envelope -> {reply.text} \cup
                           (IF MayFail("msg") THEN {"json", NULL} ELSE {})
      [] OTHER -> {reply.text} \cup (IF MayFail("msg") THEN {NULL} ELSE {})

(* The error string: the message, or a fixed sentinel in its place.        *)
Sentinel(text) ==
    IF text # NULL THEN {text}
    ELSE {"sentinel"} \cup (IF MayFail("msg") THEN {"empty"} ELSE {})

Fail(code, text) == SetError(code, text) /\ ret' = code

TooBig == rc \in {"FILESIZE_EXCEEDED", "WRITE_ERROR"} \/ recv > MaxBody

(* Mutant: a transfer counts as failed only when no status line came.      *)
CutEarly == rc = "NET" /\ reply = NULL

Cut == rc = "NET"

(* After curl_easy_perform: release everything, then one outcome.          *)
Conclude ==
    /\ pc = "transfer" /\ rc # "none"
    /\ heap' = heap \ {"url", "handle", headers}
    /\ \/ TooBig /\ Fail("QUERY", "exceeds")
       \/ ~TooBig /\ Cut /\ Fail("NETWORK", "network_error")
       \/ /\ ~TooBig /\ ~Cut /\ MayFail("recv")
          /\ Fail("NOMEM", "out_of_memory")
       \/ /\ ~TooBig /\ ~Cut /\ reply.status \in 200 .. 299
          /\ ret' = "OK"
          /\ UNCHANGED << lastCode, errMsg >>
       \/ /\ ~TooBig /\ ~Cut /\ reply.status \notin 200 .. 299
          /\ \E text \in Messages :
            \E shown \in Sentinel(text) :
               Fail(Classify(reply.status, text), shown)
    /\ Leave
    /\ UNCHANGED << faults, cred, timeout, recv, reply, rc >>

Step == \/ InitHandle \/ AddAccept \/ AddContentType \/ SetOptions
        \/ AddToken \/ AddBasic \/ Conclude

Network == \/ \E s \in Statuses, n \in Sizes, e \in BOOLEAN,
                 t \in {"plain", "not_found:"} : Answer(s, n, e, t)
           \/ TooLarge
           \/ \E n \in 1 .. (IF reply = NULL THEN 0 ELSE reply.left) : Chunk(n)
           \/ Complete
           \/ Break

Next == \/ \E t \in Timeouts : SetTimeout(t)
        \/ \E b \in {"none", "json"} : Call(b)
        \/ Step \/ Network \/ TimeOut

(* The code runs on, and libcurl's timer fires; the daemon owes nothing.   *)
Spec == Init /\ [][Next]_vars /\ WF_vars(Step) /\ WF_vars(TimeOut)

-----------------------------------------------------------------------------
Codes == {"OK", "AUTH", "NOT_FOUND", "CONFLICT", "QUERY", "NETWORK", "NOMEM"}

TypeOK ==
    /\ faults \in FaultSets /\ cred \in Creds /\ timeout \in Int /\ body \in {"none", "json"}
    /\ lastCode \in Codes /\ ret \in Codes \cup {"none"}
    /\ errMsg \in {"empty", "curl_easy_init", "out_of_memory", "exceeds",
                   "network_error", "plain", "not_found:", "json", "sentinel"}
    /\ recv \in Nat
    /\ pc \in {"idle", "handle", "accept", "ctype", "setopt", "auth", "transfer"}
    /\ url \in {"whole", "torn"} /\ userpwd \in {"unset", "whole", "torn"}
    /\ headers \in Lines \cup {NULL} /\ given \in Lines \cup {NULL}
    /\ lines \in [Lines -> SUBSET Lines]
    /\ heap \subseteq {"url", "handle"} \cup Lines
    /\ reply \in Reply \cup {NULL}
    /\ rc \in {"none", "OK", "NET", "FILESIZE_EXCEEDED", "WRITE_ERROR"}

(* Every return has released the URL, the libcurl handle and every header  *)
(* list the call allocated, error paths included, as long as only those    *)
(* allocations fail whose failure the code looks at.                       *)
NoLeak == faults \subseteq Reported /\ pc = "idle" => heap = {}

(* The answers a caller acts on (success, and the three it must not retry) *)
(* are only given when the whole reply arrived: a transfer that was cut,   *)
(* timed out or ran over the cap after its status line is never one.       *)
AnswersAreComplete ==
    pc = "idle" /\ ret \in {"OK", "AUTH", "NOT_FOUND", "CONFLICT"} =>
        /\ rc = "OK" /\ reply.left = 0
        /\ recv = reply.size /\ recv <= MaxBody
        /\ (ret = "OK" <=> reply.status \in 200 .. 299)

(* However the reply is cut into chunks, no more than the cap is buffered. *)
BufferBounded == recv <= MaxBody

(* "Response body exceeds" is said of bodies over the cap only: one of     *)
(* exactly the cap is delivered, and no other failure that the code can    *)
(* tell is called that.                                                    *)
OversizeMeansOversize ==
    faults \subseteq Reported /\ pc = "idle" /\ errMsg = "exceeds" => reply.size > MaxBody

(* mongreldb_last_error_code is the code just returned, and the message is *)
(* that call's: empty after a success, even one that follows a failure.    *)
ErrorMatchesReturn ==
    pc = "idle" /\ ret # "none" =>
        /\ lastCode = ret
        /\ ret = "OK" => errMsg = "empty"

(* A request that leaves carries the credentials the client was made with, *)
(* unless an allocation failed that the code does not look at.             *)
CredentialsOnWire ==
    faults \subseteq Reported /\ pc = "transfer" =>
        /\ cred = "token" => given # NULL /\ "Authorization" \in lines[given]
        /\ cred = "basic" => userpwd = "whole"

(* Whatever the daemon and the network do, the call returns: libcurl has a *)
(* time limit on every request.                                            *)
CallsReturn == pc # "idle" ~> pc = "idle"
=============================================================================
