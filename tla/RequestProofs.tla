---------------------------- MODULE RequestProofs -----------------------------
(***************************************************************************)
(* Theorems about Request, for every cap on a reply, every set of bodies,  *)
(* statuses and time limits, and whichever allocations may fail.           *)
(***************************************************************************)
EXTENDS Request, TLAPS

(* The body buffer holds what has arrived of the reply, and the result of  *)
(* the transfer says what became of it.                                    *)
TransferOK ==
    /\ reply = NULL => recv = 0
    /\ reply # NULL => recv + reply.left = reply.size
    /\ pc \notin {"idle", "transfer"} => reply = NULL /\ rc = "none"
    /\ rc = "OK" => reply # NULL /\ reply.left = 0
    /\ faults \subseteq Reported /\ rc \in {"FILESIZE_EXCEEDED", "WRITE_ERROR"} =>
          reply # NULL /\ reply.size > MaxBody
    /\ BufferBounded

(* While a call runs there is no error yet; once it returned, there is the *)
(* one it returned.                                                        *)
OutcomeOK ==
    /\ pc # "idle" => lastCode = "OK" /\ errMsg = "empty"
    /\ ErrorMatchesReturn /\ AnswersAreComplete /\ OversizeMeansOversize

(* As long as only those allocations fail whose failure is looked at, there *)
(* is one header list, libcurl is given its first line, and it is what the *)
(* call has allocated beside the URL and the handle.                       *)
ListOK ==
    faults \subseteq Reported =>
        /\ headers = (IF pc \in {"idle", "handle", "accept"} THEN NULL ELSE "Accept")
        /\ pc \in {"auth", "transfer"} => given = headers
        /\ heap = (IF pc = "idle" THEN {} ELSE {"url"})
                  \cup (IF pc \in {"idle", "handle"} THEN {} ELSE {"handle"})
                  \cup (IF headers = NULL THEN {} ELSE {headers})

IInv == TypeOK /\ TransferOK /\ OutcomeOK /\ ListOK /\ CredentialsOnWire

-----------------------------------------------------------------------------
LEMMA InitInv == Init => IInv
<1> SUFFICES ASSUME Init PROVE IInv
  OBVIOUS
<1>1. TypeOK
  BY DEF Init, TypeOK, Codes, NoLists
<1>2. TransferOK /\ OutcomeOK
  BY RequestAssumption DEF Init, TransferOK, OutcomeOK, BufferBounded, ErrorMatchesReturn,
     AnswersAreComplete, OversizeMeansOversize
<1>3. ListOK /\ CredentialsOnWire
  BY DEF Init, ListOK, CredentialsOnWire
<1> QED BY <1>1, <1>2, <1>3 DEF IInv

(* The code and the message of an error.                                   *)
LEMMA ErrorSet ==
    ASSUME NEW code, NEW text, SetError(code, text)
    PROVE  lastCode' = code /\ errMsg' \in {text, "empty"}
BY DEF SetError

(* A call that returns leaves its locals as a call finds them.             *)
LEMMA LeaveTypes ==
    ASSUME Leave
    PROVE  /\ pc' = "idle" /\ body' \in {"none", "json"} /\ url' \in {"whole", "torn"}
           /\ userpwd' \in {"unset", "whole", "torn"}
           /\ headers' \in Lines \cup {NULL} /\ given' \in Lines \cup {NULL}
           /\ lines' \in [Lines -> SUBSET Lines]
BY DEF Leave, NoLists

LEMMA SetTimeoutInv == \A t \in Timeouts : IInv /\ SetTimeout(t) => IInv'
<1> SUFFICES ASSUME NEW t \in Timeouts, IInv, SetTimeout(t) PROVE IInv'
  OBVIOUS
<1> USE DEF SetTimeout, request, IInv
<1>1. TypeOK'
  BY RequestAssumption DEF TypeOK
<1>2. TransferOK' /\ OutcomeOK'
  BY DEF TransferOK, OutcomeOK, BufferBounded, ErrorMatchesReturn,
     AnswersAreComplete, OversizeMeansOversize
<1>3. ListOK' /\ CredentialsOnWire'
  BY DEF ListOK, CredentialsOnWire
<1> QED BY <1>1, <1>2, <1>3

LEMMA CallInv == \A b \in {"none", "json"} : IInv /\ Call(b) => IInv'
<1> SUFFICES ASSUME NEW b \in {"none", "json"}, IInv, Call(b) PROVE IInv'
  OBVIOUS
<1> USE DEF Call, Forget, IInv
<1>1. TypeOK'
  BY DEF TypeOK, Codes
<1>2. TransferOK' /\ OutcomeOK'
  BY RequestAssumption DEF TransferOK, OutcomeOK, BufferBounded, ErrorMatchesReturn,
     AnswersAreComplete, OversizeMeansOversize
<1>3. ListOK' /\ CredentialsOnWire'
  BY DEF ListOK, CredentialsOnWire
<1> QED BY <1>1, <1>2, <1>3

LEMMA InitHandleInv == IInv /\ InitHandle => IInv'
<1> SUFFICES ASSUME IInv, InitHandle PROVE IInv'
  OBVIOUS
<1>1. CASE /\ heap' = heap \cup {"handle"} /\ pc' = "accept"
           /\ UNCHANGED << client, request, ret >>
  <2> USE <1>1 DEF InitHandle, IInv, client, request
  <2>1. TypeOK'
    BY DEF TypeOK
  <2>2. TransferOK' /\ OutcomeOK'
    BY DEF TransferOK, OutcomeOK, BufferBounded, ErrorMatchesReturn,
       AnswersAreComplete, OversizeMeansOversize
  <2>3. ListOK' /\ CredentialsOnWire'
    BY DEF ListOK, CredentialsOnWire
  <2> QED BY <2>1, <2>2, <2>3
<1>2. CASE /\ heap' = heap \ {"url"} /\ SetError("NETWORK", "curl_easy_init")
           /\ ret' = "NETWORK" /\ Leave /\ UNCHANGED << faults, cred, timeout, recv >>
  <2> USE <1>2 DEF InitHandle, IInv
  <2>1. TypeOK'
    BY LeaveTypes, ErrorSet DEF TypeOK, Codes
  <2>2. TransferOK' /\ OutcomeOK'
    BY ErrorSet DEF Leave, TransferOK, OutcomeOK, BufferBounded, ErrorMatchesReturn,
       AnswersAreComplete, OversizeMeansOversize
  <2>3. ListOK' /\ CredentialsOnWire'
    BY DEF Leave, ListOK, CredentialsOnWire
  <2> QED BY <2>1, <2>2, <2>3
<1> QED BY <1>1, <1>2 DEF InitHandle

-----------------------------------------------------------------------------
(* The header lines.                                                       *)
LEMMA SlistAppendTypes ==
    ASSUME TypeOK, NEW line \in Lines, SlistAppend(line)
    PROVE  /\ headers' \in Lines \cup {NULL}
           /\ lines' \in [Lines -> SUBSET Lines]
           /\ heap' \subseteq {"url", "handle"} \cup Lines
<1>1. /\ headers \in Lines \cup {NULL} /\ lines \in [Lines -> SUBSET Lines]
      /\ heap \subseteq {"url", "handle"} \cup Lines
  BY DEF TypeOK
<1>2. CASE headers = NULL
  <2>1. lines' = [lines EXCEPT ![line] = {line}]
    BY <1>2 DEF SlistAppend
  <2>2. lines' \in [Lines -> SUBSET Lines]
    BY <1>1, <2>1
  <2> QED BY <1>1, <1>2, <2>2 DEF SlistAppend
<1>3. CASE headers # NULL
  <2>1. /\ headers \in Lines /\ UNCHANGED << headers, heap >>
        /\ lines' = [lines EXCEPT ![headers] = @ \cup {line}]
    BY <1>1, <1>3 DEF SlistAppend
  <2>2. lines' \in [Lines -> SUBSET Lines]
    BY <1>1, <2>1
  <2> QED BY <1>1, <2>1, <2>2
<1> QED BY <1>2, <1>3

LEMMA AddLineTypes ==
    ASSUME TypeOK, NEW line \in Lines, NEW site, AddLine(line, site)
    PROVE  /\ headers' \in Lines \cup {NULL}
           /\ lines' \in [Lines -> SUBSET Lines]
           /\ heap' \subseteq {"url", "handle"} \cup Lines
<1>1. CASE SlistAppend(line)
  BY <1>1, SlistAppendTypes
<1>2. CASE headers' = NULL /\ UNCHANGED << lines, heap >>
  BY <1>2 DEF TypeOK
<1> QED BY <1>1, <1>2 DEF AddLine

LEMMA AddAcceptInv == IInv /\ AddAccept => IInv'
<1> SUFFICES ASSUME IInv, AddAccept PROVE IInv'
  OBVIOUS
<1>1. /\ pc = "accept" /\ pc' \in {"ctype", "setopt"} /\ AddLine("Accept", "accept")
      /\ UNCHANGED << client, body, url, given, userpwd, reply, rc, ret >>
  BY DEF AddAccept
<1>2. TypeOK'
  BY <1>1, AddLineTypes DEF IInv, TypeOK, Lines, client
<1>3. TransferOK' /\ OutcomeOK'
  BY <1>1 DEF IInv, client, TransferOK, OutcomeOK, BufferBounded, ErrorMatchesReturn,
     AnswersAreComplete, OversizeMeansOversize
<1>4. ListOK' /\ CredentialsOnWire'
  <2>1. faults \subseteq Reported => SlistAppend("Accept")
    BY <1>1 DEF AddLine, MayFail, Reported
  <2> QED BY <1>1, <2>1, RequestAssumption
          DEF IInv, client, ListOK, CredentialsOnWire, SlistAppend
<1> QED BY <1>2, <1>3, <1>4 DEF IInv

LEMMA AddContentTypeInv == IInv /\ AddContentType => IInv'
<1> SUFFICES ASSUME IInv, AddContentType PROVE IInv'
  OBVIOUS
<1>1. /\ pc = "ctype" /\ pc' = "setopt" /\ AddLine("Content-Type", "ctype")
      /\ UNCHANGED << client, body, url, given, userpwd, reply, rc, ret >>
  BY DEF AddContentType
<1>2. TypeOK'
  BY <1>1, AddLineTypes DEF IInv, TypeOK, Lines, client
<1>3. TransferOK' /\ OutcomeOK'
  BY <1>1 DEF IInv, client, TransferOK, OutcomeOK, BufferBounded, ErrorMatchesReturn,
     AnswersAreComplete, OversizeMeansOversize
<1>4. ListOK' /\ CredentialsOnWire'
  <2>1. faults \subseteq Reported => SlistAppend("Content-Type")
    BY <1>1 DEF AddLine, MayFail, Reported
  <2> QED BY <1>1, <2>1, RequestAssumption
          DEF IInv, client, ListOK, CredentialsOnWire, SlistAppend
<1> QED BY <1>2, <1>3, <1>4 DEF IInv

LEMMA SetOptionsInv == IInv /\ SetOptions => IInv'
<1> SUFFICES ASSUME IInv, SetOptions PROVE IInv'
  OBVIOUS
<1> USE DEF SetOptions, client, IInv
<1>1. TypeOK'
  BY DEF TypeOK
<1>2. TransferOK' /\ OutcomeOK'
  BY DEF TransferOK, OutcomeOK, BufferBounded, ErrorMatchesReturn,
     AnswersAreComplete, OversizeMeansOversize
<1>3. ListOK' /\ CredentialsOnWire'
  BY DEF ListOK, CredentialsOnWire
<1> QED BY <1>1, <1>2, <1>3

(* The line is appended to the list that libcurl was given, or the call    *)
(* gives everything back.                                                  *)
LEMMA AddTokenInv == IInv /\ AddToken => IInv'
<1> SUFFICES ASSUME IInv, AddToken PROVE IInv'
  OBVIOUS
<1>1. pc = "auth" /\ cred = "token" /\ UNCHANGED << reply, rc >>
  BY DEF AddToken
<1>2. CASE /\ SlistAppend("Authorization") /\ pc' = "transfer"
           /\ UNCHANGED << client, body, url, given, userpwd, ret >>
  <2>1. TypeOK'
    BY <1>1, <1>2, SlistAppendTypes DEF IInv, TypeOK, Lines, client
  <2>2. TransferOK' /\ OutcomeOK'
    BY <1>1, <1>2 DEF IInv, client, TransferOK, OutcomeOK, BufferBounded,
       ErrorMatchesReturn, AnswersAreComplete, OversizeMeansOversize
  <2>3. ListOK' /\ CredentialsOnWire'
    BY <1>1, <1>2, RequestAssumption
    DEF IInv, client, ListOK, CredentialsOnWire, SlistAppend, TypeOK, Lines
  <2> QED BY <2>1, <2>2, <2>3 DEF IInv
<1>3. CASE /\ heap' = Released /\ SetError("NOMEM", "out_of_memory") /\ ret' = "NOMEM"
           /\ Leave /\ UNCHANGED << faults, cred, timeout, recv >>
  <2>1. TypeOK'
    BY <1>1, <1>3, LeaveTypes, ErrorSet DEF IInv, TypeOK, Codes, Released
  <2>2. TransferOK' /\ OutcomeOK'
    BY <1>1, <1>3, ErrorSet DEF IInv, Leave, TransferOK, OutcomeOK, BufferBounded,
       ErrorMatchesReturn, AnswersAreComplete, OversizeMeansOversize
  <2>3. ListOK' /\ CredentialsOnWire'
    BY <1>1, <1>3 DEF IInv, Leave, ListOK, CredentialsOnWire, Released
  <2> QED BY <2>1, <2>2, <2>3 DEF IInv
<1> QED BY <1>2, <1>3 DEF AddToken

LEMMA AddBasicInv == IInv /\ AddBasic => IInv'
<1> SUFFICES ASSUME IInv, AddBasic PROVE IInv'
  OBVIOUS
<1> USE DEF AddBasic, client, IInv
<1>1. TypeOK'
  BY DEF TypeOK
<1>2. TransferOK' /\ OutcomeOK'
  BY DEF TransferOK, OutcomeOK, BufferBounded, ErrorMatchesReturn,
     AnswersAreComplete, OversizeMeansOversize
<1>3. ListOK' /\ CredentialsOnWire'
  BY DEF ListOK, CredentialsOnWire, MayFail, Reported
<1> QED BY <1>1, <1>2, <1>3

-----------------------------------------------------------------------------
(* The transfer: what touches neither the error nor the header list.       *)
LEMMA TransferFrame ==
    ASSUME IInv, pc = "transfer",
           UNCHANGED << faults, cred, timeout, lastCode, errMsg, pc, request, heap, ret >>,
           recv' \in Nat, reply' \in Reply \cup {NULL}, rc' \in {"none", "OK", "NET", "FILESIZE_EXCEEDED", "WRITE_ERROR"}
    PROVE  TypeOK' /\ OutcomeOK' /\ ListOK' /\ CredentialsOnWire'
<1>1. TypeOK'
  BY DEF IInv, TypeOK, request
<1>2. OutcomeOK'
  BY DEF IInv, OutcomeOK, ErrorMatchesReturn, AnswersAreComplete, OversizeMeansOversize
<1>3. ListOK' /\ CredentialsOnWire'
  BY DEF IInv, ListOK, CredentialsOnWire, request
<1> QED BY <1>1, <1>2, <1>3

(* curl_easy_perform ends: "OK" with the whole reply, or with an error, of *)
(* which two speak of its size.                                            *)
LEMMA PerformInv ==
    ASSUME IInv, Performing, NEW result, Perform(result), UNCHANGED recv,
           \/ result = "OK" /\ reply # NULL /\ reply.left = 0
           \/ result = "NET"
           \/ /\ result \in {"FILESIZE_EXCEEDED", "WRITE_ERROR"}
              /\ faults \subseteq Reported => reply # NULL /\ reply.size > MaxBody
    PROVE  IInv'
<1>1. /\ pc = "transfer" /\ UNCHANGED << faults, pc, recv, reply >> /\ rc' = result
      /\ UNCHANGED << faults, cred, timeout, lastCode, errMsg, pc, request, heap, ret >>
  BY DEF Performing, Perform
<1>2. TypeOK' /\ OutcomeOK' /\ ListOK' /\ CredentialsOnWire'
  BY <1>1, TransferFrame DEF IInv, TypeOK
<1>3. TransferOK'
  BY <1>1 DEF IInv, TransferOK, BufferBounded
<1> QED BY <1>2, <1>3 DEF IInv

LEMMA AnswerInv ==
    ASSUME IInv, NEW s \in Statuses, NEW n \in Sizes, NEW e \in BOOLEAN,
           NEW t \in {"plain", "not_found:"}, Answer(s, n, e, t)
    PROVE  IInv'
<1>1. /\ pc = "transfer" /\ rc = "none" /\ reply = NULL
      /\ UNCHANGED << faults, recv, pc, rc >>
      /\ UNCHANGED << faults, cred, timeout, lastCode, errMsg, pc, request, heap, ret >>
  BY DEF Answer, Performing, client
<1>2. n \in Nat
  BY RequestAssumption
<1>3. reply' \in Reply /\ reply'.left = n /\ reply'.size = n
  BY <1>2 DEF Answer, Reply
<1>4. TypeOK' /\ OutcomeOK' /\ ListOK' /\ CredentialsOnWire'
  BY <1>1, <1>3, TransferFrame DEF IInv, TypeOK
<1>5. recv = 0 /\ recv <= MaxBody
  BY <1>1 DEF IInv, TransferOK, BufferBounded
<1>6. TransferOK'
  BY <1>1, <1>2, <1>3, <1>5, RequestAssumption DEF TransferOK, BufferBounded
<1> QED BY <1>4, <1>6 DEF IInv

(* A chunk that write_cb takes still fits under the cap; one that it       *)
(* refuses is the proof that the reply does not.                           *)
LEMMA ChunkInv ==
    ASSUME IInv, NEW n \in 1 .. (IF reply = NULL THEN 0 ELSE reply.left), Chunk(n)
    PROVE  IInv'
<1>1. /\ n \in Nat /\ n >= 1 /\ reply # NULL /\ reply \in Reply
      /\ reply.left \in Nat /\ reply.size \in Nat /\ n <= reply.left
      /\ recv \in Nat /\ MaxBody \in Nat /\ recv <= MaxBody
      /\ recv + reply.left = reply.size
  BY RequestAssumption DEF IInv, TypeOK, TransferOK, BufferBounded, Reply
<1>2. CASE (Exceeds(n) \/ MayFail("recv")) /\ Perform("WRITE_ERROR") /\ UNCHANGED recv
  <2>1. faults \subseteq Reported => reply.size > MaxBody
    BY <1>1, <1>2 DEF Exceeds, MayFail, Reported
  <2>2. Performing
    BY DEF Chunk
  <2> QED BY <1>1, <1>2, <2>1, <2>2, PerformInv
<1>3. CASE /\ ~Exceeds(n) /\ recv' = recv + n
           /\ reply' = [reply EXCEPT !.left = @ - n]
           /\ UNCHANGED << faults, cred, timeout, lastCode, errMsg, pc, request,
                           heap, rc, ret >>
  <2>1. recv' \in Nat /\ recv' <= MaxBody
    BY <1>1, <1>3 DEF Exceeds
  <2>2. pc = "transfer" /\ rc = "none" /\ rc' = "none" /\ pc' = "transfer"
    BY <1>3 DEF Chunk, Performing
  <2>3. reply' \in Reply /\ recv' + reply'.left = reply'.size
    BY <1>1, <1>3 DEF Reply
  <2>4. TypeOK' /\ OutcomeOK' /\ ListOK' /\ CredentialsOnWire'
    BY <1>3, <2>1, <2>2, <2>3, TransferFrame
  <2>5. TransferOK'
    BY <1>1, <2>1, <2>2, <2>3, RequestAssumption DEF TransferOK, BufferBounded
  <2> QED BY <2>4, <2>5 DEF IInv
<1> QED BY <1>2, <1>3 DEF Chunk

LEMMA NetworkInv == IInv /\ (Network \/ TimeOut) => IInv'
<1> SUFFICES ASSUME IInv, Network \/ TimeOut PROVE IInv'
  OBVIOUS
<1>1. CASE \E s \in Statuses, n \in Sizes, e \in BOOLEAN, t \in {"plain", "not_found:"} :
              Answer(s, n, e, t)
  BY <1>1, AnswerInv
<1>2. CASE TooLarge
  BY <1>2, PerformInv DEF TooLarge
<1>3. CASE \E n \in 1 .. (IF reply = NULL THEN 0 ELSE reply.left) : Chunk(n)
  BY <1>3, ChunkInv
<1>4. CASE Complete
  BY <1>4, PerformInv DEF Complete
<1>5. CASE Break \/ TimeOut
  BY <1>5, PerformInv DEF Break, TimeOut
<1> QED BY <1>1, <1>2, <1>3, <1>4, <1>5 DEF Network

-----------------------------------------------------------------------------
(* The end of a call.                                                      *)
Shown == {"plain", "not_found:", "json", "sentinel", "empty"}

LEMMA ShownOnly ==
    ASSUME reply \in Reply, NEW text \in Messages, NEW shown \in Sentinel(text)
    PROVE  shown \in Shown
<1>1. reply.text \in {"plain", "not_found:"}
  BY DEF Reply
<1>2. text \in {reply.text, "json", NULL}
  BY DEF Messages
<1> QED BY <1>1, <1>2 DEF Sentinel, Shown

LEMMA ClassifyOnly ==
    ASSUME NEW status, NEW text
    PROVE  Classify(status, text) \in {"AUTH", "NOT_FOUND", "CONFLICT", "QUERY"}
BY DEF Classify

(* Which error goes with which transfer.                                   *)
LEMMA Outcomes ==
    ASSUME IInv, Conclude
    PROVE  /\ lastCode' = ret'
           /\ \/ TooBig /\ ret' = "QUERY" /\ errMsg' \in {"exceeds", "empty"}
              \/ /\ ~TooBig /\ ret' \in {"NETWORK", "NOMEM"}
                 /\ errMsg' \in {"network_error", "out_of_memory", "empty"}
              \/ /\ ~TooBig /\ ~Cut /\ reply.status \in 200 .. 299
                 /\ ret' = "OK" /\ errMsg' = "empty"
              \/ /\ ~TooBig /\ ~Cut /\ reply.status \notin 200 .. 299
                 /\ ret' \in {"AUTH", "NOT_FOUND", "CONFLICT", "QUERY"}
                 /\ errMsg' \in Shown
<1>1. lastCode = "OK" /\ errMsg = "empty"
  BY DEF IInv, OutcomeOK, Conclude
<1>2. CASE TooBig /\ Fail("QUERY", "exceeds")
  BY <1>2, ErrorSet DEF Fail
<1>3. CASE ~TooBig /\ Cut /\ Fail("NETWORK", "network_error")
  BY <1>3, ErrorSet DEF Fail
<1>4. CASE ~TooBig /\ ~Cut /\ Fail("NOMEM", "out_of_memory")
  BY <1>4, ErrorSet DEF Fail
<1>5. CASE ~TooBig /\ ~Cut /\ reply.status \in 200 .. 299 /\ ret' = "OK"
           /\ UNCHANGED << lastCode, errMsg >>
  BY <1>1, <1>5
<1>6. CASE /\ ~TooBig /\ ~Cut /\ reply.status \notin 200 .. 299
           /\ \E text \in Messages : \E shown \in Sentinel(text) :
                 Fail(Classify(reply.status, text), shown)
  <2>1. PICK text \in Messages : \E shown \in Sentinel(text) :
           Fail(Classify(reply.status, text), shown)
    BY <1>6
  <2>2. PICK shown \in Sentinel(text) : Fail(Classify(reply.status, text), shown)
    BY <2>1
  <2>3. rc \in {"OK"}
    BY <1>6 DEF IInv, TypeOK, Conclude, TooBig, Cut
  <2>4. reply \in Reply
    BY <2>3 DEF IInv, TypeOK, TransferOK
  <2>5. shown \in Shown
    BY <2>4, ShownOnly
  <2> QED BY <1>6, <2>2, <2>5, ErrorSet, ClassifyOnly DEF Fail, Shown
<1> QED BY <1>2, <1>3, <1>4, <1>5, <1>6 DEF Conclude

LEMMA ConcludeInv == IInv /\ Conclude => IInv'
<1> SUFFICES ASSUME IInv, Conclude PROVE IInv'
  OBVIOUS
<1>1. /\ pc = "transfer" /\ rc # "none" /\ heap' = heap \ {"url", "handle", headers}
      /\ Leave /\ UNCHANGED << faults, cred, timeout, recv, reply, rc >>
  BY DEF Conclude
<1>2. TypeOK'
  <2>1. /\ lastCode' \in Codes /\ ret' \in Codes
        /\ errMsg' \in {"exceeds", "network_error", "out_of_memory"} \cup Shown
    BY Outcomes DEF Codes, Shown
  <2>2. /\ pc' = "idle" /\ body' \in {"none", "json"} /\ url' \in {"whole", "torn"}
        /\ userpwd' \in {"unset", "whole", "torn"}
        /\ headers' \in Lines \cup {NULL} /\ given' \in Lines \cup {NULL}
        /\ lines' \in [Lines -> SUBSET Lines]
    BY <1>1, LeaveTypes
  <2> QED BY <1>1, <2>1, <2>2 DEF IInv, TypeOK, Shown
<1>3. TransferOK'
  BY <1>1 DEF IInv, TransferOK, BufferBounded, Leave
<1>4. recv <= MaxBody /\ ~(recv > MaxBody) /\ recv \in Nat
  BY RequestAssumption DEF IInv, TypeOK, TransferOK, BufferBounded
<1>5. ErrorMatchesReturn'
  BY Outcomes DEF ErrorMatchesReturn
<1>6. AnswersAreComplete'
  <2>1. ret' \in {"OK", "AUTH", "NOT_FOUND", "CONFLICT"} =>
           ~TooBig /\ ~Cut /\ (ret' = "OK" <=> reply.status \in 200 .. 299)
    BY Outcomes
  <2>2. ~TooBig /\ ~Cut => rc = "OK"
    BY <1>1 DEF IInv, TypeOK, TooBig, Cut
  <2>3. rc = "OK" => reply # NULL /\ reply.left = 0 /\ recv = reply.size
    BY <1>4 DEF IInv, TransferOK
  <2> QED BY <1>1, <1>4, <2>1, <2>2, <2>3 DEF AnswersAreComplete
<1>7. OversizeMeansOversize'
  <2>1. errMsg' = "exceeds" => TooBig
    BY Outcomes DEF Shown
  <2> QED BY <1>1, <1>4, <2>1 DEF IInv, TransferOK, TooBig, OversizeMeansOversize
<1>8. ListOK' /\ CredentialsOnWire'
  BY <1>1 DEF IInv, ListOK, CredentialsOnWire, Leave
<1>9. pc' = "idle"
  BY <1>1 DEF Leave
<1> QED BY <1>2, <1>3, <1>5, <1>6, <1>7, <1>8, <1>9 DEF IInv, OutcomeOK

-----------------------------------------------------------------------------
LEMMA StutterInv == IInv /\ UNCHANGED vars => IInv'
<1> SUFFICES ASSUME IInv, UNCHANGED vars PROVE IInv'
  OBVIOUS
<1>1. TypeOK'
  BY DEF IInv, TypeOK, vars
<1>2. TransferOK' /\ OutcomeOK'
  BY DEF IInv, TransferOK, OutcomeOK, BufferBounded, ErrorMatchesReturn,
     AnswersAreComplete, OversizeMeansOversize, vars
<1>3. ListOK' /\ CredentialsOnWire'
  BY DEF IInv, ListOK, CredentialsOnWire, vars
<1> QED BY <1>1, <1>2, <1>3 DEF IInv

LEMMA NextInv == IInv /\ [Next]_vars => IInv'
<1> SUFFICES ASSUME IInv, [Next]_vars PROVE IInv'
  OBVIOUS
<1>1. CASE \E t \in Timeouts : SetTimeout(t) BY <1>1, SetTimeoutInv
<1>2. CASE \E b \in {"none", "json"} : Call(b) BY <1>2, CallInv
<1>3. CASE Step
  BY <1>3, InitHandleInv, AddAcceptInv, AddContentTypeInv, SetOptionsInv, AddTokenInv,
     AddBasicInv, ConcludeInv DEF Step
<1>4. CASE Network \/ TimeOut BY <1>4, NetworkInv
<1>5. CASE UNCHANGED vars BY <1>5, StutterInv
<1> QED BY <1>1, <1>2, <1>3, <1>4, <1>5 DEF Next

LEMMA Invariance == Spec => []IInv
BY InitInv, NextInv, PTL DEF Spec

(* Every variable of do_request keeps to its values.                       *)
THEOREM TypeCorrect == Spec => []TypeOK
<1>1. IInv => TypeOK
  BY DEF IInv
<1> QED BY <1>1, Invariance, PTL

(* write_cb buffers no more than the cap, however the reply is cut.        *)
THEOREM BufferStaysBounded == Spec => []BufferBounded
<1>1. IInv => BufferBounded
  BY DEF IInv, TransferOK
<1> QED BY <1>1, Invariance, PTL

(* Success, and the three errors that must not be retried, are only given  *)
(* once the whole reply has arrived.                                       *)
THEOREM CompleteAnswers == Spec => []AnswersAreComplete
<1>1. IInv => AnswersAreComplete
  BY DEF IInv, OutcomeOK
<1> QED BY <1>1, Invariance, PTL

(* The last error of a client is that of the call that just returned.      *)
THEOREM ErrorsMatch == Spec => []ErrorMatchesReturn
<1>1. IInv => ErrorMatchesReturn
  BY DEF IInv, OutcomeOK
<1> QED BY <1>1, Invariance, PTL

(* A body is called too large only if it is larger than the cap.           *)
THEOREM OversizeIsReal == Spec => []OversizeMeansOversize
<1>1. IInv => OversizeMeansOversize
  BY DEF IInv, OutcomeOK
<1> QED BY <1>1, Invariance, PTL

(* A call gives back all it allocated, on every path of its code.          *)
THEOREM NothingLeaks == Spec => []NoLeak
<1>1. IInv => NoLeak
  BY DEF IInv, ListOK, NoLeak
<1> QED BY <1>1, Invariance, PTL

(* A request is sent with the credentials of its client.                   *)
THEOREM CredentialsSent == Spec => []CredentialsOnWire
<1>1. IInv => CredentialsOnWire
  BY DEF IInv
<1> QED BY <1>1, Invariance, PTL
=============================================================================
