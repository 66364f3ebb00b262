--------------------------- MODULE ClientApiProofs ----------------------------
(* Theorems about ClientApi, for every set of public calls and whichever   *)
(* allocations fail.                                                       *)
EXTENDS ClientApi, TLAPS

(* Between two calls everything lent can be read; a call has nothing lent. *)
LoansOK ==
    /\ lent \subseteq Kinds
    /\ pc = "idle" => lent \subseteq readable
    /\ pc # "idle" => lent = {}

(* The handle is its own block, and without one no call runs.              *)
HandleOK ==
    /\ "handle" \notin fields
    /\ ~open => fields = {} /\ pc = "idle"

IInv == LoansOK /\ HandleOK /\ ArgumentsAreRead /\ OwnsItsBlocks

-----------------------------------------------------------------------------
(* What a table of calls gives for any of them.                            *)
LEMMA LendsKinds == ASSUME NEW f PROVE Lends(f) \subseteq Kinds
<1> DEFINE table == [table_names |-> {"names"}, query |-> {"result"},
                     query_status_get |-> {"status"}, sql |-> {"body"},
                     schema |-> {"body"}, schema_for |-> {"body"},
                     cancel_query |-> {"body"}, retrieve_text |-> {"body"}]
<1>1. \A g \in DOMAIN table : table[g] \subseteq Kinds
  BY DEF Kinds
<1>2. Lends(f) = IF f \in DOMAIN table THEN table[f] ELSE {}
  BY DEF Lends, Entry
<1> QED BY <1>1, <1>2

LEMMA FreesNoHandle ==
    ASSUME NEW f
    PROVE  /\ "handle" \notin Scratch(f)
           /\ Frees(f, "enter") = {}
           /\ Frees(f, "request") = {"error", "recv"}
           /\ Frees(f, "decode") = Scratch(f)
<1> DEFINE table == [table_names |-> {"names"}, query |-> {"rows", "values"},
                     query_status_get |-> {"values"}]
<1>1. \A g \in DOMAIN table : "handle" \notin table[g]
  OBVIOUS
<1>2. Scratch(f) = IF f \in DOMAIN table THEN table[f] ELSE {}
  BY DEF Scratch, Entry
<1>3. "handle" \notin Scratch(f)
  BY <1>1, <1>2
<1> QED BY <1>3 DEF Frees

(* Freeing and allocating buffers of an open handle leaves it the owner.   *)
LEMMA ReplaceOwns ==
    ASSUME NEW old, NEW new, Replace(old, new), "handle" \notin new,
           HandleOK, OwnsItsBlocks, open, open' = open, faults' = faults
    PROVE  HandleOK' /\ OwnsItsBlocks'
<1>1. "handle" \notin fields'
  BY DEF Replace, HandleOK
<1>2. "base_url" \notin faults => heap' = fields' \cup {"handle"}
  BY DEF Replace, HandleOK, OwnsItsBlocks
<1> QED BY <1>1, <1>2 DEF HandleOK, OwnsItsBlocks

(* A step that leaves the memory alone leaves it owned.                    *)
LEMMA SameMemoryOwns ==
    ASSUME HandleOK, OwnsItsBlocks, UNCHANGED memory, open' = open,
           faults' = faults, pc' = "idle" \/ open
    PROVE  HandleOK' /\ OwnsItsBlocks'
BY DEF HandleOK, OwnsItsBlocks, memory

LEMMA NothingLent ==
    ASSUME LendNothing
    PROVE  lent' = {} /\ readable' = {}
BY DEF LendNothing, Keep

-----------------------------------------------------------------------------
LEMMA InitInv == Init => IInv
BY DEF Init, IInv, LoansOK, HandleOK, ArgumentsAreRead, OwnsItsBlocks

LEMMA ConnectInv == IInv /\ Connect => IInv'
<1> SUFFICES ASSUME IInv, Connect PROVE IInv'
  OBVIOUS
<1>1. UNCHANGED << faults, locals, loans >>
  BY DEF Connect
<1>2. LoansOK' /\ ArgumentsAreRead'
  BY <1>1 DEF IInv, LoansOK, ArgumentsAreRead, locals, loans
<1>3. ~open /\ fields = {} /\ pc' = "idle"
  BY <1>1 DEF Connect, IInv, HandleOK, locals
<1>4. PICK strings, got :
         /\ strings \in Copies /\ got \subseteq strings \cup {"handle", "error"}
         /\ (strings \cup {"handle", "error"}) \ got \subseteq faults
         /\ \/ /\ strings \cup {"handle"} \subseteq got
               /\ open' = TRUE /\ heap' = heap \cup got /\ fields' = got \ {"handle"}
            \/ /\ "handle" \in got /\ "base_url" \notin got
               /\ heap' = heap \cup (got \cap {"error"}) /\ UNCHANGED << open, fields >>
            \/ /\ "handle" \notin got \/ ("base_url" \in got /\ ~(strings \subseteq got))
               /\ UNCHANGED << open, heap, fields >>
  BY DEF Connect, Allocs
<1>5. "base_url" \in strings
  BY <1>4 DEF Copies
<1>6. "base_url" \notin faults => heap = {}
  BY <1>3 DEF IInv, OwnsItsBlocks
<1>7. HandleOK'
  BY <1>3, <1>4 DEF HandleOK
<1>8. OwnsItsBlocks'
  <2> SUFFICES ASSUME "base_url" \notin faults'
               PROVE  heap' = fields' \cup (IF open' THEN {"handle"} ELSE {})
    BY DEF OwnsItsBlocks
  <2>1. "base_url" \in got /\ heap = {}
    BY <1>1, <1>4, <1>5, <1>6
  <2> QED BY <1>3, <1>4, <2>1
<1> QED BY <1>2, <1>7, <1>8 DEF IInv

LEMMA RefuseInv == \A f : IInv /\ Refuse(f) => IInv'
<1> SUFFICES ASSUME NEW f, IInv, Refuse(f) PROVE IInv'
  OBVIOUS
<1>1. pc = "idle" /\ pc' = "idle" /\ lent' = {} /\ readable' = {}
  BY NothingLent DEF Refuse, Return
<1>2. LoansOK' /\ ArgumentsAreRead'
  BY <1>1 DEF LoansOK, ArgumentsAreRead
<1>3. HandleOK /\ OwnsItsBlocks /\ open' = open /\ faults' = faults
  BY DEF IInv, Refuse
<1>4. CASE UNCHANGED memory
  BY <1>1, <1>2, <1>3, <1>4, SameMemoryOwns DEF IInv
<1>5. CASE open /\ \E new \in Allocs({"error"}) : SetError("INVALID_ARG", {}, new)
  <2>1. PICK new \in Allocs({"error"}) : Replace({"error"} \cup {}, new)
    BY <1>5 DEF SetError
  <2>2. "handle" \notin new
    BY DEF Allocs
  <2> QED BY <1>2, <1>3, <1>5, <2>1, <2>2, ReplaceOwns DEF IInv
<1> QED BY <1>4, <1>5 DEF Refuse

LEMMA CommitNothingInv == IInv /\ CommitNothing => IInv'
<1> SUFFICES ASSUME IInv, CommitNothing PROVE IInv'
  OBVIOUS
<1>1. pc' = "idle" /\ lent' = {} /\ readable' = {}
  BY NothingLent DEF CommitNothing, Return
<1>2. LoansOK' /\ ArgumentsAreRead'
  BY <1>1 DEF LoansOK, ArgumentsAreRead
<1> QED BY <1>1, <1>2, SameMemoryOwns DEF CommitNothing, IInv

(* The one step that a borrowed argument depends on: entering a call frees *)
(* nothing.                                                                *)
LEMMA EnterInv == \A f, a : IInv /\ Enter(f, a) => IInv'
<1> SUFFICES ASSUME NEW f, NEW a, IInv, Enter(f, a) PROVE IInv'
  OBVIOUS
<1>1. pc = "idle" /\ open /\ pc' = "build" /\ argument' = a /\ lent' = {}
  BY DEF Enter
<1>2. Replace({}, {}) /\ Keep({a}, {})
  BY FreesNoHandle DEF Enter
<1>3. a # NULL => a \in readable
  BY <1>1 DEF Enter, IInv, LoansOK
<1>4. a # NULL => a \in readable'
  BY <1>2, <1>3 DEF Keep
<1>5. LoansOK' /\ ArgumentsAreRead'
  BY <1>1, <1>4 DEF LoansOK, ArgumentsAreRead
<1>6. HandleOK' /\ OwnsItsBlocks'
  BY <1>1, <1>2, ReplaceOwns DEF Enter, IInv
<1> QED BY <1>5, <1>6 DEF IInv

LEMMA BuildInv == IInv /\ Build => IInv'
<1> SUFFICES ASSUME IInv, Build PROVE IInv'
  OBVIOUS
<1>1. /\ pc = "build" /\ lent' = {} /\ readable' = {}
      /\ open' = open /\ faults' = faults /\ pc' \in {"idle", "request"}
  BY NothingLent DEF Build, Return
<1>2. LoansOK' /\ ArgumentsAreRead'
  BY <1>1 DEF LoansOK, ArgumentsAreRead
<1>3. open /\ HandleOK /\ OwnsItsBlocks
  BY <1>1 DEF IInv, HandleOK
<1>4. CASE UNCHANGED memory
  BY <1>1, <1>2, <1>3, <1>4, SameMemoryOwns DEF IInv
<1>5. CASE \E new \in Allocs({"error"}) : Replace({"error"} \cup {}, new)
  <2>1. PICK new \in Allocs({"error"}) : Replace({"error"} \cup {}, new)
    BY <1>5
  <2>2. "handle" \notin new
    BY DEF Allocs
  <2> QED BY <1>1, <1>2, <1>3, <2>1, <2>2, ReplaceOwns DEF IInv
<1> QED BY <1>4, <1>5 DEF Build, SetError

LEMMA DoRequestInv == IInv /\ DoRequest => IInv'
<1> SUFFICES ASSUME IInv, DoRequest PROVE IInv'
  OBVIOUS
<1>1. /\ pc = "request" /\ open' = open /\ faults' = faults /\ UNCHANGED loans
      /\ pc' \in {"idle", "decode"}
  BY DEF DoRequest, Return
<1>2. LoansOK' /\ ArgumentsAreRead'
  BY <1>1 DEF IInv, LoansOK, ArgumentsAreRead, loans
<1>3. open /\ HandleOK /\ OwnsItsBlocks
  BY <1>1 DEF IInv, HandleOK
<1>4. CASE \E new \in Allocs({"error"}), body \in SUBSET {"recv"} :
               SetError("FAILED", Frees(call, "request"), new \cup body)
  <2>1. PICK new \in SUBSET {"error"}, body \in SUBSET {"recv"} :
           Replace({"error"} \cup Frees(call, "request"), new \cup body)
    BY <1>4 DEF SetError, Allocs
  <2>2. "handle" \notin new \cup body
    OBVIOUS
  <2>3. HandleOK' /\ OwnsItsBlocks'
    BY <1>1, <1>3, <2>1, <2>2, ReplaceOwns
  <2> QED BY <1>2, <2>3 DEF IInv
<1>5. CASE \E body \in SUBSET {"recv"} : Replace(Frees(call, "request"), body)
  <2>1. PICK body \in SUBSET {"recv"} : Replace(Frees(call, "request"), body)
    BY <1>5
  <2>2. "handle" \notin body
    OBVIOUS
  <2>3. HandleOK' /\ OwnsItsBlocks'
    BY <1>1, <1>3, <2>1, <2>2, ReplaceOwns
  <2> QED BY <1>2, <2>3 DEF IInv
<1> QED BY <1>4, <1>5 DEF DoRequest

LEMMA DecodeInv == IInv /\ Decode => IInv'
<1> SUFFICES ASSUME IInv, Decode PROVE IInv'
  OBVIOUS
<1>1. PICK new \in SUBSET Scratch(call) :
         /\ Replace(Frees(call, "decode"), new)
         /\ \/ UNCHANGED loans
            \/ \E k \in Lends(call) : \E blocks : Hand(k, blocks)
  BY DEF Decode
<1>2. /\ pc = "decode" /\ pc' = "idle" /\ open' = open /\ faults' = faults
      /\ lent = {}
  BY DEF Decode, Return, IInv, LoansOK
<1>3. LoansOK' /\ ArgumentsAreRead'
  <2>1. CASE UNCHANGED loans
    BY <1>2, <2>1 DEF LoansOK, ArgumentsAreRead, loans
  <2>2. CASE \E k \in Lends(call) : \E blocks : Hand(k, blocks)
    <3>1. PICK k \in Lends(call) : lent' = lent \cup {k} /\ readable' = readable \cup {k}
      BY <2>2 DEF Hand
    <3>2. k \in Kinds
      BY LendsKinds
    <3> QED BY <1>2, <3>1, <3>2 DEF LoansOK, ArgumentsAreRead
  <2> QED BY <1>1, <2>1, <2>2
<1>4. open /\ HandleOK /\ OwnsItsBlocks
  BY <1>2 DEF IInv, HandleOK
<1>5. "handle" \notin new
  BY FreesNoHandle
<1>6. HandleOK' /\ OwnsItsBlocks'
  BY <1>1, <1>2, <1>4, <1>5, ReplaceOwns
<1> QED BY <1>3, <1>6 DEF IInv

LEMMA LastErrorInv == IInv /\ LastError => IInv'
<1> SUFFICES ASSUME IInv, LastError PROVE IInv'
  OBVIOUS
<1>1. /\ pc = "idle" /\ pc' = "idle" /\ UNCHANGED << faults, open, memory >>
      /\ lent' = lent \cup {"message"} /\ readable' = readable \cup {"message"}
  BY DEF LastError, Hand, locals, memory
<1>2. LoansOK' /\ ArgumentsAreRead'
  BY <1>1 DEF IInv, LoansOK, ArgumentsAreRead, Kinds
<1> QED BY <1>1, <1>2, SameMemoryOwns DEF IInv

LEMMA CloseInv == IInv /\ Close => IInv'
<1> SUFFICES ASSUME IInv, Close PROVE IInv'
  OBVIOUS
<1>1. pc' = "idle" /\ lent' = {} /\ readable' = {}
  BY NothingLent DEF Close, locals
<1>2. LoansOK' /\ ArgumentsAreRead'
  BY <1>1 DEF LoansOK, ArgumentsAreRead
<1>3. HandleOK' /\ OwnsItsBlocks'
  BY <1>1 DEF Close, IInv, HandleOK, OwnsItsBlocks, Freed
<1> QED BY <1>2, <1>3 DEF IInv

LEMMA StutterInv == IInv /\ UNCHANGED vars => IInv'
BY DEF IInv, LoansOK, HandleOK, ArgumentsAreRead, OwnsItsBlocks, vars

LEMMA NextInv == IInv /\ [Next]_vars => IInv'
<1> SUFFICES ASSUME IInv, [Next]_vars PROVE IInv'
  OBVIOUS
<1>1. CASE Connect BY <1>1, ConnectInv
<1>2. CASE \E f \in Calls : Refuse(f) BY <1>2, RefuseInv
<1>3. CASE CommitNothing BY <1>3, CommitNothingInv
<1>4. CASE \E f \in Calls, a \in Kinds \cup {NULL} : Enter(f, a) BY <1>4, EnterInv
<1>5. CASE Build BY <1>5, BuildInv
<1>6. CASE DoRequest BY <1>6, DoRequestInv
<1>7. CASE Decode BY <1>7, DecodeInv
<1>8. CASE LastError BY <1>8, LastErrorInv
<1>9. CASE ResultFree BY <1>9, StutterInv DEF ResultFree
<1>10. CASE Close BY <1>10, CloseInv
<1>11. CASE UNCHANGED vars BY <1>11, StutterInv
<1> QED BY <1>1, <1>2, <1>3, <1>4, <1>5, <1>6, <1>7, <1>8, <1>9, <1>10, <1>11 DEF Next

(* A borrowed argument is read before its memory is freed, whichever calls *)
(* there are and whichever of them failed before.                          *)
THEOREM ArgumentsRead == Spec => []ArgumentsAreRead
<1>1. IInv => ArgumentsAreRead
  BY DEF IInv
<1> QED BY <1>1, InitInv, NextInv, PTL DEF Spec

(* No block of a handle is lost and none is freed twice, whichever of the  *)
(* allocations fail that a constructor cleans up after.                    *)
THEOREM BlocksAreOwned == Spec => []OwnsItsBlocks
<1>1. IInv => OwnsItsBlocks
  BY DEF IInv
<1> QED BY <1>1, InitInv, NextInv, PTL DEF Spec

-----------------------------------------------------------------------------
(* Each step is one of Borrow, or one that Borrow does not see.            *)
LEMMA BorrowInit == Init => Lent!Init
BY DEF Init, Lent!Init

LEMMA UnseenSteps ==
    Connect \/ ResultFree \/ UNCHANGED vars => UNCHANGED Lent!vars
BY DEF Connect, ResultFree, Lent!vars, vars, locals, loans

(* Refused, empty and closing calls begin and return in one step.          *)
LEMMA ReturnSteps ==
    ASSUME CommitNothing \/ Close \/ \E f : Refuse(f)
    PROVE  Lent!ReturnAtOnce
<1>1. pc = "idle" /\ pc' = "idle"
  BY DEF CommitNothing, Close, Refuse, Return, locals
<1>2. LendNothing
  BY DEF CommitNothing, Close, Refuse
<1> QED BY <1>1, <1>2, NothingLent DEF Lent!ReturnAtOnce

LEMMA EnterStep == ASSUME NEW f, NEW a, Enter(f, a) PROVE Lent!Begin
BY DEF Enter, Keep, Lent!Begin

LEMMA BuildStep == ASSUME Build PROVE Lent!Run \/ Lent!Return
<1>1. pc = "build" /\ pc' \in {"idle", "request"}
  BY DEF Build, Return
<1>2. lent' = {} /\ readable' = {}
  BY NothingLent DEF Build
<1> QED BY <1>1, <1>2 DEF Lent!Run, Lent!Return

LEMMA RequestStep == ASSUME IInv, DoRequest PROVE Lent!Run \/ Lent!Return
<1>1. pc = "request" /\ pc' \in {"idle", "decode"}
  BY DEF DoRequest, Return
<1>2. lent = {} /\ lent' = lent /\ readable' = readable
  BY <1>1 DEF DoRequest, IInv, LoansOK, loans
<1> QED BY <1>1, <1>2 DEF Lent!Run, Lent!Return

LEMMA DecodeStep == ASSUME IInv, Decode PROVE Lent!Return
<1>1. pc = "decode" /\ pc' = "idle"
  BY DEF Decode, Return
<1>2. lent = {}
  BY <1>1 DEF IInv, LoansOK
<1>3. \/ UNCHANGED << lent, readable >>
      \/ \E k \in Lends(call) : lent' = lent \cup {k} /\ readable' = readable \cup {k}
  BY DEF Decode, Hand, loans
<1>4. Lends(call) \subseteq Kinds
  BY LendsKinds
<1> QED BY <1>1, <1>2, <1>3, <1>4 DEF Lent!Return

LEMMA LookStep == ASSUME IInv, LastError PROVE Lent!Look
BY DEF LastError, IInv, LoansOK, Hand, Kinds, locals, Lent!Look

LEMMA BorrowNext == IInv /\ [Next]_vars => [Lent!Next]_(Lent!vars)
<1> SUFFICES ASSUME IInv, [Next]_vars PROVE Lent!Next \/ UNCHANGED Lent!vars
  OBVIOUS
<1> USE DEF Lent!Next
<1>1. CASE Connect BY <1>1, UnseenSteps
<1>2. CASE \E f \in Calls : Refuse(f) BY <1>2, ReturnSteps
<1>3. CASE CommitNothing BY <1>3, ReturnSteps
<1>4. CASE \E f \in Calls, a \in Kinds \cup {NULL} : Enter(f, a) BY <1>4, EnterStep
<1>5. CASE Build BY <1>5, BuildStep
<1>6. CASE DoRequest BY <1>6, RequestStep
<1>7. CASE Decode BY <1>7, DecodeStep
<1>8. CASE LastError BY <1>8, LookStep
<1>9. CASE ResultFree BY <1>9, UnseenSteps
<1>10. CASE Close BY <1>10, ReturnSteps
<1>11. CASE UNCHANGED vars BY <1>11, UnseenSteps
<1> QED BY <1>1, <1>2, <1>3, <1>4, <1>5, <1>6, <1>7, <1>8, <1>9, <1>10, <1>11 DEF Next

(* The handle implements Borrow: what a call lent can be read until the    *)
(* next call begins, whatever was called, refused or failed before.        *)
THEOREM LendsAsPromised == Spec => IsBorrow
<1> QED BY InitInv, NextInv, BorrowInit, BorrowNext, PTL
       DEF Spec, IsBorrow, Lent!Spec
=============================================================================
