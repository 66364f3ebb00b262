# TLA+ models of the MongrelDB C client

This directory specifies, model-checks and partly proves the C client in
`src/mongreldb.c` (2618 lines, one translation unit over libcurl). The client is
synchronous and single-threaded: what makes it hard is not locking but memory
that runs out between two steps, buffers that move while other buffers refer to
them, replies that break at any byte, and commits that are retried when an
answer got lost.

Line numbers below refer to `src/mongreldb.c` unless another file is named.

## 1. The system

| Part | State | Operations | What makes it correct |
|------|-------|------------|-----------------------|
| Byte buffer `sbuf` (26-88) | block, `len`, `cap` | init, free, reserve, append | No write outside the block; sizes never wrap; an append adds all or nothing; the contents are followed by a NUL |
| Client handle (92-130, 1230-1319) | credentials, timeout, buffers that back every returned pointer, last error | connect, set_timeout, close, last_error | The last error is that of the last call; nothing leaks; results live until the next call |
| JSON strings (167-190, 426-440, 596-634, 889-936) | none | escape, find the end, decode | What is written is read back; decoding fits the space reserved |
| JSON walker and lookups (405-867) | a cursor | skip a value, look a field up | Accepts the grammar; finds the object's own field, and only if it is there |
| Request engine (1001-1198) | one libcurl handle, header list and URL per call | `do_request`, `write_cb`, `classify_http_error` | Releases everything; sends the credentials; reports a complete reply only; returns |
| Row decoder (1835-2210) | five growing arrays on the client | `mongreldb_query_page` | Rows are the reply's rows; pointers refer to live memory; indices stay in capacity |
| Commit (1662-1736) and CRUD wrappers (1597-1660) | none; the daemon's log | build one body, post it | The batch arrives whole; with a key, retries apply it once |
| Query status, cancel, text retrieval (2267-2618) | strings in `values_blob` | decode a status, pick the commit timestamp | Flags say whether a field was there |
| Tables, history retention, SQL, schema (1322-1595, 2216-2262) | `names_arr`, `names_blob` | one request and one lookup each | As the row decoder and the lookups |
| Serialisation of values, columns, indexes, conditions (192-396, 1427-1457, 1671-1731, 1740-1890, 2476-2504) | none | write a body | A body is one JSON value that says what was asked for |
| Paths (1215-1226, 1558-1590, 2248-2257, 2514-2517, 2576-2580) | none | put a name into a route | The daemon finds that name and no other |
| `mongreldb_engine.h`, `mongreldb_kit.h` | - | declarations of a library that is not here | not modelled |

Everything public goes through `do_request`, which empties the receive buffer
and the last error and fills both. The decoders read the receive buffer and
write into buffers of the client; those are handed to the caller, who may use
them until the next call. All buffers grow through `sbuf_reserve` or through
`realloc` with doubling. The daemon, the network, libcurl, the allocator and the
retry loop of an application are outside this repository; they are modelled from
how the code and `docs/` use them and are marked external in `PROJECT.json`.

## 2. Modules

| Module | Models | Runs |
|--------|--------|------|
| `ByteString` | The promise of a buffer: an append adds all its bytes or none | (abstract) |
| `Sbuf` | `sbuf_reserve` step by step with wrapping `size_t`, and its callers | `sbuf` |
| `SbufProofs` | Theorems about `Sbuf` | (proofs) |
| `Request` | One call of `do_request` after another | `request` |
| `RequestProofs` | Theorems about `Request` | (proofs) |
| `QueryDecode` | `mongreldb_query_page` over several queries of one client | `query_decode` |
| `QueryDecodeProofs` | Theorems about `QueryDecode` | (proofs) |
| `TableNames` | `mongreldb_table_names` over several calls of one client | `table_names` |
| `TableNamesProofs` | Theorems about `TableNames` | (proofs) |
| `StatusDecode` | `query_status_decode_json` and the two accessors of a status | `status_decode` |
| `StatusDecodeProofs` | Theorems about `StatusDecode` | (proofs) |
| `Borrow` | The promise of a handle: what a call lends is readable until the next | (abstract) |
| `ClientApi` | The constructors, every public call, `last_error`, `result_free`, close | `client_api`, `client_untold` |
| `ClientApiProofs` | Theorems about `ClientApi` | (proofs) |
| `JsonWalk` | `jp_value` and the four lookups | `json_walk`, `json_absent` |
| `RequestBody` | Every body the client posts, as the tokens of `JsonWalk` | (operators) |
| `JsonWire` | Both directions; EXTENDS `JsonWalk` and `RequestBody` | `json_walk`, `json_absent` |
| `JsonText` | The loops that escape a string, find its end and decode it | `json_text` |
| `UrlPath` | `url_path_encode` and the routes with a name in them | `json_text` |
| `NumberText` | How a number of a reply is copied and converted | `json_text` |
| `JsonProofs` | Theorems about `JsonText`, `NumberText` and `JsonWalk` | (proofs) |
| `ExactlyOnce` | The promise of an idempotency key | (abstract) |
| `CommitBody` | The body of a commit as pieces that may get lost | (operators) |
| `TxnRetry` | Clients, network, daemon and retries; EXTENDS `CommitBody` | `txn_retry`, `txn_torn` |
| `TxnRetryProofs` | Theorems about `TxnRetry` | (proofs) |

`TxnRetry` implements `ExactlyOnce` (property `IsExactlyOnce`), `Sbuf`
implements `ByteString` (property `IsByteString`) and `ClientApi` implements
`Borrow` (property `IsBorrow`), each by a refinement mapping. `ClientApi` takes
a request as one step that succeeds or fails, which `Request` has in detail, and
decoding as another, which `TableNames`, `QueryDecode` and `StatusDecode` have.
`QueryDecode` treats an append to the string blob as one step and rests on
`Sbuf` for that; `JsonWalk` treats a string as one token and rests on
`JsonText`, and `StatusDecode` takes from `JsonWalk` what a lookup returns for
a field that is absent. `TableNames` and `StatusDecode` append to their blobs in
one step, as `QueryDecode` does.

### Sbuf

`block`, `len` and `cap` are the three fields; `op`, `arg`, `extra`, `need` and
`ncap` are the arguments and locals of the running call; `pc` is the statement
it is at. `Refuse` is the overflow guard, `Measure` the two sums, `Grow` one
turn of the doubling loop, `Realloc` and `ReallocFails` its outcome, `Write` the
copy and the terminator. `CallScalar` and `CallTerminate` are the two callers
that reserve and then write by themselves: `parse_scalar_into`, which reserves as
many bytes as the raw string has and writes no more than that and a NUL, and
`do_request`, which terminates the receive buffer without counting the NUL.

### Request

An action per allocation or option: `Call` (clear the error, build the URL),
`InitHandle`, `AddAccept`, `AddContentType`, `SetOptions`, `AddToken`,
`AddBasic`, then the transfer (`Answer`, `Chunk`, `Complete`, `Break`,
`TooLarge`, `TimeOut`) and `Conclude`, which releases and maps the outcome to a
code and a message. `faults`, fixed in each history, is one of `FaultSets` and
names the allocations that may fail: all of them (`Sites`) or those whose
failure the code reports (`Reported`). `NoLeak`, `CredentialsOnWire` and
`OversizeMeansOversize` are about histories of the second kind, and section 5
says why. A body is its length; a header list is its first line, so that appending to NULL makes a new
list, as libcurl does.

### ClientApi

A block is named after the field of the handle that points at it; `heap` is what
is allocated and `fields` the pointers that are set. `Connect` is the three
constructors with any of their allocations failing; a call is `Enter`, `Build`
(write the path or body from the arguments), `DoRequest` and `Decode`, or
`Refuse` for a missing argument and `CommitNothing` for an empty batch.
`Frees` says which buffers a call gives up at which of those steps: the error
and the reply of the last call when the request starts, the buffers it decodes
into when the reply is there, and nothing before its arguments have been read.
That order is what allows `mongreldb_count(c, names[0], ...)`, or a status
polled with the `query_id` of the last status. `lent` is what the application
was handed since the last call began, `into` the blocks it points into, and
`readable` what of it is still allocated. `Borrow` knows only `lent`, `readable`
and whether a call runs.

### QueryDecode

A row is the sequence of items the code consumes from left to right (fields,
the bracket of a `cells` array, pairs), and `item` is the cursor. A block is a
buffer's name and a generation that changes when `realloc` moves it; a pointer
is a generation and an index; the contents of a buffer, `at`, are a function of
the 0-based indices the code writes at. `Query` frees the five buffers and
starts them from nothing (`Reset`). `Row` opens a row, and `Sum` is the loop
that adds up the cells of the rows before it into `total_cells`, one row a step.
`Field` and `Pair` consume the row, `GrowOffs`, `GrowRows` and `GrowStarts` make
room (`Pair` itself does for the cell), `Scalar` is `parse_scalar_into`,
`Record` stores the row and where its cells start, and `Resolve` rebases the
pointers. The call may leave at each place where a token is refused and at each
`realloc`.

### TableNames

The same generations and offsets, with one array and one blob: `Call` resets
both, `Item` appends a name, `Grow` and `GrowLast` make room for its offset and
for the NULL at the end, `Store` records the offset, `Resolve` makes pointers of
them, `Close` is `mongreldb_close`. `names_cap` (`cap`) is changed before the
`malloc` or `realloc` it announces, as the code does.

### StatusDecode

A field is a path (`durable`, `serialization`) and a reply is the set of paths
it has, so that any object and any field may be absent. `Script` is the order of
the code's lookups, in the status itself, then in `outcome`, then in `durable`;
`CopyString`, `ReadFlag`, `ReadHlc` and `ReadObject` are one lookup each, and
`Resolve` turns offsets into pointers. `Got` is what a lookup returns, which is
1 for an absent member of an object that has others; `CommitHlc` and
`SerializationState` are the accessors. A timestamp may be absent, empty, or
without `physical_micros`: the guard of `parse_commit_hlc` (2271) lets the last
of these through, for the same reason, and it is given out with 0 for its time.
`CommitHlcIsReal` compares what is given out with what `mongreldb.h:166-167`
promises (`Promised`), and says that they differ exactly when such a timestamp
comes before any real one (`Shadows`). `RepliesAssumption` says only that the
object a path leads through is there; `NullAssumption` that `NULL` is none of the
values it is told from. A value of the wrong kind needs no case of its own: the
lookup of its name passes over it, as over a member with another name.

### JsonText

One action is one turn of a loop. `Stage` takes a string of the application;
`Escape` is the loop of `json_escape` (169), which appends what is `Spelled` for
the next character, and `EscapeEnds` its closing quote, with the rest of the
document behind it. `Hear` is a reply the daemon writes by itself, in which
escapes may be cut or broken. `Find` is the loop of `jp_string` (430), which
ends at the closing quote (`end`) or fails, and `Decode` the loop of
`parse_scalar_into` (904), which `json_get_string` has again (600). `raw` is
what follows the opening quote and `at` the cursor of the loop that runs, from 1,
where the code counts from 0. `Read` and `HexNumber` are `strtoul` in base 16 on
four bytes, with leading space, a sign and `0x`. `Meant` is the reference: what
the bytes of a reply spell by RFC 8259, and where.

### JsonWalk, RequestBody, UrlPath and NumberText

Pure algorithms, checked on every input of a bounded size: one action extends
the input by a token or a byte. Names and numbers are inputs of run
`json_text`: `PathNamesIt` takes each string that was staged for a name,
`NumberIsRead` each reply for a number.

`Walk` of `JsonWalk` is `jp_value` and the loops of `jp_array` and `jp_object` as
one function of what runs and where: `Step` says where it leaves the cursor,
given where the calls it makes leave theirs. `Get` is the four lookups, with
`Look` for one turn of their loop over the members. The reference is JSON's
grammar: `Derives` says when a span of the tokens is a value or the inside of an
array or object, given the shorter spans, and `Spans` collects them by their
length. It never says in which order tokens are looked at, or by whom.

`RequestBody` writes a request, a record with the field names of `mongreldb.h`,
as the sequence of tokens of its body; `JsonWire` posts one request, or hears
one reply. `AnyRequest` are the requests that the structures of the header allow
(with `Maybe` for a pointer that may be NULL), and `RequestAssumption` says that
raw JSON is JSON, as the header asks. A piece of an index with settings in it is
`Printed`: `json_serialize_index` writes it to `char number[96]` first (325), and
`AnnSize`, `DiskannSize` and `ProductSize` are the lengths of the three texts that
can be too long for it, the constant part counted (two settings of a
`minhash` or `ivf` index fit with 20 digits each, and so do the rest). What
`snprintf` leaves out ends in a bracket or a colon, so that a text that was cut is
the token `Unknown`, of which no JSON can be made. `CanBeSaid` are the requests
without such a setting and without a bound that is NaN or infinite. `BodyIsJson`
asks of the body of each of them, and of no other, that it is one value from its
first token to its last, by `ValueEnd`, of which `WalkIsGrammar` says that it goes
by the grammar; and
`BodySaysAll` builds the value they spell (`Tree`) and compares it with what
`mongreldb.h` says the fields of the request mean (`Meant`): all of a commit or
a query, and of a table its columns' defaults, of which three can be given and
one may be sent. The reference has `lo_inclusive` and `hi_inclusive` under the
names of the header, absent when a bound is included, which is their default
(368); the code reads neither (1779-1788). The property says that what is found
is what was asked for exactly when no range leaves out a bound it sets
(`LeavesOut`), and that it is else what the same ranges with their bounds mean.

`UrlPath` builds the paths of the five calls that name a table or a query.
`MCJsonText` reads a path back as libcurl and a server do: without its query,
without the segments `.` and `..` (libcurl removes them, since
`CURLOPT_PATH_AS_IS` is not set), split at slashes and with its escapes undone.
`PathNamesIt` says that exactly the names without a slash that are not `.` or
`..` come back as one segment where the route has it.

`NumberText` copies the text of a number into its buffer, where it may be cut,
and converts the copy; `strtoll` is external. `NumberIsRead` compares that with
the grammar of numbers and the nearest integer there is. That the buffer holds
more digits than any 64-bit integer (`NumberAssumption`) is what it rests on.
`Value`, the value of the digits that end at a byte, is common to `strtoll` and to
the reference: what is compared is the copy, whole or cut, and how it is converted.

### CommitBody and TxnRetry

A body is a sequence of pieces: an operation, a key, and each bracket, comma and
label around them. When memory runs out for some of them, what is sent is a
subsequence, since `mongreldb_commit` ignores the result of each append. `Says`
is when a daemon understands a body as a given transaction, and `Reads` the
transactions it may take it for. `TxnRetry` has the calls of each
client (`Commit`, `Receive`, `TimeOut`), the wire, and a daemon that applies a
batch with its key atomically, replays known keys, refuses with 409, fails
with 503 and crashes.

## 3. What the runs show

| Run | Bounds | Result |
|-----|--------|--------|
| `sbuf` | 3-bit `size_t`, at most 6 bytes per block, first capacity 1 | memory safety, termination, no wrap, all-or-nothing appends |
| `request` | cap 2, bodies of 0, 2, 3 bytes, a status per branch; every allocation may fail, or those whose failure the code reports | complete answers only, the cap, error state, every call returns; in the second case no leak, credentials on the wire, "exceeds" only over the cap |
| `client_api` | one handle after another, all 15 kinds of call, any borrowed argument, all allocations failing or all but the copy of the base URL | loans hold until the next call, arguments are read in time, no block is lost or freed twice |
| `query_decode` | replies of up to 3 rows, first capacities 1, five failing reallocs | faithful results, indices in bounds, no leak |
| `table_names` | replies of up to 4 names, first capacity 1, every allocation may fail | the names are the reply's, indices in bounds, no leak |
| `status_decode` | 3 timestamps, each absent, empty, without its time or with it, and all subsets of 5 strings, empty or not, memory short or not | strings survive, the promised timestamp unless one without its time shadows it, the durable object first |
| `json_walk` | tokens of two names, up to 9 tokens; some 5000 requests with each optional field there and not there, lists of 0, 1 and 2 | the walker is the grammar; a lookup finds its own first member; a body is JSON and says what was asked for, but for ranges that leave out a bound |
| `json_text` | 7 bytes: strings of up to 3 and three tails, replies of up to 6 and a closing quote or of up to 4 with quotes anywhere, and a `\u` escape with any two digits and a byte behind it; names of up to 4 of 6 bytes that mean something in a URL; numbers of up to 5 of 7 bytes, with a buffer of 4 and integers of 4 bits | round trip, decoding fits, any spelling is read; which names a path can carry; integers of any length read as the nearest |
| `txn_retry` | 2 clients, one intent of 2 operations, 2 open exchanges each, 1 crash | whole batches, exactly once, the loop ends |

Three runs refute what the repository says of itself (`PROJECT.json`, findings):

* `json_absent`: the lookups return 1 for a field that is not there (646, 717,
  780, 865: `return ch == '}'` after the last member), so `committed_set`,
  `retryable_set`, `durable_set` and `present` are set for absent fields.
* `client_untold`: a refused argument, a reply that cannot be decoded and memory
  that runs out while decoding leave the last error of an earlier call, or none
  (1561, 1935, 1487, and most other argument checks).
* `txn_torn`: lost appends make a well-formed shorter batch, which is committed
  and confirmed.

### Why the bounds are enough

Three bits of `size_t` contain every relation of `len`, `extra`, `SIZE_MAX` and
the doubled capacity, and `SbufProofs` removes the bound. In `Request` no
decision depends on a length beyond the comparison with the cap, and one body
above, at and below it is there. First capacities of 1 make `QueryDecode` double
each buffer within three rows. Four names make the array of `table_names`, which starts with
one entry, double twice and end full, and three leave room in it. The proofs remove the
bounds of `Request`, `QueryDecode`, `TableNames`, `StatusDecode`, `ClientApi`,
`TxnRetry`, `JsonText`, `NumberText` and `JsonWalk` (section 4). In `status_decode` the fields that take no part in an accessor's
choice are all read the same way, so each choice varies its own fields and the
others come along in a few combinations. `json_walk` needs nine tokens for a nested object that repeats
a key, and `json_text` six bytes for a whole `\u` escape and one beside it; the
byte `b` is both an escape letter and a hex digit, and of the control characters
one has a letter and one has none. A comma or bracket of a body can only go wrong
between two neighbours, so lists of up to two elements, each kind of element
first and second, are enough; and a name of four bytes holds an escape that was
already there (`%2` and a digit) beside a slash or a dot. In `client_api` a
buffer is one block and a call any mixture of outcomes, so one call before, one
with a borrowed argument and one after already share every buffer; the run has
no bound on their number. Two clients sharing one key, each with a stale
and a current exchange, are the smallest instance in which a delayed request
races the retry that replaced it and another caller. `MaxLen`, `Slots` and
`MaxCrashes` are bounds of the models, not of the code. `Slots` never blocks a
client for good: a lost or answered exchange nobody waits for is discarded.

`CHECK_DEADLOCK FALSE` is said where the system stops: an input that reached its
bound, a string that was decoded or not found, and clients that were all told.

### Fairness

`Sbuf`: a call that was entered runs on. `Request`: the code runs on and
libcurl's timer fires (`CURLOPT_TIMEOUT` is set on every request, 1072); the
daemon and the network owe nothing. `TxnRetry`: the same for the client; of the
outside it is assumed, and has to be, that a stopped daemon restarts, that
exchanges end, and that a client that keeps asking is served and answered
eventually (strong fairness of `ProcessCurrent` and `ReceiveProcessed`). The loop
retries for ever; the loop of `docs/errors.md` gives up after three attempts and
then knows nothing, which is the state `result = "none"`. Which intents violate a
constraint is fixed from the start: without that, "conflict" would not be final.

## 4. What is proved

`SbufProofs` proves for every `SizeMax`, `MaxAlloc`, `InitCap`, byte set and
payload set that satisfy `SizesAssumption` and `BytesAssumption`
(the allocator's limit is below `SIZE_MAX`, as for every C object):

* `TypeCorrect`, `MemorySafe`, `AlwaysTerminated`, `CapacityCorrect`:
  the invariants of run `sbuf`;
* `GrowthMonotone`: the doubling loop never wraps;
* `ImplementsByteString`: the refinement of `ByteString`.

The inductive invariant is `IInv == TypeOK /\ BufferOK /\ LocalsOK /\ ContentsOK`.
`TypeOK` alone is not inductive for memory safety: between `Measure` and `Write`
one must know that `need` is the sum without a wrap and that `cap` covers it
(`LocalsOK`), that the recorded capacity is the block's size and within the
allocator's limit, so that the guard's own subtraction cannot wrap (`BufferOK`),
and that a NUL follows the contents between the statements too (`ContentsOK`).
Lemma `GuardExact` is the arithmetic core: the guard lets a request pass only if
its sums are exact. `InitInv` and `NextInv` are the induction, one step per
action; the refinement is one lemma per kind of step.

`TableNamesProofs` proves for every set of names and of replies, every first
capacity above 0 and every set of failing allocations (`NamesAssumption`):
`NamesAreFaithful`, `WritesInBounds` and `NothingLeaks`, the invariants of run
`table_names`. The inductive invariant adds to them a type invariant and

* `CapacityOK`: `names_cap` is the size of the array while a call runs. It is
  false between calls, after a `realloc` that failed, which is why the invariant
  says it only of a running call and why the reset at 1346 is needed: with it
  left out, TLC finds the write outside the array;
* `DecodedOK`: the blob holds the first `read` names, and the array their
  offsets, which `Resolve` turns into the pointers of `NamesFaithful`;
* `HeapOK`: what is allocated is the array and the blob and nothing else.

Lemma `GrownShape` says what `realloc` keeps, `ResizeInv` that a growth of the
array preserves the invariant whether it succeeds or not; `Grow` and `GrowLast`
both use it.

`ClientApiProofs` proves for every set of public calls and every set of failing
allocations, and needs nothing of `ClientAssumption`:
`ArgumentsRead` and `BlocksAreOwned`, the invariants of run
`client_api`, and `LendsAsPromised`, the refinement of `Borrow`. The inductive
invariant adds to the two invariants

* `LoansOK`: between calls all that was lent can be read, during a call nothing
  is lent. An argument is taken from what was lent, so `Enter` would otherwise
  accept one that is gone already;
* `HandleOK`: the handle is not one of its own pointers, and without a handle
  there is no pointer and no call. Ownership needs it where a block is replaced
  (`ReplaceOwns`) and where a constructor starts from nothing.

`OwnsItsBlocks` keeps its condition on the copy of the base URL: without it the
formula is false of the code (section 5). The refinement is one lemma per kind of step:
`Connect` and `ResultFree` are invisible, a refused, an empty and a closing call
are `ReturnAtOnce`, the steps of a longer call are `Begin`, `Run` and `Return`,
and `last_error` is `Look`.

`RequestProofs` proves for every cap on a reply, every set of bodies, statuses,
credentials and time limits and whichever allocations may fail
(`RequestAssumption`) all seven invariants of run `request`: `TypeCorrect`,
`BufferStaysBounded`, `CompleteAnswers`, `ErrorsMatch`, `OversizeIsReal`,
`NothingLeaks` and `CredentialsSent`. The inductive invariant is

* `TransferOK`: what was received and what is left of the reply add up to the
  reply, and what libcurl says of the transfer is true of it. Without that,
  `Conclude` could call a cut reply complete;
* `OutcomeOK`: there is no error while a call runs, since `Call` clears it, and
  afterwards the one that was returned;
* `ListOK`: as long as only those allocations fail whose failure the code
  reports, there is one header list, libcurl is given its first line, and it is
  all that is allocated beside the URL and the handle. `NothingLeaks` and
  `CredentialsSent` follow from it, under the condition their formulas state and
  section 5 explains.

`TxnRetryProofs` proves for any number of clients, batches, exchanges and
crashes (`RetryAssumption`) `TypeCorrect`, `AppliedWhole` and
`ImplementsExactlyOnce`, the refinement of `ExactlyOnce`. The last two have
hypotheses. `~Tears` says that the appends of a body find memory; run `txn_torn`
shows that nothing like it holds otherwise. `Keyed` says that every commit has a
key and no two share one, which `docs/transactions.md:96` asks of an application
that retries; callers that share an intent, and so its key, are still allowed. The
invariant, in which each part needs the others, is

* `WireTrue`: what is on its way is the whole body of its client's intent, or an
  answer that is true for ever: 200 only if the key was applied, 409 only if the
  batch violates a constraint. It is what makes a delayed answer harmless;
* `ToldTrue`: so is what a client was left with;
* `LogWhole` and `KeysOnce`: each entry of the log is some intent's whole batch,
  and no key is there twice.

Lemmas `BodyShape` and `ReadsWhole` say that bodies are unambiguous: the daemon
reads a whole body as the one transaction it was made from. `AppliedCount` turns
`KeysOnce` into the count that `ExactlyOnce` keeps. `Process` may map to
`Commit` and `Receive` to `Tell`; every other step, crashes, losses and retries
included, is a stutter.

`StatusDecodeProofs` proves for every set of replies (`RepliesAssumption`,
`NullAssumption`) `StringsAreFaithful`, `CommitTimestampIsReal` and
`DurableIsFirst`, the invariants of run `status_decode`. The inductive invariant
adds `CopiedOK` (an offset leads to the string it was recorded for, wherever the
blob is now), `DoneOK` (each lookup that was done left what the reply has) and
`HlcsReal` (no timestamp is reported that is not there). `CommitTimestampIsReal`
rests on lemma `HlcsAre`: an object's timestamp is reported if and only if it has
members, whichever they are. The core of the proofs is lemma `ScriptIs`, which
says which lookups the 43 of `Script` are.

`QueryDecodeProofs` proves for every set of replies, every two first capacities
above 0 and every set of failing reallocs (`DecodeAssumption`)
`RowsAreFaithful`, `WritesInBounds` and `NothingLeaks`, the invariants of run
`query_decode`. The inductive invariant adds

* `BuffersOK` and `ShapeOK`: what was written to a buffer is inside it, and the
  cursor is inside the row where the program is in one;
* `CountsOK`: the locals count what the code means by them: `total_cells` is
  where the last row ends plus the cells of this one, and `cells_in_row` the
  pairs read so far;
* `RowsOK`: each row starts where the one before ends (`End`), and every index
  below has been stored in both cell buffers. This, and not the two capacities,
  is why `Resolve` never reads a cell or an offset nobody wrote;
* `DecodedRows` and `DecodedItems`: of each row recorded, and of the row at the
  cursor, every pair is kept: the cell holds its column and kind, and its number,
  or an offset at which the blob holds its text.

The place of a pair among the cells of its row, `Rank`, is the size of a set and
not a recursive count, so that lemmas `RankStep` and `RankOfPair` follow from
the theorems on finite sets. `Roomy` and `RoomFor` show that doubling once is
always enough, so that the inner loop of the code (2052, 2072, 2155) never turns;
`Moved` that `realloc` loses no block; `Framed` that a step which only adds to
the buffers disturbs nothing that was decoded.

`JsonProofs` proves, of `JsonText`, for every string, every tail of a document and
every reply, of any length and of any bytes (`TextAssumption`),
`StringsRoundTrip`, `DecodingFits` and `SpellingsAreRead`. Each loop is an
induction over its turns. The inductive invariant is

* `ShapeOK`: the cursor of the running loop is inside its text, or one behind it;
* `DecodeFits` itself: each turn of the decoder moves on by at least as many
  bytes as it writes, and by no more than there are before the quote;
* `SpelledOK`: of a string that was staged there is a function `first`, where the
  spelling of each character starts in the document. `jp_string` is always at one
  of those places or inside a `\u` escape behind its `u` (`Finding`), so that it
  never takes an escaped quote for the closing one; the decoder is always at one
  of them and has decoded the characters before it (`Decoding`).

`Spellings` says that a character is spelled in one of three ways, each of which
the decoder turns back into it; `StepOver` and `DecodesOn` are one turn of each
loop, and `Place` finds the bytes of one spelling in the document.

For `SpellingsAreRead` it is not enough: how a daemon spells a string is not known
beforehand. `MeantOK` speaks of what is left instead: of each string that the
whole reply may spell, the bytes from the cursor on spell a rest, up to the same
quote, and that rest and what was decoded make the string. A turn of `jp_string`
that skips one or two bytes of a `\u` escape is in the middle of a character, so
`FindsRest` allows for the bytes of one that are left. `Meant` is a recursive
function; `MeantMeans` proves its equation.

Of `NumberText` it proves `NumbersAreRead` for every size of the buffer and every
limit of an integer with `NumberAssumption`: if the number is cut, what is left
has a first digit above zero and as many more as the assumption speaks of, so that
it is beyond the limit already, as the whole number is (`LongIsBig`), and both are
clamped alike; if it is not, `strtoll` reads all of it (`StrtollReadsAll`), and
clamping is what `Nearest` says (`ClampIsNearest`).

Of `JsonWalk` it proves, for every set of names and of numbers and replies of any
length (`WalkAssumption`), `WalkerIsGrammar` and `LookupsFindFirst`. There is no
inductive invariant here but that a reply is a sequence of tokens (`Hearing`): the
two say something of every sequence. The argument is

* `Recursion`: a function that is defined by recursion is one if each of its values
  needs only values of a lower rank. It is itself proved by induction, in the form
  that the library has it for sets (`WFMin`): every set of naturals has a least
  element (`Least`, `Induct`, `ByRank`);
* `WalkSteps`: `Walk` is what `Step` says, and moves forward, by `Recursion`: a call
  starts behind its caller, or at the same token and then it is a value in a loop
  (`Rank`);
* `SpanRule`: `Spans` has exactly what `Derives` says, given all of `Spans`, since a
  part of a span is shorter than the span;
* `WalkParses`: for one start the walker's end is the one end of the grammar, from
  the last token to the first (`ByRank`). The grammar is deterministic, which is
  what `LoopParses` and `OpenParses` use: a value that goes on has a comma or a
  bracket behind it, and none begins with a closing bracket (`NoneBegins`);
* for a lookup, `AllNested`: a walk that starts inside a value, at one of its keys,
  stays inside it, so that a member list which ends where the object ends (`Own`)
  starts at one of the object's own members and not at one of a nested object; and
  `AllFind`, by `ByRank` again: the turns at the object's members find the first.

Of `RequestBody` it proves `BodiesAreJson` for every set of numbers, names and raw
JSON with `RequestAssumption` and all requests of `AnyRequest`: any number of
columns, indexes, operations, cells and conditions, with any of their optional
fields. (The replies of `JsonWire` are those of `JsonWalk`: `WireWalks`.) A body is
judged where it stands, `Stands`, in a longer text, by how far it takes the
walker's cursor:

* `Whole`: over one value, to the token behind it. `OpenObject` and `OpenArray`:
  into an object or array, to where its next member or element may begin or its
  bracket may close it. `Members`: what an open object stays one with. Each helper
  of `RequestBody` has a lemma that says which of these it makes out of which
  (`ObjectOpens`, `MemberIsMore`, `MembersGiven`, `MembersJoin`, `ObjectCloses`,
  `ArrayOpens`, `ArrayGoesOn`, `ArrayCloses`), and so each call has one, which
  follows its code from bracket to bracket (`ColumnIsWhole`, `IndexIsWhole`,
  `ConditionIs`, `OpIsWhole`, `BodyIs`);
* `ListIsWhole`: a list is whole however long it is, by induction over the turns of
  its loop (`ListLoops`, which is `Stepwise` again);
* `RawIsWhole`: JSON of the application, of which only is assumed that the walker
  accepts it by itself, is accepted alike inside a body, since the walker looks at
  no token in front of its start and one behind its end at most (`AllShifted`);
* `BrokenIsNoValue`: a text with `Unknown` in it is no value, since the walker's
  cursor passes no such token (`AllKnown`), for the other direction.

Model-checked only are

* `CallsReturn` and `Settles`: liveness under fairness;
* `BodySaysAll`: `Tree`, which reads a body for the comparison, is a recursive
  operator, which no module with a theorem may reach;
* `PathNamesIt`: both `url_path_encode` and how a URL is read are folds over the
  bytes.

## 5. Seen while modelling, not run

* An allocation failure in `write_cb` looks to libcurl like a refused chunk and
  is reported as `MDB_ERR_QUERY` "exceeds" (1012, 1135-1144); one in
  `parse_scalar_into` is reported as `MDB_ERR_JSON` (897). `docs/errors.md` lists
  `MDB_ERR_NOMEM`.
* When the append of `Accept` fails, `CURLOPT_HTTPHEADER` is given NULL, the
  bearer token is appended to a list that libcurl was never given (1106), and
  the request leaves without it: `CredentialsOnWire` fails with `"accept"` among
  the faults of `Request`, though the comment at 1103 says libcurl sees the
  header.
* A failed append of `Content-Type` overwrites `headers` with NULL and leaks the
  list (1064): `NoLeak` fails with `"ctype"` among the faults.
* A 5xx message that starts with `not found:` becomes `MDB_ERR_NOT_FOUND` (1026);
  the table of `docs/errors.md:72` says `MDB_ERR_QUERY`.
* A 2xx body that is no JSON object is an empty result (1923), and one that is no
  array an empty table list (1350), though `SECURITY.md:34` says malformed input is
  rejected.
* A `\u` escape above ASCII is dropped (922), `\u0000` ends the C string, and
  `mongreldb_table_names` returns names with their escapes (1369).
* `connect` leaks the block of `error_msg` when the URL cannot be copied (1250):
  `OwnsItsBlocks` fails with `"base_url"` among the faults of `ClientApi`, and
  says so in its condition.
* Pieces of a URL or path that cannot be appended are left out (1048, 1565): a
  long name could lose its tail.
* `mongreldb_table_names` counts names before it can return them (1395): after
  `MDB_ERR_JSON` or `MDB_ERR_NOMEM` the count is above zero and the array NULL.
* A string of a status for which there is no memory is NULL and the call still
  returns `MDB_OK` (798), so that with memory short
  `mongreldb_query_status_serialization_state` may answer from `outcome` although
  `durable` says something else; `DurableSpeaksFirst` is about the other case.
* `lo_inclusive` and `hi_inclusive` of a range (`mongreldb.h:368-369`) are not sent
  (1779-1788): a range that is to leave out a bound is posted as one that includes
  it, and `BodySaysAll` says that this is the only difference. The documents do not
  agree either: `mongreldb.h:353` and `docs/queries.md:68` call the bounds
  inclusive, the examples there leave both fields 0, and `mongreldb.h:368` says that
  the default is 1. Nor are `pq_num_subvectors` and `pq_bits` of a
  product-quantised index sent (371-379), nor is `int_set` looked at (1749).
* A `last_commit_hlc` with members but no `physical_micros`, such as
  `{"logical":1}`, is given out with `present` set and 0 for the time (2271-2281),
  although `mongreldb.h:166-167` says that `present` means that `physical_micros` was
  parsed; in `durable` it hides the real timestamp of `outcome`. The lookup of the
  absent field returns 1 (717), as run `json_absent` shows. `CommitHlcIsReal` says
  that this happens, and nothing else does.
* A bound of a range that is NaN or infinite is sent as `nan` or `inf` (1781,
  1786), which is no JSON; the comment at 207, on values, says that invalid JSON
  is never produced. `BodyIsJson` says exactly this.
* The settings of an index are printed to 96 characters (325), which is enough for
  their defaults and for any two numbers of 20 digits, and not for three: the text
  of a product-quantised index with large `pq_training_samples`, `pq_seed` and
  `pq_rerank_factor` is cut (375), and so are those of `ann` (342) and `diskann`
  (360). Nothing looks at what `snprintf` returns, and what is sent is no JSON. In
  `json_walk` one text fills the buffer exactly and one is too long by one.
* `/`, `.` and `..` in a table name or query id are not escaped (1218), although
  the comment at 1214 speaks of a path segment: `mongreldb_drop_table` of such a
  name deletes another resource, as `PathNamesIt` says.
* `mongreldb_commit` with no operation returns `MDB_OK` and leaves the last error
  as it was (1668), though `docs/errors.md:22` says that `MDB_OK` clears it.
* `mongreldb_history_retention_get` accepts a reply without one of its fields,
  and gives 0 for it (1485): the lookup of an absent field returns 1.
* A field with an exponent, such as a count of `1e3`, is read as `1`, since
  `json_get_number` uses `strtoll` (704); an epoch above `INT64_MAX` is read as
  `INT64_MAX`, although the header's type is `uint64_t`; and a double of 64
  characters or more may lose its exponent (951-956).
* After a query that failed behind its first row, `count` is above zero and
  `rows` may point at a block that was freed (2169).

## 6. Not modelled

* The rounding of `strtod` and the digits of `%.17g`: a double is its text.
* A path or URL that loses pieces because an append failed (1048, 1565): in
  `UrlPath` every append succeeds. `CommitBody` has this fault for a commit,
  where what is left may still be a batch.
* The stack depth of `jp_value` (533).
* Recovery of a lost reply by polling a status: `mongreldb_sql` neither sends nor
  returns a query id, so no call of this client starts what
  `mongreldb_query_status_get` could be asked about.
* The two ABI headers, which only declare; libcurl's inside; the daemon beyond
  what a commit needs.

## 7. Plan

Done, in this order: `Sbuf` with its proofs (everything else rests on it),
`Request`, `QueryDecode`, `TxnRetry` with `ExactlyOnce`, `JsonWalk`, `JsonText`,
`TableNames` with its proofs, `StatusDecode`, `ClientApi` with `Borrow` and its proofs,
`RequestBody` and `JsonWire`, `UrlPath`, `NumberText`. Then the proofs of
`Request`, `TxnRetry`, `StatusDecode` and `QueryDecode`, of `JsonText` as a machine,
of `JsonWalk` and `NumberText` as functions, and of `RequestBody`.

Left:

* `ClientApi` with the decoders in the place of its step `Decode`: which of its
  buffers a failed decoding leaves set is so far chosen freely, which allows more
  than the code does.
