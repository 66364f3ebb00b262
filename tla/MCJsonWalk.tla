----------------------------- MODULE MCJsonWalk -----------------------------
(* All replies of a few tokens, against the grammar of JSON written down   *)
(* as it is in RFC 8259: what may be a value, not how to walk over one.    *)
(* And requests with each of their fields there and not there, against     *)
(* what a reader of their bodies should find.                              *)
EXTENDS JsonWire, SequencesExt

(* Bound: a reply is extended up to its end or its first error, which the  *)
(* tokens read so far decide.                                              *)
Closed(stack) == [open |-> stack, want |-> IF stack = << >> THEN "end" ELSE "next"]

Read(s, token) ==
    LET into(bracket, want) == [open |-> << bracket >> \o s.open, want |-> want]
        error == [open |-> << >>, want |-> "error"]
    IN  CASE s.want \in {"value", "first"} /\ token \in Scalars -> Closed(s.open)
          [] s.want \in {"value", "first"} /\ token = "[" -> into("]", "first")
          [] s.want \in {"value", "first"} /\ token = "{" -> into("}", "firstkey")
          [] s.want \in {"key", "firstkey"} /\ token \in Names -> [s EXCEPT !.want = "colon"]
          [] s.want = "colon" /\ token = ":" -> [s EXCEPT !.want = "value"]
          [] s.want = "next" /\ token = "," ->
               [s EXCEPT !.want = IF s.open[1] = "]" THEN "value" ELSE "key"]
          [] /\ s.want \in {"next", "first", "firstkey"} /\ token = s.open[1] ->
               Closed(Tail(s.open))
          [] OTHER -> error

Unfinished ==
    FoldLeft(Read, [open |-> << >>, want |-> "value"], reply).want \notin {"end", "error"}
-----------------------------------------------------------------------------
(* The requests: every alternative and every default of each structure,    *)
(* alone and beside another.                                               *)
MCInts == {-1, 0, 1, 2, 7, 10000000, 100000000, 2147483647} \cup Defaults

Raw == << "{", "k", ":", "1", "}" >>

Values == [tag : {"bool"}, v : BOOLEAN]
          \cup [tag : {"int64"}, v : {1}] \cup [tag : {"double"}, v : {2, NotFinite}]
          \cup [tag : {"string"}, v : Maybe({"x"})] \cup [tag : {"json"}, v : Maybe({Raw})]
          \cup [tag : {"null"}, v : {NULL}]

CellLists == BoundedSeq([column_id : {1}, value : Values], 2)

PutOps == [type : {"put"}, table : Maybe({"t"}), cells : CellLists]
UpsertOps == [type : {"upsert"}, table : {"t"},
              cells : {<< [column_id |-> 1, value |-> [tag |-> "int64", v |-> 1]] >>},
              update_cells : BoundedSeq([column_id : {2}, value : Values], 1)]
DeleteOps == [type : {"delete"}, table : {"t"}, row_id : {7}]
             \cup [type : {"delete_by_pk"}, table : {"t"}, pk_value : Values]

Txns == [call : {"commit"}, idempotency_key : {NULL, "", "x"},
         ops : {<< o >> : o \in PutOps}
               \cup {<< o, p >> : o \in UpsertOps, p \in DeleteOps}]

Conditions ==
    LET some == [kind |-> "pk", column_id |-> 1, str_value |-> NULL, int_value |-> 0,
                 int_set |-> FALSE, lo_set |-> FALSE, hi_set |-> FALSE, lo |-> 0, hi |-> 0,
                 lo_inclusive |-> TRUE, hi_inclusive |-> TRUE, condition_json |-> NULL] IN
    {[some EXCEPT !.str_value = "x", !.lo_inclusive = FALSE],
     [some EXCEPT !.int_value = 7, !.int_set = TRUE],
     [some EXCEPT !.kind = "range", !.hi_set = TRUE, !.hi_inclusive = FALSE,
                  !.condition_json = Raw],
     [some EXCEPT !.condition_json = << >>],
     [some EXCEPT !.condition_json = Raw], [some EXCEPT !.kind = "?"]}
    \cup {[some EXCEPT !.kind = k, !.str_value = s] :
             k \in {"bitmap_eq", "fm_contains", "is_null", "is_not_null"}, s \in Maybe({"x"})}
    \cup {[some EXCEPT !.kind = "range", !.lo_set = l, !.hi_set = h, !.lo = x] :
             l \in BOOLEAN, h \in BOOLEAN, x \in {1, NotFinite}}
    \cup {[some EXCEPT !.kind = "range", !.lo_set = l, !.hi_set = h, !.lo = 1,
                       !.lo_inclusive = low, !.hi_inclusive = high] :
             l \in BOOLEAN, h \in BOOLEAN, low \in BOOLEAN, high \in BOOLEAN}

Queries ==
    LET ask(conditions, limits) ==
          [call : {"query"}, table : {"t"}, conditions : conditions,
           projection : {<< >>, << 1, 2 >>}, limit : limits, offset : limits]
    IN  ask(BoundedSeq(Conditions, 1), {-1, 0, 5}) \cup ask(BoundedSeq(Conditions, 2), {0})

Columns ==
    [id : {1}, name : {"x"}, ty : {NULL}, primary_key : {TRUE}, nullable : {FALSE},
     enum_variants : {<< >>, << "x", NULL >>}, default_expr : Maybe({"x"}),
     default_value_json : Maybe({<< "1" >>}), default_value : Maybe({"t"}),
     embedding_source_json : Maybe({Raw})]

(* With these, 95 characters fill the buffer, and one more is too many.    *)
Long == {10000000, 100000000}

Indexes ==
    LET some == [name |-> "x", column_id |-> 1, kind |-> "BITMAP", predicate |-> NULL,
                 ann_m |-> 0, ann_ef_construction |-> 7, ann_ef_search |-> 0,
                 ann_quantization |-> "BINARY_SIGN", ann_algorithm |-> "HNSW",
                 diskann_r |-> 7, diskann_l |-> 0, diskann_beam_width |-> 0,
                 diskann_alpha |-> 0, ivf_nlist |-> 0, ivf_nprobe |-> 7,
                 pq_num_subvectors |-> 0, pq_bits |-> 7,
                 pq_training_samples |-> 7, pq_seed |-> 0, pq_rerank_factor |-> 0,
                 minhash_permutations |-> 0, minhash_bands |-> 7,
                 learned_range_epsilon |-> 0] IN
    {[some EXCEPT !.kind = k, !.predicate = p] : p \in Maybe({"x"}),
        k \in {"BITMAP", "FM", "LEARNED_RANGE", "MIN_HASH", "SPARSE", "?"}}
    \cup {[some EXCEPT !.kind = "ANN", !.ann_algorithm = a, !.ann_quantization = q] :
             a \in {"HNSW", "DISKANN", "IVF", "?"}, q \in {"BINARY_SIGN", "DENSE", "PRODUCT"}}
    \cup {[some EXCEPT !.kind = k, !.ann_quantization = q, !.pq_training_samples = 2147483647,
                       !.pq_rerank_factor = n] :
             k \in {"ANN", "SPARSE"}, q \in {"DENSE", "PRODUCT"}, n \in Long}

Tables ==
    LET plain == CHOOSE c \in Columns : TRUE IN
    [call : {"create_table"}, name : {"t"}, constraints : {NULL, << >>, Raw}, indexes : {<< >>},
     columns : {<< c >> : c \in Columns} \cup {<< >>, << plain, plain >>}]
    \cup [call : {"create_table"}, name : {"t"}, constraints : {NULL},
          columns : {<< plain >>}, indexes : {<< x >> : x \in Indexes}
                                             \cup {<< x, y >> : x \in Indexes, y \in Indexes}]

MCRequests ==
    Txns \cup Queries \cup Tables
    \cup [call : {"sql"}, sql : {"x"}]
    \cup [call : {"retrieve_text"}, table : {"t"}, embedding_column : {1}, text : {"x"},
          k : {-1, 0, 5}]
    \cup [call : {"history_retention_set"}, epochs : {7}]
    \cup [call : {"cancel_query"}]

NoRequests == {}

MCRawJson == {Raw, << "1" >>}

MCNumbers == {"num", DefaultSeed} \cup {Number(n) : n \in Ints}

MCNames == Labels \cup {"", "t", "x"}

MCHeard == Marks \cup Bools \cup {"k", "m", "num", "null", Unknown}

-----------------------------------------------------------------------------
(* The depth of brackets at a token.                                       *)
Depth(t, i) == Cardinality({j \in 1 .. i : t[j] \in {"{", "["}})
               - Cardinality({j \in 1 .. i : t[j] \in {"}", "]"}})

(* The parts of an array or object that its own commas separate.           *)
Parts(t) ==
    LET cuts == SelectSeq([i \in 1 .. Len(t) |-> i],
                          LAMBDA i : \/ i \in {1, Len(t)}
                                     \/ t[i] = "," /\ Depth(t, i) = 1)
    IN  IF Len(t) = 2 THEN << >>
        ELSE [n \in 1 .. Len(cuts) - 1 |-> SubSeq(t, cuts[n] + 1, cuts[n + 1] - 1)]

RECURSIVE Tree(_)

(* A value: a record for an object, a sequence for an array.               *)
Tree(t) ==
    CASE t[1] = "{" -> LET parts == Parts(t)
                           member(key) == SelectSeq(parts, LAMBDA part : part[1] = key)[1]
                       IN  [key \in {parts[n][1] : n \in DOMAIN parts} |->
                               Tree(SubSeq(member(key), 3, Len(member(key))))]
      [] t[1] = "[" -> [n \in DOMAIN Parts(t) |-> Tree(Parts(t)[n])]
      [] OTHER      -> t[1]

(* What a reader should find, from what mongreldb.h says of each structure:*)
(* a field that is not there is no field of the object.                    *)
Field(key, value) == key :> value
FieldIf(condition, key, value) == IF condition THEN key :> value ELSE << >>

MeantValue(v) ==
    CASE v.tag = "string" -> IF v.v = NULL THEN "" ELSE v.v
      [] v.tag # "string" /\ v.v \in {NULL, NotFinite} -> "null"
      [] v.tag = "json" /\ v.v # NULL -> Tree(v.v)
      [] v.tag = "bool" -> IF v.v THEN "true" ELSE "false"
      [] OTHER -> ToString(v.v)

MeantCells(cs) ==
    [i \in 1 .. 2 * Len(cs) |-> IF i % 2 = 1 THEN ToString(cs[(i + 1) \div 2].column_id)
                                ELSE MeantValue(cs[i \div 2].value)]

MeantOp(op) ==
    Field(op.type,
          Field("table", IF op.table = NULL THEN "" ELSE op.table)
          @@ (CASE op.type = "delete" -> Field("row_id", ToString(op.row_id))
                [] op.type = "delete_by_pk" -> Field("pk", MeantValue(op.pk_value))
                [] op.type = "put" ->
                     Field("cells", MeantCells(op.cells)) @@ Field("returning", "false")
                [] op.type = "upsert" ->
                     Field("cells", MeantCells(op.cells)) @@ Field("returning", "false")
                     @@ FieldIf(op.update_cells # << >>, "update_cells",
                                MeantCells(op.update_cells))))

(* Of a range, mongreldb.h says that a bound that is set belongs to it or  *)
(* not, as lo_inclusive and hi_inclusive say, and that it does by default. *)
MeantCondition(c) ==
    LET text == IF c.str_value = NULL THEN "" ELSE c.str_value
        on(more) == Field(c.kind, Field("column_id", ToString(c.column_id)) @@ more)
    IN  CASE ~Blank(c.condition_json) -> Tree(c.condition_json)
          [] Blank(c.condition_json) /\ c.kind = "range" ->
               on(FieldIf(c.lo_set, "lo", ToString(c.lo)) @@ FieldIf(c.hi_set, "hi", ToString(c.hi))
                  @@ FieldIf(c.lo_set /\ ~c.lo_inclusive, "lo_inclusive", "false")
                  @@ FieldIf(c.hi_set /\ ~c.hi_inclusive, "hi_inclusive", "false"))
          [] Blank(c.condition_json) /\ c.kind = "bitmap_eq" -> on(Field("value", text))
          [] Blank(c.condition_json) /\ c.kind = "fm_contains" -> on(Field("pattern", text))
          [] Blank(c.condition_json) /\ c.kind \in {"is_null", "is_not_null"} -> on(<< >>)
          [] Blank(c.condition_json) /\ c.kind = "pk" ->
               Field("pk", Field("value", IF c.str_value = NULL THEN ToString(c.int_value) ELSE text))
          [] OTHER -> Field("pk", Field("value", "null"))

(* Of the defaults that are given, the one with precedence in mongreldb.h. *)
MeantDefault(col) ==
    CASE col.default_expr # NULL -> Field("default_expr", col.default_expr)
      [] col.default_expr = NULL /\ col.default_value_json # NULL ->
           Field("default_value", Tree(col.default_value_json))
      [] /\ col.default_expr = NULL /\ col.default_value_json = NULL
         /\ col.default_value # NULL -> Field("default_value", col.default_value)
      [] OTHER -> << >>

Meant(r) ==
    CASE r.call = "commit" ->
           Field("ops", [i \in DOMAIN r.ops |-> MeantOp(r.ops[i])])
           @@ FieldIf(r.idempotency_key \notin {NULL, ""}, "idempotency_key", r.idempotency_key)
      [] r.call = "query" ->
           Field("table", r.table)
           @@ FieldIf(r.conditions # << >>, "conditions",
                      [i \in DOMAIN r.conditions |-> MeantCondition(r.conditions[i])])
           @@ FieldIf(r.projection # << >>, "projection",
                      [i \in DOMAIN r.projection |-> ToString(r.projection[i])])
           @@ FieldIf(r.limit > 0, "limit", ToString(r.limit))
           @@ FieldIf(r.offset # 0, "offset", ToString(r.offset))

(* A range that leaves out a bound it sets, and the one that does not.     *)
LeavesOut(c) == /\ Blank(c.condition_json) /\ c.kind = "range"
                /\ \/ c.lo_set /\ ~c.lo_inclusive
                   \/ c.hi_set /\ ~c.hi_inclusive

Inclusive(conditions) ==
    [i \in DOMAIN conditions |->
        [conditions[i] EXCEPT !.lo_inclusive = TRUE, !.hi_inclusive = TRUE]]

(* A daemon that reads the body of a commit or a query finds every         *)
(* operation, cell, condition, limit and key that was asked for, under its *)
(* name and in its order, and nothing else, unless a range is to leave out *)
(* one of its bounds: then, and only then, it finds another query, the one *)
(* whose ranges all include their bounds.  And of a column, it finds the   *)
(* default that mongreldb.h gives precedence, and no other.                *)
BodySaysAll ==
    /\ asked # NULL /\ asked.call = "commit" => Tree(Body(asked)) = Meant(asked)
    /\ asked # NULL /\ asked.call = "query" /\ CanBeSaid(asked) =>
          LET found == Tree(Body(asked)) IN
          /\ found = Meant(asked) <=>
                \A i \in DOMAIN asked.conditions : ~LeavesOut(asked.conditions[i])
          /\ found = Meant([asked EXCEPT !.conditions = Inclusive(@)])
    /\ asked # NULL /\ asked.call = "create_table" /\ CanBeSaid(asked) =>
          LET columns == Tree(Body(asked)).columns IN
          \A i \in DOMAIN asked.columns :
             \A key \in {"default_expr", "default_value"} :
                LET meant == MeantDefault(asked.columns[i]) IN
                /\ key \in DOMAIN columns[i] <=> key \in DOMAIN meant
                /\ key \in DOMAIN meant => columns[i][key] = meant[key]
=============================================================================
