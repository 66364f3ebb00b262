----------------------------- MODULE RequestBody -----------------------------
(***************************************************************************)
(* The bodies that the client posts, as the tokens of JsonWalk: what each  *)
(* public call writes of the structures it is given, which of their fields *)
(* it leaves out, and where it puts commas and brackets.  A string is one  *)
(* token (json_escape is JsonText), and so is a number; raw JSON is given  *)
(* as its tokens and written as it is.                                     *)
(*                                                                         *)
(* A structure is a record with the field names of mongreldb.h.  A pointer *)
(* that is NULL is NULL, and an array is a sequence: the code does not     *)
(* tell a NULL one from an empty one.                                      *)
(***************************************************************************)
EXTENDS JsonWalk, TLC

CONSTANTS
    NULL,
    NotFinite,  \* A double that is NaN or infinite.
    Ints,       \* The numbers that an application gives.
    RawJson     \* The JSON that it gives.

Empty == ""

Number(n) == ToString(n)

(* Raw JSON that is NULL or "".                                            *)
Blank(json) == json \in {NULL, << >>}

(* snprintf("%.17g"): nan, inf and -inf are no JSON.                       *)
Formatted(x) == IF x = NotFinite THEN Unknown ELSE Number(x)

Text(s) == IF s = NULL THEN Empty ELSE s

Bool(b) == IF b THEN "true" ELSE "false"

(* The label of the first member and its value, and of one more.           *)
First(key, value) == << BeginObject, key, NameSeparator >> \o value
Also(key, value) == << ValueSeparator, key, NameSeparator >> \o value
End == << EndObject >>

One(key, value) == First(key, value) \o End

Given(condition, tokens) == IF condition THEN tokens ELSE << >>

(* Mutant: a comma after every element.                                    *)
ListTrailing(parts) ==
    LET upTo[n \in 0 .. Len(parts)] ==
          IF n = 0 THEN << BeginArray >> ELSE upTo[n - 1] \o parts[n] \o << ValueSeparator >>
    IN  upTo[Len(parts)] \o << EndArray >>

(* What the loops over arrays have written behind the n-th element: a      *)
(* comma goes in front of every one but the first.                         *)
More(parts, before, n) ==
    IF n = 0 THEN << BeginArray >> ELSE before \o Given(n > 1, << ValueSeparator >>) \o parts[n]

List(parts) ==
    LET upTo[n \in 0 .. Len(parts)] == More(parts, upTo[n - 1], n)
    IN  upTo[Len(parts)] \o << EndArray >>

TextList(texts) == List([i \in DOMAIN texts |-> << Text(texts[i]) >>])

(* json_serialize_value: what is not finite is sent as null.               *)
OfValue(v) ==
    CASE v.tag = "bool"   -> << Bool(v.v) >>
      [] v.tag = "int64"  -> << Number(v.v) >>
      [] v.tag = "double" -> << IF v.v = NotFinite THEN "null" ELSE Formatted(v.v) >>
      [] v.tag = "string" -> << Text(v.v) >>
      [] v.tag = "json" /\ v.v # NULL -> v.v
      [] OTHER            -> << "null" >>

(* json_serialize_cells: ids and values take turns.                        *)
Cells(cells) ==
    List([i \in DOMAIN cells |-> << Number(cells[i].column_id), ValueSeparator >>
                                 \o OfValue(cells[i].value)])

-----------------------------------------------------------------------------
(* POST /kit/create_table                                                  *)

(* Mutant: the string default comes before the JSON one.                   *)
DefaultStringFirst(col) ==
    CASE col.default_expr # NULL -> Also("default_expr", << col.default_expr >>)
      [] col.default_expr = NULL /\ col.default_value # NULL ->
           Also("default_value", << col.default_value >>)
      [] col.default_expr = NULL /\ col.default_value = NULL
         /\ col.default_value_json # NULL ->
           Also("default_value", col.default_value_json)
      [] OTHER -> << >>

(* The first default of three that is there.                               *)
Default(col) ==
    CASE col.default_expr # NULL -> Also("default_expr", << col.default_expr >>)
      [] col.default_expr = NULL /\ col.default_value_json # NULL ->
           Also("default_value", col.default_value_json)
      [] col.default_expr = NULL /\ col.default_value_json = NULL
         /\ col.default_value # NULL ->
           Also("default_value", << col.default_value >>)
      [] OTHER -> << >>

Column(col) ==
    First("id", << Number(col.id) >>)
    \o Also("name", << Text(col.name) >>) \o Also("ty", << Text(col.ty) >>)
    \o Also("primary_key", << Bool(col.primary_key) >>)
    \o Also("nullable", << Bool(col.nullable) >>)
    \o Given(col.enum_variants # << >>, Also("enum_variants", TextList(col.enum_variants)))
    \o Default(col)
    \o Given(col.embedding_source_json # NULL,
             Also("embedding_source", col.embedding_source_json))
    \o End

(* The names of the wire; what the header does not know has a default.     *)
Named(names, x, default) == IF x \in DOMAIN names THEN names[x] ELSE default

KindName(kind) ==
    Named([BITMAP |-> "bitmap", FM |-> "fm_index", ANN |-> "ann", MIN_HASH |-> "minhash",
           LEARNED_RANGE |-> "learned_range", SPARSE |-> "sparse"], kind, Empty)

QuantizationName(q) == Named([DENSE |-> "dense", PRODUCT |-> "product"], q, "binary_sign")

AlgorithmName(a) == Named([DISKANN |-> "diskann", IVF |-> "ivf"], a, "hnsw")

(* A field of a structure; 0 asks for a default.                           *)
Setting(x, default) == << Number(IF x = 0 THEN default ELSE x) >>

Chars(setting) == Len(setting[1])

(* Three of the texts of settings can outgrow `char number[96]`, where     *)
(* snprintf cuts them: the mark they end in is lost at least, a colon or a *)
(* bracket, without which no body is JSON.                                 *)
Printed(size, text) == IF size < 96 THEN text ELSE << Unknown >>

AnnSize(x) == 52 + Chars(Setting(x.ann_m, 16)) + Chars(Setting(x.ann_ef_construction, 64))
              + Chars(Setting(x.ann_ef_search, 64))

DiskannSize(x) ==
    45 + Chars(Setting(x.diskann_r, 64)) + Chars(Setting(x.diskann_l, 128))
    + Chars(Setting(x.diskann_beam_width, 8)) + Chars(Setting(x.diskann_alpha, 120))

Diskann(x) == Printed(DiskannSize(x),
                      Also("diskann", First("r", Setting(x.diskann_r, 64))
                                      \o Also("l", Setting(x.diskann_l, 128))
                                      \o Also("beam_width", Setting(x.diskann_beam_width, 8))
                                      \o Also("alpha", Setting(x.diskann_alpha, 120)) \o End))

Ivf(x) == Also("ivf", First("nlist", Setting(x.ivf_nlist, 256))
                      \o Also("nprobe", Setting(x.ivf_nprobe, 8)) \o End)

(* 0x9E3779B97F4A7C15                                                      *)
DefaultSeed == "11400714819323198485"

Seed(x) == << IF x.pq_seed = 0 THEN DefaultSeed ELSE Number(x.pq_seed) >>

ProductSize(x) == 57 + Chars(Setting(x.pq_training_samples, 256000)) + Chars(Seed(x))
                  + Chars(Setting(x.pq_rerank_factor, 5))

Product(x) == Printed(ProductSize(x),
                      Also("product",
                           First("training_samples", Setting(x.pq_training_samples, 256000))
                           \o Also("seed", Seed(x))
                           \o Also("rerank_factor", Setting(x.pq_rerank_factor, 5)) \o End))

Ann(x) ==
    Printed(AnnSize(x),
            First("m", Setting(x.ann_m, 16))
            \o Also("ef_construction", Setting(x.ann_ef_construction, 64))
            \o Also("ef_search", Setting(x.ann_ef_search, 64)))
    \o Also("quantization", << QuantizationName(x.ann_quantization) >>)
    \o Given(x.ann_algorithm # "HNSW", Also("algorithm", << AlgorithmName(x.ann_algorithm) >>))
    \o Given(x.ann_algorithm = "DISKANN", Diskann(x))
    \o Given(x.ann_algorithm = "IVF", Ivf(x))
    \o Given(x.ann_quantization = "PRODUCT", Product(x))
    \o End

MinHash(x) == First("permutations", Setting(x.minhash_permutations, 128))
              \o Also("bands", Setting(x.minhash_bands, 32)) \o End

LearnedRange(x) == One("epsilon", Setting(x.learned_range_epsilon, 16))

(* The three kinds of index that have options.                             *)
Optional == {"ANN", "MIN_HASH", "LEARNED_RANGE"}

Options(x) == CASE x.kind = "ANN"           -> Ann(x)
                [] x.kind = "MIN_HASH"      -> MinHash(x)
                [] x.kind = "LEARNED_RANGE" -> LearnedRange(x)

Index(x) ==
    First("name", << Text(x.name) >>)
    \o Also("column_id", << Number(x.column_id) >>)
    \o Also("kind", << KindName(x.kind) >>)
    \o Given(x.predicate # NULL, Also("predicate", << x.predicate >>))
    \o Given(x.kind \in Optional, Also("options", One(KindName(x.kind), Options(x))))
    \o End

CreateTable(r) ==
    First("name", << r.name >>)
    \o Also("columns", List([i \in DOMAIN r.columns |-> Column(r.columns[i])]))
    \o Given(~ Blank(r.constraints), Also("constraints", r.constraints))
    \o Given(r.indexes # << >>,
             Also("indexes", List([i \in DOMAIN r.indexes |-> Index(r.indexes[i])])))
    \o End

-----------------------------------------------------------------------------
(* POST /kit/txn                                                           *)

Op(op) ==
    LET on(more) == One(op.type, First("table", << Text(op.table) >>) \o more \o End) IN
    CASE op.type = "put" ->
           on(Also("cells", Cells(op.cells)) \o Also("returning", << "false" >>))
      [] op.type = "upsert" ->
           on(Also("cells", Cells(op.cells))
              \o Given(op.update_cells # << >>, Also("update_cells", Cells(op.update_cells)))
              \o Also("returning", << "false" >>))
      [] op.type = "delete" -> on(Also("row_id", << Number(op.row_id) >>))
      [] op.type = "delete_by_pk" -> on(Also("pk", OfValue(op.pk_value)))

Txn(r) == First("ops", List([i \in DOMAIN r.ops |-> Op(r.ops[i])]))
          \o Given(r.idempotency_key \notin {NULL, Empty},
                   Also("idempotency_key", << r.idempotency_key >>))
          \o End

-----------------------------------------------------------------------------
(* POST /kit/query, /sql and /kit/retrieve_text, PUT /history/retention    *)

(* serialize_condition.  Bounds are formatted as they are; int_set,        *)
(* lo_inclusive and hi_inclusive are not looked at.                        *)
OnColumn(c, more) ==
    One(c.kind, First("column_id", << Number(c.column_id) >>) \o more \o End)

Condition(c) ==
    CASE ~ Blank(c.condition_json) -> c.condition_json
      [] Blank(c.condition_json) /\ c.kind = "pk" ->
           One("pk", One("value", << IF c.str_value # NULL THEN c.str_value
                                     ELSE Number(c.int_value) >>))
      [] Blank(c.condition_json) /\ c.kind = "bitmap_eq" ->
           OnColumn(c, Also("value", << Text(c.str_value) >>))
      [] Blank(c.condition_json) /\ c.kind = "range" ->
           OnColumn(c, Given(c.lo_set, Also("lo", << Formatted(c.lo) >>))
                       \o Given(c.hi_set, Also("hi", << Formatted(c.hi) >>)))
      [] Blank(c.condition_json) /\ c.kind = "fm_contains" ->
           OnColumn(c, Also("pattern", << Text(c.str_value) >>))
      [] Blank(c.condition_json) /\ c.kind \in {"is_null", "is_not_null"} -> OnColumn(c, << >>)
      [] OTHER -> One("pk", One("value", << "null" >>))

Query(r) ==
    First("table", << r.table >>)
    \o Given(r.conditions # << >>,
             Also("conditions", List([i \in DOMAIN r.conditions |-> Condition(r.conditions[i])])))
    \o Given(r.projection # << >>,
             Also("projection", List([i \in DOMAIN r.projection |-> << Number(r.projection[i]) >>])))
    \o Given(r.limit > 0, Also("limit", << Number(r.limit) >>))
    \o Given(r.offset # 0, Also("offset", << Number(r.offset) >>))
    \o End

Sql(r) == First("sql", << r.sql >>) \o Also("format", << "json" >>) \o End

RetrieveText(r) ==
    First("table", << r.table >>)
    \o Also("embedding_column", << Number(r.embedding_column) >>)
    \o Also("text", << r.text >>)
    \o Given(r.k > 0, Also("k", << Number(r.k) >>)) \o End

Retention(r) == One("history_retention_epochs", << Number(r.epochs) >>)

(* The body of a request.                                                  *)
Body(r) == CASE r.call = "create_table"          -> CreateTable(r)
             [] r.call = "commit"                -> Txn(r)
             [] r.call = "query"                 -> Query(r)
             [] r.call = "sql"                   -> Sql(r)
             [] r.call = "retrieve_text"         -> RetrieveText(r)
             [] r.call = "history_retention_set" -> Retention(r)
             [] r.call = "cancel_query"          -> << BeginObject, EndObject >>

-----------------------------------------------------------------------------
(* What an application may give: the structures of mongreldb.h.  An        *)
(* enumerator can be any number, here any string.                          *)
Maybe(S) == S \cup {NULL}

AnyValue == [tag : {"bool"}, v : BOOLEAN] \cup [tag : {"int64"}, v : Ints]
            \cup [tag : {"double"}, v : Ints \cup {NotFinite}]
            \cup [tag : {"string"}, v : Maybe(Names)]
            \cup [tag : {"json"}, v : Maybe(RawJson)] \cup [tag : {"null"}, v : {NULL}]

AnyCell == [column_id : Ints, value : AnyValue]

AnyColumn ==
    [id : Ints, name : Maybe(Names), ty : Maybe(Names), primary_key : BOOLEAN,
     nullable : BOOLEAN, enum_variants : Seq(Maybe(Names)), default_expr : Maybe(Names),
     default_value_json : Maybe(RawJson), default_value : Maybe(Names),
     embedding_source_json : Maybe(RawJson)]

AnyIndex ==
    [name : Maybe(Names), column_id : Ints, kind : STRING, predicate : Maybe(Names),
     ann_m : Ints, ann_ef_construction : Ints, ann_ef_search : Ints,
     ann_quantization : STRING, ann_algorithm : STRING, diskann_r : Ints,
     diskann_l : Ints, diskann_beam_width : Ints, diskann_alpha : Ints,
     ivf_nlist : Ints, ivf_nprobe : Ints, pq_num_subvectors : Ints, pq_bits : Ints,
     pq_training_samples : Ints, pq_seed : Ints, pq_rerank_factor : Ints,
     minhash_permutations : Ints, minhash_bands : Ints, learned_range_epsilon : Ints]

AnyOp == [type : {"put"}, table : Maybe(Names), cells : Seq(AnyCell)]
         \cup [type : {"upsert"}, table : Maybe(Names), cells : Seq(AnyCell),
               update_cells : Seq(AnyCell)]
         \cup [type : {"delete"}, table : Maybe(Names), row_id : Ints]
         \cup [type : {"delete_by_pk"}, table : Maybe(Names), pk_value : AnyValue]

AnyCondition ==
    [kind : STRING, column_id : Ints, str_value : Maybe(Names), int_value : Ints,
     int_set : BOOLEAN, lo_set : BOOLEAN, hi_set : BOOLEAN, lo : Ints \cup {NotFinite},
     hi : Ints \cup {NotFinite}, lo_inclusive : BOOLEAN, hi_inclusive : BOOLEAN,
     condition_json : Maybe(RawJson \cup {<< >>})]

AnyRequest ==
    [call : {"create_table"}, name : Names, columns : Seq(AnyColumn),
     constraints : Maybe(RawJson \cup {<< >>}), indexes : Seq(AnyIndex)]
    \cup [call : {"commit"}, ops : Seq(AnyOp), idempotency_key : Maybe(Names)]
    \cup [call : {"query"}, table : Names, conditions : Seq(AnyCondition),
          projection : Seq(Ints), limit : Ints, offset : Ints]
    \cup [call : {"sql"}, sql : Names]
    \cup [call : {"retrieve_text"}, table : Names, embedding_column : Ints, text : Names,
          k : Ints]
    \cup [call : {"history_retention_set"}, epochs : Ints] \cup [call : {"cancel_query"}]

(* The names of the wire.                                                  *)
Labels ==
    {"algorithm", "alpha", "ann", "bands", "beam_width", "binary_sign", "bitmap",
     "bitmap_eq", "cells", "column_id", "columns", "conditions", "constraints",
     "default_expr", "default_value", "delete", "delete_by_pk", "dense", "diskann",
     "ef_construction", "ef_search", "embedding_column", "embedding_source",
     "enum_variants", "epsilon", "fm_contains", "fm_index", "format", "hi",
     "history_retention_epochs", "hnsw", "id", "idempotency_key", "indexes",
     "is_not_null", "is_null", "ivf", "json", "k", "kind", "l", "learned_range",
     "limit", "lo", "m", "minhash", "name", "nlist", "nprobe", "nullable", "offset",
     "ops", "options", "pattern", "permutations", "pk", "predicate", "primary_key",
     "product", "projection", "put", "quantization", "r", "range", "rerank_factor",
     "returning", "row_id", "seed", "sparse", "sql", "table", "text",
     "training_samples", "ty", "update_cells", "upsert", "value"}

Defaults == {5, 8, 16, 32, 64, 120, 128, 256, 256000}

(* mongreldb.h asks for valid JSON where it takes JSON.                    *)
ASSUME RequestAssumption ==
    /\ Labels \cup {Empty} \subseteq Names /\ Defaults \subseteq Ints
    /\ DefaultSeed \in Numbers /\ \A n \in Ints : Number(n) \in Numbers
    /\ \A v \in RawJson : v \in Seq(Tokens) /\ v # << >> /\ ValueEnd(v, 1) = Len(v) + 1
=============================================================================
