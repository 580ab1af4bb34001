----------------------------- MODULE Watermark -----------------------------
(***************************************************************************)
(* The watermark strategies of mongo/watermark.py as pure operators: which *)
(* documents a run asks MongoDB for, what it remembers of the documents it *)
(* reads, and what it leaves in the state store for the next run.          *)
(*                                                                         *)
(* A document version is a record [doc, at].  In an append_only collection *)
(* its _id is the ObjectId whose generation second is `at` and whose       *)
(* random and counter bytes are `doc`; in a mutable one `doc` names the    *)
(* document and `at` is the value of the configured watermark_field, or    *)
(* None where the document does not carry it.  A tick of `at` is a second  *)
(* for ObjectIds and a BSON millisecond for timestamps, the grain at which *)
(* _format_ts writes them back.                                            *)
(***************************************************************************)
EXTENDS Integers

CONSTANTS
  None,               \* Python's None
  Docs,               \* documents; in an ObjectId, its random/counter bytes
  Overlap,            \* cfg.overlap_seconds: any integer, the parser accepts it
  InitialWatermark    \* cfg.initial_watermark, or None

ASSUME NoneAssumption == None \notin Int
ASSUME DocsAssumption == Docs \subseteq Nat \ {0}
ASSUME OverlapAssumption == Overlap \in Int
ASSUME InitialWatermarkAssumption == InitialWatermark \in Nat \union {None}

AllModes == {"append_only", "mutable", "full_refresh"}
Kinds == {"objectid", "timestamp", "full_refresh"}
Stamp == Nat \union {None}
Version == [doc : Docs, at : Stamp]

\* A row of the watermarks table; NoRow is the absent row.
Row == [kind : Kinds, value : Nat]
NoRow == [kind |-> "none", value |-> 0]

\* make_strategy: the class chosen for a mode, named by its `kind`.
KindOf(mode) ==
  CASE mode = "append_only" -> "objectid"
    [] mode = "mutable" -> "timestamp"
    [] OTHER -> "full_refresh"

\* Fault: the first run, which has no row, is not exempted.
KindMismatchNoRow(row, kind) == row.kind # kind

\* validate_watermark_kind, negated: a ConfigError is raised.
KindMismatch(row, kind) == row # NoRow /\ row.kind # kind

\* The find() filter: no condition, or a lower bound on _id or on the field.
Everything == [on |-> "nothing", from |-> 0]
Filter == [on : {"nothing", "_id", "watermark_field"}, from : Int]

\* The stored watermark, else the configured floor, else nothing.
LowerBound(row) == IF row # NoRow THEN row.value ELSE InitialWatermark

\* Fault: the query starts at the watermark itself (no overlap).
ObjectIdFilterNoOverlap(bound) == [on |-> "_id", from |-> bound]
TimestampFilterNoOverlap(bound) == [on |-> "watermark_field", from |-> bound]

\* ObjectIdWatermark.build_filter with a bound: generation_time keeps only
\* the second of the ObjectId, from_datetime zero-fills the other bytes.
ObjectIdFilter(bound) == [on |-> "_id", from |-> bound - Overlap]

\* TimestampWatermark.build_filter with a bound.
TimestampFilter(bound) == [on |-> "watermark_field", from |-> bound - Overlap]

\* build_filter: a first run without a floor, and a full refresh, ask for all.
BuildFilter(kind, row) ==
  IF kind = "full_refresh" \/ LowerBound(row) = None THEN Everything
  ELSE IF kind = "objectid" THEN ObjectIdFilter(LowerBound(row))
  ELSE TimestampFilter(LowerBound(row))

\* Does MongoDB return version v for filter f?  {"_id": {"$gt": lb}} compares
\* whole ObjectIds, the bound having zero bytes after its second;
\* {field: {"$gte": lb}} never matches a document without the field.
Selects(f, v) ==
  \/ f.on = "nothing"
  \/ f.on = "_id" /\ (v.at > f.from \/ (v.at = f.from /\ v.doc > 0))
  \/ f.on = "watermark_field" /\ v.at # None /\ v.at >= f.from

\* sort_spec: only the objectid strategy sorts, on _id ascending.
Sorted(kind) == kind = "objectid"

\* ObjectId order: generation second first, then the remaining bytes.
IdLess(v, w) == v.at < w.at \/ (v.at = w.at /\ v.doc < w.doc)

\* Fault: the maximum is overwritten by whatever is read last.
ObserveLast(max, v) == v.at

\* ObjectIdWatermark.observe: the greatest _id; its second is what matters.
ObserveObjectId(max, v) == IF max = None \/ v.at > max THEN v.at ELSE max

\* TimestampWatermark.observe: the latest datetime; other documents do not count.
ObserveTimestamp(max, v) ==
  IF v.at # None /\ (max = None \/ v.at > max) THEN v.at ELSE max

\* observe: the running maximum over the documents read so far.
Observe(kind, max, v) ==
  CASE kind = "objectid" -> ObserveObjectId(max, v)
    [] kind = "timestamp" -> ObserveTimestamp(max, v)
    [] OTHER -> max

\* new_watermark: None when nothing was observed.
NewWatermark(kind, max) == IF kind = "full_refresh" THEN None ELSE max
=============================================================================
