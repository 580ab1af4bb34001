--------------------------- MODULE Extract_proofs ---------------------------
(***************************************************************************)
(* Proofs about Extract, for every value of its constants.                 *)
(***************************************************************************)
EXTENDS Extract, TLAPS

\* The parts of a version.
LEMMA VersionParts ==
  ASSUME NEW v \in Version
  PROVE  /\ v.doc \in Docs /\ v.doc \in Nat /\ v.doc > 0
         /\ v.at # None => v.at \in Nat
<1>1. v.doc \in Docs /\ v.at \in Stamp
  BY DEF Version
<1>2. \A d \in Docs : d \in Nat /\ d > 0
  BY DocsAssumption
<1> QED
  BY <1>1, <1>2 DEF Stamp

\* make_strategy only yields the three kinds.
LEMMA KindTyped == \A m : KindOf(m) \in Kinds
  BY DEF KindOf, Kinds

\* build_filter yields a filter whatever row it is given.
LEMMA FilterTyped ==
  ASSUME NEW kind, NEW row \in Row \union {NoRow}
  PROVE  BuildFilter(kind, row) \in Filter
<1>1. LowerBound(row) \in Nat \union {None}
  BY InitialWatermarkAssumption DEF LowerBound, Row, NoRow
<1> QED
  BY <1>1, OverlapAssumption DEF BuildFilter, ObjectIdFilter, TimestampFilter, Filter, Everything

\* observe keeps the running maximum a stamp.
LEMMA ObserveTyped ==
  ASSUME NEW kind, NEW m \in Stamp, NEW v \in Version
  PROVE  Observe(kind, m, v) \in Stamp
  BY DEF Observe, ObserveObjectId, ObserveTimestamp, Stamp, Version

LEMMA InitTypeOK == Init => TypeOK
<1> SUFFICES ASSUME Init PROVE TypeOK
  OBVIOUS
<1>1. ClockOk
  BY ExtractAssumption DEF Init, ClockOk
<1>3. RowOk /\ FilesOk
  BY DEF Init, RowOk, FilesOk
<1>4. ControlOk
  BY DEF Init, ControlOk
<1>2. LocalsOk
  BY DEF Init, LocalsOk, Everything, Filter, Stamp
<1> QED
  BY <1>1, <1>2, <1>3, <1>4 DEF Init, TypeOK

\* The end of a run, whatever ended it, leaves the run's locals typed.
LEMMA ReturnTypeOK ==
  ASSUME TypeOK, NEW o \in {"ok", "empty", "failed", "crashed"}, Return(o),
         wm' \in Row \union {NoRow}, faults' \in Nat,
         s3' \subseteq [key : Nat, row : Version],
         spool' \subseteq [run : Nat, row : Version]
  PROVE  TypeOK'
<1> USE DEF TypeOK, Return, environment
<1>1. ClockOk'
  BY DEF ClockOk
<1>2. LocalsOk'
  BY DEF LocalsOk, Everything, Filter, Stamp
<1>3. RowOk' /\ FilesOk' /\ ControlOk'
  BY DEF RowOk, FilesOk, ControlOk
<1> QED
  BY <1>1, <1>2, <1>3

\* Rows appended to the spool and rows put in the bucket are typed.
LEMMA WriteTyped ==
  ASSUME TypeOK, pc # "idle", NEW rows \in SUBSET Version
  PROVE  /\ Append(rows) \subseteq [run : Nat, row : Version]
         /\ PutRows(second, rows) \subseteq [key : Nat, row : Version]
<1>1. runDt \in Nat /\ second \in Nat
  BY DEF TypeOK, ClockOk
<1> QED
  BY <1>1 DEF Append, PutRows, TypeOK, FilesOk

LEMMA SeenTyped == TypeOK => Written \subseteq Version /\ Seen \subseteq Version
  BY DEF TypeOK, FilesOk, LocalsOk, Written, Seen

LEMMA UnlinkedTyped == TypeOK => Unlinked \subseteq [run : Nat, row : Version]
  BY DEF TypeOK, FilesOk, Unlinked

\* TypeOK is inductive.
LEMMA NextTypeOK == TypeOK /\ [Next]_vars => TypeOK'
<1> SUFFICES ASSUME TypeOK, [Next]_vars PROVE TypeOK'
  OBVIOUS
<1>1. CASE Tick
  BY <1>1 DEF Tick, cursor, TypeOK, ClockOk, RowOk, FilesOk, ControlOk, LocalsOk
<1>2. ASSUME NEW d \in Docs, NEW s \in Stamps, Insert(d, s) PROVE TypeOK'
  <2> DEFINE new == [doc |-> d, at |-> IF d \in Untimed THEN None ELSE s]
  <2>1. new \in Version
    BY DEF Stamps, Version, Stamp
  <2>2. coll' = coll \union {new} /\ \A v \in coll : v.doc # new.doc
    BY <1>2 DEF Insert
  <2>3. coll' \subseteq Version /\ \A v, w \in coll' : v.doc = w.doc => v = w
    <3> HIDE DEF new
    <3> QED BY <2>1, <2>2 DEF TypeOK
  <2> QED
    BY <1>2, <2>3 DEF Insert, cursor, TypeOK, ClockOk, RowOk, FilesOk, ControlOk, LocalsOk
<1>3. ASSUME NEW v \in coll, NEW s \in Stamps, Update(v, s) PROVE TypeOK'
  <2> DEFINE new == [v EXCEPT !.at = s]
  <2>1. new \in Version /\ new.doc = v.doc
    BY DEF Stamps, Version, Stamp, TypeOK
  <2>2. coll' = (coll \ {v}) \union {new}
    BY <1>3 DEF Update
  <2>3. coll' \subseteq Version /\ \A u, w \in coll' : u.doc = w.doc => u = w
    <3> HIDE DEF new
    <3> QED BY <2>1, <2>2 DEF TypeOK
  <2> QED
    BY <1>3, <2>3 DEF Update, cursor, TypeOK, ClockOk, RowOk, FilesOk, ControlOk, LocalsOk
<1>4. ASSUME NEW v \in coll, Delete(v) PROVE TypeOK'
  BY <1>4 DEF Delete, TypeOK, ClockOk, RowOk, FilesOk, ControlOk, LocalsOk
<1>5. ASSUME NEW m \in Modes, Reconfigure(m) PROVE TypeOK'
  BY <1>5 DEF Reconfigure, cursor, TypeOK, ClockOk, RowOk, FilesOk, ControlOk, LocalsOk
<1>6. ASSUME NEW d \in DryRuns, StartRun(d) PROVE TypeOK'
  <2>1. d \in BOOLEAN
    BY ExtractAssumption
  <2>2. ClockOk'
    BY <1>6, ExtractAssumption DEF StartRun, environment, TypeOK, ClockOk
  <2>3. FilesOk'
    BY <1>6 DEF StartRun, SweepOrphans, TypeOK, FilesOk
  <2> QED
    BY <1>6, <2>1, <2>2, <2>3
    DEF StartRun, environment, cursor, TypeOK, RowOk, ControlOk, LocalsOk
<1>7. CASE ConnectFails \/ RejectKind \/ TransferFails \/ CommitFails \/ CleanupFails \/ Crash \/ FinishEmpty
  <2>1. UNCHANGED <<wm, s3, spool>> /\ (Fault \/ UNCHANGED faults)
    BY <1>7 DEF ConnectFails, RejectKind, TransferFails, CommitFails, CleanupFails, Crash, FinishEmpty
  <2>2. \E o \in {"ok", "empty", "failed", "crashed"} : Return(o)
    BY <1>7 DEF ConnectFails, RejectKind, TransferFails, CommitFails, CleanupFails, Crash, FinishEmpty
  <2> QED
    BY <2>1, <2>2, ReturnTypeOK DEF Fault, TypeOK, RowOk, FilesOk, ControlOk
<1>8. CASE OpenCursor
  <2>1. filter' \in Filter
    BY <1>8, FilterTyped DEF OpenCursor, TypeOK, RowOk
  <2>2. due' \subseteq Docs
    BY <1>8 DEF OpenCursor, TypeOK, Version
  <2> QED
    BY <1>8, <2>1, <2>2
    DEF OpenCursor, environment, TypeOK, ClockOk, RowOk, FilesOk, ControlOk, LocalsOk
<1>9. ASSUME NEW v \in coll, Read(v) PROVE TypeOK'
  <2>1. v \in Version /\ buf \union {v} \in SUBSET Version
    BY DEF TypeOK, LocalsOk
  <2>2. max' \in Stamp
    BY <1>9, <2>1, ObserveTyped DEF Read, TypeOK, LocalsOk
  <2>3. spool' \subseteq [run : Nat, row : Version] /\ buf' \subseteq Version
    BY <1>9, <2>1, WriteTyped DEF Read, TypeOK, LocalsOk, FilesOk
  <2>4. due' \subseteq Docs
    BY <1>9 DEF Read, TypeOK, LocalsOk
  <2> QED
    BY <1>9, <2>2, <2>3, <2>4
    DEF Read, environment, TypeOK, ClockOk, RowOk, FilesOk, ControlOk, LocalsOk
<1>10. CASE ScanFails \/ FinishDry \/ UploadFails \/ HeadFails \/ Cleanup
  <2>1. UNCHANGED <<wm, s3>> /\ (Fault \/ UNCHANGED faults) /\ spool' \in {Unlinked, spool}
    BY <1>10 DEF ScanFails, FinishDry, UploadFails, HeadFails, Cleanup, Abort
  <2>2. \E o \in {"ok", "empty", "failed", "crashed"} : Return(o)
    BY <1>10 DEF ScanFails, FinishDry, UploadFails, HeadFails, Cleanup
  <2> QED
    BY <2>1, <2>2, ReturnTypeOK, UnlinkedTyped DEF Fault, TypeOK, RowOk, FilesOk, ControlOk
<1>11. CASE FinishScan
  <2>1. spool' \subseteq [run : Nat, row : Version]
    BY <1>11, WriteTyped DEF FinishScan, TypeOK, LocalsOk
  <2> QED
    BY <1>11, <2>1
    DEF FinishScan, environment, TypeOK, ClockOk, RowOk, FilesOk, ControlOk, LocalsOk
<1>12. CASE CloseFails
  <2>1. spool' \subseteq [run : Nat, row : Version]
    BY <1>12, WriteTyped DEF CloseFails, TypeOK, LocalsOk
  <2>2. UNCHANGED <<wm, s3>> /\ Fault /\ Return("failed")
    BY <1>12 DEF CloseFails
  <2> QED
    BY <2>1, <2>2, ReturnTypeOK DEF Fault, TypeOK, RowOk, FilesOk, ControlOk
<1>13. CASE PutObject
  <2>1. s3' \subseteq [key : Nat, row : Version]
    BY <1>13, WriteTyped, SeenTyped DEF PutObject
  <2> QED
    BY <1>13, <2>1
    DEF PutObject, environment, cursor, TypeOK, ClockOk, RowOk, FilesOk, ControlOk, LocalsOk
<1>14. CASE HeadObject
  BY <1>14
  DEF HeadObject, environment, cursor, TypeOK, ClockOk, RowOk, FilesOk, ControlOk, LocalsOk
<1>15. CASE Commit
  <2>1. wm' \in Row \union {NoRow}
    <3>1. NewWatermark(Kind, max) \in Stamp
      BY DEF NewWatermark, Stamp, TypeOK, LocalsOk
    <3> QED
      BY <1>15, <3>1, KindTyped DEF Commit, SetWatermark, Kind, Row, Stamp, TypeOK, RowOk
  <2> QED
    BY <1>15, <2>1
    DEF Commit, environment, cursor, TypeOK, ClockOk, RowOk, FilesOk, ControlOk, LocalsOk
<1>16. CASE UNCHANGED vars
  BY <1>16 DEF vars, TypeOK, ClockOk, RowOk, FilesOk, ControlOk, LocalsOk
<1> QED
  BY <1>1, <1>2, <1>3, <1>4, <1>5, <1>6, <1>7, <1>8, <1>9, <1>10, <1>11, <1>12, <1>13,
     <1>14, <1>15, <1>16
  DEF Next, Step, Source, Agent, Failure

\* Every variable keeps its type, MongoDB never shows two versions of a
\* document, and a running run started at a clock value not after now.
THEOREM Typing == Spec => []TypeOK
<1>1. Init => TypeOK
  BY InitTypeOK
<1>2. TypeOK /\ [Next]_vars => TypeOK'
  BY NextTypeOK
<1> QED
  BY <1>1, <1>2, PTL DEF Spec
-----------------------------------------------------------------------------
\* A run writes under its own run_dt only, which is later than those before.
LEMMA NextSpoolInv == TypeOK /\ SpoolInv /\ [Next]_vars => SpoolInv'
<1> SUFFICES ASSUME TypeOK, SpoolInv, [Next]_vars PROVE SpoolInv'
  OBVIOUS
<1>0. runDt \in Int /\ now \in Nat /\ \A f \in spool : f.run \in Nat
  BY DEF TypeOK, ClockOk, FilesOk
<1>1. CASE \E d \in DryRuns : StartRun(d)
  <2>1. runDt' = now /\ now >= runDt + RunGap /\ spool' \subseteq spool
    BY <1>1 DEF StartRun, SweepOrphans
  <2>2. now >= runDt
    BY <1>0, <2>1, ExtractAssumption
  <2> QED
    BY <1>0, <2>1, <2>2 DEF SpoolInv
<1>2. ASSUME UNCHANGED runDt, NEW rows, spool' \in {spool, Unlinked, Append(rows)}
      PROVE  SpoolInv'
  BY <1>0, <1>2 DEF SpoolInv, Unlinked, Append
<1>3. CASE Tick \/ Source \/ (\E m \in Modes : Reconfigure(m)) \/ UNCHANGED vars
  <2>1. UNCHANGED <<runDt, spool>>
    BY <1>3 DEF Tick, Source, Insert, Update, Delete, Reconfigure, vars
  <2> QED
    BY <1>2, <2>1
<1>4. CASE Agent
  <2>1. /\ UNCHANGED runDt
        /\ \E rows : spool' \in {spool, Unlinked, Append(rows)}
    <3>1. ASSUME NEW v \in coll, Read(v)
          PROVE  UNCHANGED runDt /\ spool' \in {spool, Append(buf \union {v})}
      BY <3>1 DEF Read
    <3>2. CASE \/ RejectKind \/ OpenCursor \/ FinishEmpty \/ FinishDry
               \/ PutObject \/ HeadObject \/ Commit \/ Cleanup
      BY <3>2 DEF RejectKind, OpenCursor, FinishEmpty, FinishDry, PutObject, HeadObject,
                  Commit, Cleanup, Return
    <3>3. CASE FinishScan
      BY <3>3 DEF FinishScan
    <3> QED
      BY <1>4, <3>1, <3>2, <3>3 DEF Agent
  <2> QED
    BY <1>2, <2>1
<1>5. CASE Failure
  <2>1. UNCHANGED runDt /\ spool' \in {spool, Unlinked, Append(buf)}
    BY <1>5 DEF Failure, ConnectFails, ScanFails, CloseFails, UploadFails, TransferFails,
                HeadFails, CommitFails, CleanupFails, Crash, Return, Abort
  <2> QED
    BY <1>2, <2>1
<1> QED
  BY <1>1, <1>3, <1>4, <1>5 DEF Next, Step
-----------------------------------------------------------------------------
\* The filter of an open cursor and the filter of the next run agree on what
\* is shippable, as long as the stored row has not changed.
LEMMA SameFilter ==
  ASSUME TypeOK, ~KindMismatch(wm, Kind), NEW v \in coll, Shippable(v)
  PROVE  /\ wm # NoRow => BuildFilter(Kind, wm) = NextFilter
         /\ wm = NoRow => Selects(BuildFilter(Kind, wm), v)
<1>1. ASSUME wm # NoRow PROVE BuildFilter(Kind, wm) = NextFilter
  BY <1>1 DEF KindMismatch, NextFilter
<1>2. ASSUME wm = NoRow PROVE Selects(BuildFilter(Kind, wm), v)
  <2>1. v.at \in Nat /\ v.doc > 0 /\ v.doc \in Nat
    <3>1. v \in Version /\ v.at # None
      BY DEF TypeOK, Shippable
    <3> QED
      BY <3>1, VersionParts
  <2>2. LowerBound(wm) = InitialWatermark
    BY <1>2 DEF LowerBound
  <2>3. CASE BuildFilter(Kind, wm) = Everything
    BY <2>3 DEF Selects, Everything
  <2>4. CASE BuildFilter(Kind, wm) # Everything
    <3>1. InitialWatermark # None /\ v.at >= InitialWatermark - Overlap
      BY <2>2, <2>4 DEF BuildFilter, Shippable
    <3>2. InitialWatermark \in Nat /\ Overlap \in Int
      BY <3>1, InitialWatermarkAssumption, OverlapAssumption
    <3>3. /\ BuildFilter(Kind, wm).on \in {"_id", "watermark_field"}
          /\ BuildFilter(Kind, wm).from = InitialWatermark - Overlap
      BY <2>2, <2>4 DEF BuildFilter, ObjectIdFilter, TimestampFilter
    <3> QED
      BY <2>1, <3>1, <3>2, <3>3, NoneAssumption DEF Selects
  <2> QED
    BY <2>3, <2>4
<1> QED
  BY <1>1, <1>2

\* What the open cursor's filter leaves out has been delivered before.
LEMMA LeftOutDelivered ==
  ASSUME IInv, SecondsApart, OverlapCoversRun, pc \in {"scan"} \union Uploading,
         NEW v \in coll, Shippable(v), ~Selects(filter, v)
  PROVE  v \in Delivered
<1>1. filter = BuildFilter(Kind, wm) /\ ~KindMismatch(wm, Kind)
  BY DEF IInv, FilterInv
<1>2. wm # NoRow /\ filter = NextFilter
  BY <1>1, SameFilter DEF IInv
<1> QED
  BY <1>2 DEF IInv, Promise, NoLoss

\* Whatever a watermark bounded by its clock asks for includes everything
\* stamped at most TimeLimit + Lateness + Skew before that bound.
LEMMA RecentSelected ==
  ASSUME OverlapCoversRun, NEW row \in Row, NEW v \in Version, v.at # None,
         NEW t \in Int, row.value <= t + TimeLimit + Skew, v.at >= t - Lateness
  PROVE  Selects(BuildFilter(row.kind, row), v)
<1>1. v.at \in Nat /\ v.doc \in Nat /\ v.doc > 0
  BY VersionParts
<1>2. row # NoRow /\ row.value \in Nat
  BY DEF Row, NoRow, Kinds
<1>3. LowerBound(row) = row.value /\ row.value # None
  BY <1>2, NoneAssumption DEF LowerBound
<1>4. v.at >= row.value - Overlap
  BY <1>1, <1>2, ExtractAssumption, OverlapAssumption
  DEF OverlapCoversRun
<1>5. CASE BuildFilter(row.kind, row) = Everything
  BY <1>5 DEF Selects, Everything
<1>6. CASE BuildFilter(row.kind, row) # Everything
  <2>1. /\ BuildFilter(row.kind, row).on \in {"_id", "watermark_field"}
        /\ BuildFilter(row.kind, row).from = row.value - Overlap
    BY <1>3, <1>6 DEF BuildFilter, ObjectIdFilter, TimestampFilter
  <2> QED
    BY <1>1, <1>2, <1>4, <2>1, OverlapAssumption DEF Selects
<1> QED
  BY <1>5, <1>6

\* What becomes visible now is asked for by the next run.
LEMMA NewSelected ==
  ASSUME IInv, SecondsApart, OverlapCoversRun, NEW v \in Version, v.at # None, v.at >= now - Lateness
  PROVE  Selects(NextFilter, v)
<1>1. CASE wm = NoRow
  BY <1>1 DEF NextFilter, Selects, Everything
<1>2. CASE wm # NoRow
  <2>1. wm \in Row /\ wm.value <= now + Skew /\ now \in Nat
    BY <1>2 DEF IInv, WmInv, TypeOK, RowOk, ClockOk
  <2>2. wm.value <= now + TimeLimit + Skew
    BY <2>1, ExtractAssumption DEF Row
  <2> QED
    BY <1>2, <2>1, <2>2, RecentSelected DEF NextFilter
<1> QED
  BY <1>1, <1>2

\* An exhausted cursor has returned all it had to.
LEMMA ExhaustedRead ==
  ASSUME IInv, pc = "scan", Exhausted,
         NEW v \in coll, Shippable(v), Selects(filter, v)
  PROVE  v \in Seen \/ v.at >= runDt - Lateness
<1>1. \/ v \in Seen
      \/ v.at >= runDt - Lateness
      \/ IF Sorted(Kind) THEN Ahead(v) ELSE v.doc \in due
  BY DEF IInv, CursorInv
<1> QED
  BY <1>1 DEF Exhausted

\* Storing a run's rows loses no earlier object.
LEMMA PutKeeps ==
  ASSUME IInv, SecondsApart, pc = "upload"
  PROVE  s3 \subseteq PutRows(second, Written)
<1>1. \A o \in s3 : o.key < second /\ o.key \in Nat /\ second \in Int
  BY DEF IInv, KeysInv, TypeOK, ClockOk, FilesOk
<1> QED
  BY <1>1 DEF PutRows
-----------------------------------------------------------------------------
\* One lemma per group of steps that disturbs the invariant the same way.

LEMMA InitIInv == Init => IInv
<1> SUFFICES ASSUME Init PROVE IInv
  OBVIOUS
<1>1. TypeOK
  BY InitTypeOK
<1>2. /\ coll = {} /\ s3 = {} /\ wm = NoRow /\ pc = "idle"
      /\ buf = {} /\ max = None /\ status = "none"
  BY DEF Init
<1>3. InTime /\ SourceInv /\ WmInv /\ MaxInv /\ FreshStart
  BY <1>2 DEF InTime, SourceInv, WmInv, MaxInv, FreshStart
<1>4. FilterInv /\ CursorInv /\ DoneInv /\ KeysInv /\ PutInv /\ DryInv
  BY <1>2 DEF FilterInv, CursorInv, DoneInv, KeysInv, PutInv, DryInv, Uploading
<1>5. Promise /\ WatermarkBacked /\ SpoolInv
  BY <1>2 DEF Promise, NoLoss, FreshInv, WatermarkBacked, FreshAfterRun, SpoolInv, Init
<1> QED
  BY <1>1, <1>3, <1>4, <1>5 DEF IInv

\* Time passes.
LEMMA TickIInv ==
  ASSUME IInv, TypeOK', SpoolInv', Tick
  PROVE  IInv'
<1> USE DEF Tick, cursor
<1>1. now' = now + 1 /\ now \in Nat
  BY DEF IInv, TypeOK, ClockOk
<1>2. /\ UNCHANGED <<coll, mode, wm, s3, spool, pc, runDt, second, dry, filter, due, buf, max, status>>
      /\ pc # "idle" => now < runDt + TimeLimit
  OBVIOUS
<1>3. InTime'
  BY <1>1, <1>2, ExtractAssumption DEF InTime, TypeOK, ClockOk, IInv
<1>4. SourceInv'
  <2> SUFFICES ASSUME NEW v \in coll, v.at # None PROVE v.at <= now' + Skew
    BY <1>2 DEF SourceInv, IInv
  <2>1. v.at \in Nat /\ v.at <= now + Skew
    BY VersionParts DEF IInv, TypeOK, SourceInv
  <2> QED
    BY <1>1, <2>1, ExtractAssumption
<1>5. WmInv'
  BY <1>1, <1>2, ExtractAssumption DEF IInv, WmInv, TypeOK, RowOk, Row
<1>6. Seen' = Seen /\ Delivered' = Delivered /\ Kind' = Kind /\ NextFilter' = NextFilter
  BY <1>2 DEF Seen, Written, Delivered, Kind, NextFilter
<1>7. MaxInv'
  BY <1>1, <1>2, <1>6, ExtractAssumption DEF IInv, MaxInv, TypeOK, LocalsOk, Stamp
<1>8. FreshStart' /\ FilterInv' /\ (SecondsApart => KeysInv') /\ PutInv' /\ DryInv' /\ (SecondsApart => WatermarkBacked')
  BY <1>2, <1>6
  DEF IInv, FreshStart, Written, FilterInv, KeysInv, PutInv, DryInv, WatermarkBacked
<1>9. CursorInv' /\ DoneInv'
  BY <1>2, <1>6 DEF IInv, CursorInv, DoneInv, Ahead
<1>10. SecondsApart /\ OverlapCoversRun => Promise'
  BY <1>2, <1>6 DEF IInv, Promise, NoLoss, FreshInv, FreshAfterRun
<1> QED
  BY <1>3, <1>4, <1>5, <1>7, <1>8, <1>9, <1>10 DEF IInv

\* The source changes: what appears is recent, the cursor still owes what
\* it owed of the rest.
LEMMA SourceIInv ==
  ASSUME IInv, TypeOK', SpoolInv',
         UNCHANGED <<now, mode, wm, s3, spool, pc, runDt, second, dry, filter, buf, max, status>>,
         \A v \in coll' : v \in coll \/ IF v.at = None THEN v.doc \in Untimed
                                        ELSE v.at >= now - Lateness /\ v.at <= now + Skew,
         \A v \in coll' : v \in coll /\ v.doc \in due => v.doc \in due'
  PROVE  IInv'
<1> DEFINE New(v) == v.at # None => v.at >= now - Lateness
<1>1. \A v \in coll' : v \in Version /\ (v \in coll \/ New(v))
  BY DEF TypeOK
<1>2. \A v \in coll' : v.at # None /\ New(v) => v.at >= runDt - Lateness
  <2> SUFFICES ASSUME NEW v \in coll', v.at # None, New(v) PROVE v.at >= runDt - Lateness
    OBVIOUS
  <2>1. v.at \in Nat /\ now \in Nat /\ runDt \in Int /\ runDt <= now
    BY <1>1, VersionParts DEF IInv, TypeOK, ClockOk
  <2> QED
    BY <2>1, ExtractAssumption
<1>3. /\ Seen' = Seen /\ Delivered' = Delivered /\ Kind' = Kind /\ NextFilter' = NextFilter
      /\ \A v : Ahead(v)' <=> Ahead(v)
      /\ Written' = Written
  BY DEF Seen, Written, Delivered, Kind, NextFilter, Ahead
<1>4. /\ InTime' /\ WmInv' /\ MaxInv' /\ FreshStart' /\ (SecondsApart => KeysInv') /\ PutInv' /\ FilterInv'
      /\ DryInv' /\ (SecondsApart => WatermarkBacked')
  BY <1>3
  DEF IInv, InTime, WmInv, MaxInv, FreshStart, KeysInv, PutInv, FilterInv, DryInv, WatermarkBacked
<1>5. SourceInv'
  BY DEF IInv, SourceInv
<1>6. CursorInv'
  <2> SUFFICES ASSUME pc = "scan", NEW v \in coll', Shippable(v), Selects(filter, v)
               PROVE  \/ v \in Seen
                      \/ v.at >= runDt - Lateness
                      \/ IF Sorted(Kind) THEN Ahead(v) ELSE v.doc \in due'
    BY <1>3 DEF CursorInv
  <2>1. CASE v \in coll
    BY <2>1 DEF IInv, CursorInv
  <2>2. CASE New(v)
    BY <1>2, <2>2 DEF Shippable
  <2> QED
    BY <1>1, <2>1, <2>2
<1>7. DoneInv'
  BY <1>1, <1>2, <1>3 DEF IInv, DoneInv, Shippable
<1>8. ASSUME SecondsApart, OverlapCoversRun PROVE FreshInv' /\ FreshAfterRun'
  <2> SUFFICES ASSUME NEW v \in coll', Shippable(v), v.at < runDt - Lateness
               PROVE  v \in coll
    BY <1>3, <1>8 DEF IInv, Promise, FreshInv, FreshAfterRun
  <2>1. v.at \in Nat /\ runDt \in Int
    BY <1>1, VersionParts DEF Shippable, IInv, TypeOK, ClockOk
  <2>2. ~(v.at >= runDt - Lateness)
    BY <2>1, ExtractAssumption
  <2> QED
    BY <1>1, <1>2, <2>2 DEF Shippable
<1>9. ASSUME SecondsApart, OverlapCoversRun PROVE NoLoss'
  <2> SUFFICES ASSUME NEW v \in coll', Shippable(v)
               PROVE  v \in Delivered \/ Selects(NextFilter, v)
    BY <1>3 DEF NoLoss
  <2>1. CASE v \in coll
    BY <1>9, <2>1 DEF IInv, Promise, NoLoss
  <2>2. CASE New(v)
    BY <1>1, <1>9, <2>2, NewSelected DEF Shippable
  <2> QED
    BY <1>1, <2>1, <2>2
<1> QED
  BY <1>4, <1>5, <1>6, <1>7, <1>8, <1>9 DEF IInv, Promise

\* A run ends with the row and the bucket as they were.
LEMMA ReturnIInv ==
  ASSUME IInv, TypeOK', SpoolInv', NEW o, Return(o), UNCHANGED <<wm, s3>>,
         SecondsApart /\ OverlapCoversRun /\ o \in {"ok", "empty"} /\ ~dry =>
           \A v \in coll : Shippable(v) /\ v.at < runDt - Lateness => v \in Delivered
  PROVE  IInv'
<1> USE DEF Return, environment
<1>1. Delivered' = Delivered /\ NextFilter' = NextFilter
  BY DEF Delivered, NextFilter
<1>2. InTime' /\ SourceInv' /\ WmInv' /\ MaxInv' /\ FreshStart'
  BY DEF IInv, InTime, SourceInv, WmInv, MaxInv, FreshStart
<1>3. /\ FilterInv' /\ CursorInv' /\ DoneInv' /\ (SecondsApart => KeysInv') /\ PutInv' /\ DryInv'
      /\ (SecondsApart => WatermarkBacked')
  BY DEF IInv, FilterInv, CursorInv, DoneInv, KeysInv, PutInv, DryInv, WatermarkBacked, Uploading
<1>4. SecondsApart /\ OverlapCoversRun => Promise'
  BY <1>1 DEF IInv, Promise, NoLoss, FreshInv, FreshAfterRun
<1> QED
  BY <1>2, <1>3, <1>4 DEF IInv

\* A run starts, or the operator edits the mode.
LEMMA StartIInv ==
  ASSUME IInv, TypeOK', SpoolInv',
         (\E d \in DryRuns : StartRun(d)) \/ (\E m \in Modes : Reconfigure(m))
  PROVE  IInv'
<1> USE DEF environment, cursor
<1>1. /\ UNCHANGED <<now, coll, wm, s3, filter, due, buf, max>> /\ pc = "idle"
      /\ buf = {} /\ max = None
  BY DEF StartRun, Reconfigure, IInv, FreshStart, MaxInv
<1>2. \/ pc' = "idle" /\ UNCHANGED <<spool, runDt, second, dry, status>>
      \/ /\ pc' = "open" /\ runDt' = now /\ now >= runDt + RunGap /\ status' = "running"
         /\ spool' \subseteq spool /\ (SecondsApart => second' = now)
  BY DEF StartRun, Reconfigure, SweepOrphans
<1>3. Delivered' = Delivered /\ NextFilter' = NextFilter
  BY <1>1 DEF Delivered, NextFilter
<1>4. /\ now \in Nat /\ runDt \in Int /\ RunGap \in Nat \ {0} /\ TimeLimit \in Nat
      /\ second \in Int /\ second <= runDt
      /\ \A o \in s3 : o.key \in Nat
      /\ \A f \in spool : f.run \in Nat /\ f.run <= runDt
  BY ExtractAssumption DEF IInv, TypeOK, ClockOk, FilesOk, SpoolInv
<1>5. InTime' /\ SourceInv' /\ WmInv' /\ MaxInv' /\ FreshStart'
  <2>1. pc' = "open" => Written' = {}
    BY <1>2, <1>4 DEF Written
  <2> QED
    BY <1>1, <1>2, <1>4, <2>1
    DEF IInv, InTime, SourceInv, WmInv, MaxInv, FreshStart
<1>6. (SecondsApart => KeysInv')
  BY <1>1, <1>2, <1>4 DEF IInv, KeysInv
<1>7. FilterInv' /\ CursorInv' /\ DoneInv' /\ PutInv' /\ DryInv' /\ (SecondsApart => WatermarkBacked')
  BY <1>1, <1>2
  DEF IInv, FilterInv, CursorInv, DoneInv, PutInv, DryInv, WatermarkBacked, Uploading
<1>8. SecondsApart /\ OverlapCoversRun => Promise'
  BY <1>1, <1>2, <1>3 DEF IInv, Promise, NoLoss, FreshInv, FreshAfterRun
<1> QED
  BY <1>5, <1>6, <1>7, <1>8 DEF IInv

\* The cursor is opened: it owes everything the filter selects.
LEMMA OpenIInv ==
  ASSUME IInv, TypeOK', SpoolInv', OpenCursor
  PROVE  IInv'
<1> USE DEF OpenCursor, environment
<1>1. Seen = {} /\ Seen' = {} /\ Delivered' = Delivered /\ NextFilter' = NextFilter /\ Kind' = Kind
  BY DEF IInv, FreshStart, Seen, Written, Delivered, NextFilter, Kind
<1>2. InTime' /\ SourceInv' /\ WmInv' /\ FreshStart' /\ (SecondsApart => KeysInv')
  BY DEF IInv, InTime, SourceInv, WmInv, FreshStart, KeysInv
<1>3. MaxInv'
  BY DEF IInv, MaxInv
<1>4. FilterInv'
  BY <1>1 DEF FilterInv
<1>5. CursorInv'
  BY <1>1 DEF CursorInv, Ahead
<1>6. DoneInv' /\ PutInv' /\ DryInv' /\ (SecondsApart => WatermarkBacked')
  BY DEF IInv, DoneInv, PutInv, DryInv, WatermarkBacked, Uploading
<1>7. SecondsApart /\ OverlapCoversRun => Promise'
  BY <1>1 DEF IInv, Promise, NoLoss, FreshInv, FreshAfterRun
<1> QED
  BY <1>2, <1>3, <1>4, <1>5, <1>6, <1>7 DEF IInv

\* A flush moves rows from memory to the file and loses none.
LEMMA AppendSeen ==
  ASSUME UNCHANGED runDt, NEW rows, spool' = Append(rows)
  PROVE  Written' = Written \union rows
<1> DEFINE new == {[run |-> runDt, row |-> v] : v \in rows}
<1>1. spool' = spool \union new
  BY DEF Append
<1>2. \A v \in rows : \E f \in new : f.run = runDt /\ f.row = v
  <2> SUFFICES ASSUME NEW v \in rows PROVE \E f \in new : f.run = runDt /\ f.row = v
    OBVIOUS
  <2> WITNESS [run |-> runDt, row |-> v] \in new
  <2> QED
    OBVIOUS
<1>3. \A f \in new : f.row \in rows
  OBVIOUS
<1>4. \A v : v \in Written <=> \E f \in spool : f.run = runDt /\ f.row = v
  BY DEF Written
<1>5. \A v : v \in Written' <=> \E f \in spool' : f.run = runDt /\ f.row = v
  BY DEF Written
<1> HIDE DEF new
<1> QED
  BY <1>1, <1>2, <1>3, <1>4, <1>5

\* Reading a document adds it to what the run has seen, flush or not.
LEMMA ReadSeen ==
  ASSUME NEW v, Read(v)
  PROVE  Seen' = Seen \union {v}
<1>1. UNCHANGED runDt
  BY DEF Read
<1>2. CASE spool' = Append(buf \union {v}) /\ buf' = {}
  BY <1>1, <1>2, AppendSeen DEF Seen
<1>3. CASE buf' = buf \union {v} /\ UNCHANGED spool
  BY <1>1, <1>3 DEF Seen, Written
<1> QED
  BY <1>2, <1>3 DEF Read

\* Only an append_only collection is read in _id order, and its documents
\* all have an ObjectId.
LEMMA SortedTimed ==
  ASSUME IInv, Sorted(Kind), NEW v \in coll
  PROVE  v.at \in Nat
<1>1. mode = "append_only" /\ mode \in Modes
  BY DEF Sorted, Kind, KindOf, IInv, TypeOK, ControlOk
<1>2. v \in Version /\ v.at # None
  BY <1>1, ExtractAssumption DEF IInv, TypeOK, SourceInv
<1> QED
  BY <1>2, VersionParts

\* One turn of the loop.
LEMMA ReadIInv ==
  ASSUME IInv, TypeOK', SpoolInv', NEW w \in coll, Read(w)
  PROVE  IInv'
<1>1. /\ UNCHANGED <<now, coll, mode, wm, s3, pc, runDt, second, dry, filter, status>>
      /\ pc = "scan" /\ Returnable(w)
      /\ max' = Observe(Kind, max, w) /\ due' = due \ {w.doc}
  BY DEF Read, environment
<1>2. Seen' = Seen \union {w}
  BY ReadSeen
<1>3. Delivered' = Delivered /\ NextFilter' = NextFilter /\ Kind' = Kind
  BY <1>1 DEF Delivered, NextFilter, Kind
<1>4. InTime' /\ SourceInv' /\ WmInv' /\ (SecondsApart => KeysInv') /\ FilterInv'
  BY <1>1, <1>3 DEF IInv, InTime, SourceInv, WmInv, KeysInv, FilterInv
<1>5. MaxInv'
  <2>1. max' = max \/ max' = w.at
    BY <1>1 DEF Observe, ObserveObjectId, ObserveTimestamp
  <2>2. w.at # None => w.at <= now + Skew
    BY DEF IInv, SourceInv
  <2> QED
    BY <1>1, <1>2, <2>1, <2>2 DEF IInv, MaxInv
<1>6. CursorInv'
  <2> SUFFICES ASSUME NEW v \in coll, Shippable(v), Selects(filter, v),
                      v # w, v \notin Seen, ~(v.at >= runDt - Lateness)
               PROVE  IF Sorted(Kind) THEN Ahead(v)' ELSE v.doc \in due'
    BY <1>1, <1>2, <1>3 DEF CursorInv
  <2>1. IF Sorted(Kind) THEN Ahead(v) ELSE v.doc \in due
    BY <1>1 DEF IInv, CursorInv
  <2>2. CASE Sorted(Kind)
    <3>1. ~IdLess(v, w)
      BY <1>1, <2>1, <2>2 DEF Returnable
    <3>2. v.at \in Nat /\ w.at \in Nat /\ v.doc \in Nat /\ w.doc \in Nat
      BY <2>2, SortedTimed, VersionParts DEF IInv, TypeOK
    <3>3. v.doc # w.doc
      BY DEF IInv, TypeOK
    <3>4. IdLess(w, v)
      BY <3>1, <3>2, <3>3 DEF IdLess
    <3> QED
      BY <1>1, <1>2, <2>1, <2>2, <3>4 DEF Ahead
  <2>3. CASE ~Sorted(Kind)
    BY <1>1, <2>1, <2>3 DEF IInv, TypeOK
  <2> QED
    BY <2>2, <2>3
<1>7. FreshStart' /\ DoneInv' /\ PutInv' /\ DryInv' /\ (SecondsApart => WatermarkBacked')
  BY <1>1 DEF IInv, FreshStart, DoneInv, PutInv, DryInv, WatermarkBacked, Uploading
<1>8. SecondsApart /\ OverlapCoversRun => Promise'
  BY <1>1, <1>3 DEF IInv, Promise, NoLoss, FreshInv, FreshAfterRun
<1> QED
  BY <1>4, <1>5, <1>6, <1>7, <1>8 DEF IInv

\* The file is complete.
LEMMA FinishIInv ==
  ASSUME IInv, TypeOK', SpoolInv', FinishScan
  PROVE  IInv'
<1> USE DEF FinishScan, environment
<1>1. Seen' = Seen
  BY AppendSeen DEF Seen
<1>2. Delivered' = Delivered /\ NextFilter' = NextFilter /\ Kind' = Kind
  BY DEF Delivered, NextFilter, Kind
<1>3. InTime' /\ SourceInv' /\ WmInv' /\ (SecondsApart => KeysInv') /\ FreshStart'
  BY DEF IInv, InTime, SourceInv, WmInv, KeysInv, FreshStart
<1>4. MaxInv' /\ FilterInv'
  BY <1>1, <1>2 DEF IInv, MaxInv, FilterInv, Uploading
<1>5. DoneInv'
  BY <1>1, ExhaustedRead DEF DoneInv
<1>6. CursorInv' /\ PutInv' /\ DryInv' /\ (SecondsApart => WatermarkBacked')
  BY DEF IInv, CursorInv, PutInv, DryInv, WatermarkBacked, Uploading
<1>7. SecondsApart /\ OverlapCoversRun => Promise'
  BY <1>2 DEF IInv, Promise, NoLoss, FreshInv, FreshAfterRun
<1> QED
  BY <1>3, <1>4, <1>5, <1>6, <1>7 DEF IInv

\* The object is stored: everything read is in the bucket, nothing else left.
LEMMA PutIInv ==
  ASSUME IInv, TypeOK', SpoolInv', PutObject
  PROVE  IInv'
<1> USE DEF PutObject, environment, cursor
<1>1. SecondsApart => s3 \subseteq s3'
  BY PutKeeps
<1>2. (SecondsApart => Delivered \subseteq Delivered') /\ Written \subseteq Delivered'
  <2>1. SecondsApart => Delivered \subseteq Delivered'
    BY <1>1 DEF Delivered
  <2>2. ASSUME NEW v \in Written PROVE \E o \in s3' : o.row = v
    <3> DEFINE o == [key |-> second, row |-> v]
    <3>1. o \in s3' /\ o.row = v
      BY DEF PutRows
    <3> QED
      BY <3>1
  <2> QED
    BY <2>1, <2>2 DEF Delivered
<1>3. Seen' = Seen /\ Seen = Written /\ NextFilter' = NextFilter /\ Kind' = Kind
  BY DEF IInv, FreshStart, Seen, Written, NextFilter, Kind
<1>4. InTime' /\ SourceInv' /\ WmInv' /\ FreshStart'
  BY DEF IInv, InTime, SourceInv, WmInv, FreshStart
<1>5. MaxInv' /\ FilterInv' /\ DoneInv'
  BY <1>3 DEF IInv, MaxInv, FilterInv, DoneInv, Uploading
<1>6. (SecondsApart => KeysInv')
  <2>1. \A o \in s3' : o \in s3 \/ o.key = second
    BY DEF PutRows
  <2>2. second \in Int
    BY DEF IInv, TypeOK, ClockOk
  <2> QED
    BY <2>1, <2>2 DEF IInv, KeysInv
<1>7. PutInv' /\ CursorInv' /\ DryInv'
  BY <1>2, <1>3 DEF IInv, PutInv, CursorInv, DryInv, Uploading
<1>8. SecondsApart /\ OverlapCoversRun => Promise'
  BY <1>2, <1>3 DEF IInv, Promise, NoLoss, FreshInv, FreshAfterRun
<1>9. (SecondsApart => WatermarkBacked')
  BY <1>1 DEF IInv, WatermarkBacked
<1> QED
  BY <1>4, <1>5, <1>6, <1>7, <1>8, <1>9 DEF IInv

\* The upload is confirmed.
LEMMA HeadIInv ==
  ASSUME IInv, TypeOK', SpoolInv', HeadObject
  PROVE  IInv'
<1> USE DEF HeadObject, environment, cursor
<1>1. Seen' = Seen /\ Delivered' = Delivered /\ NextFilter' = NextFilter /\ Kind' = Kind
  BY DEF Seen, Written, Delivered, NextFilter, Kind
<1>2. InTime' /\ SourceInv' /\ WmInv' /\ FreshStart' /\ (SecondsApart => KeysInv')
  BY DEF IInv, InTime, SourceInv, WmInv, FreshStart, KeysInv
<1>3. MaxInv' /\ FilterInv' /\ DoneInv'
  BY <1>1 DEF IInv, MaxInv, FilterInv, DoneInv, Uploading
<1>4. PutInv' /\ CursorInv' /\ DryInv' /\ (SecondsApart => WatermarkBacked')
  BY <1>1 DEF IInv, PutInv, CursorInv, DryInv, WatermarkBacked, Uploading
<1>5. SecondsApart /\ OverlapCoversRun => Promise'
  BY <1>1 DEF IInv, Promise, NoLoss, FreshInv, FreshAfterRun
<1> QED
  BY <1>2, <1>3, <1>4, <1>5 DEF IInv

\* When the run commits, everything stamped more than Lateness before its
\* start is in the bucket: it was read now, or shipped before.
LEMMA CommitDelivered ==
  ASSUME IInv, SecondsApart, OverlapCoversRun, pc = "commit",
         NEW v \in coll, Shippable(v), v.at < runDt - Lateness
  PROVE  v \in Delivered
<1>1. ~(v.at >= runDt - Lateness)
  <2>1. v \in Version /\ v.at # None /\ runDt \in Int
    BY DEF Shippable, IInv, TypeOK, ClockOk
  <2>2. v.at \in Nat
    BY <2>1, VersionParts
  <2> QED
    BY <2>1, <2>2, ExtractAssumption
<1>2. CASE Selects(filter, v)
  BY <1>1, <1>2 DEF IInv, DoneInv, PutInv, Uploading
<1>3. CASE ~Selects(filter, v)
  BY <1>3, LeftOutDelivered DEF Uploading
<1> QED
  BY <1>2, <1>3

\* The watermark advances: this is where a document could be passed by.
LEMMA CommitIInv ==
  ASSUME IInv, TypeOK', SpoolInv', Commit
  PROVE  IInv'
<1> USE DEF Commit, environment, cursor
<1>1. Seen' = Seen /\ Delivered' = Delivered
  BY DEF Seen, Written, Delivered
<1>2. \/ wm' = wm
      \/ wm' = [kind |-> Kind, value |-> max] /\ max # None
  BY DEF NewWatermark, SetWatermark
<1>3. InTime' /\ SourceInv' /\ FreshStart' /\ (SecondsApart => KeysInv')
  BY DEF IInv, InTime, SourceInv, FreshStart, KeysInv
<1>4. WmInv' /\ MaxInv'
  BY <1>1, <1>2 DEF IInv, WmInv, MaxInv
<1>5. PutInv' /\ FilterInv' /\ CursorInv' /\ DoneInv' /\ DryInv'
  BY <1>1 DEF IInv, PutInv, FilterInv, CursorInv, DoneInv, DryInv, Uploading
<1>6. ASSUME SecondsApart, OverlapCoversRun PROVE FreshInv' /\ FreshAfterRun'
  BY <1>1, <1>6, CommitDelivered DEF FreshInv, FreshAfterRun
<1>7. (SecondsApart => WatermarkBacked')
  <2>1. ASSUME wm' = [kind |-> Kind, value |-> max], max # None
        PROVE  \E o \in s3 : o.row.at = max
    <3>1. PICK v \in Seen : v.at = max
      BY <2>1 DEF IInv, MaxInv
    <3>2. v \in Delivered
      BY DEF IInv, PutInv
    <3> QED
      BY <3>1, <3>2 DEF Delivered
  <2> QED
    BY <1>2, <2>1 DEF IInv, WatermarkBacked
<1>8. ASSUME SecondsApart, OverlapCoversRun PROVE NoLoss'
  <2>1. CASE wm' = wm
    BY <1>1, <1>8, <2>1 DEF IInv, Promise, NoLoss, NextFilter
  <2>2. CASE wm' = [kind |-> Kind, value |-> max] /\ max # None
    <3> SUFFICES ASSUME NEW v \in coll, Shippable(v), v \notin Delivered
                 PROVE  Selects(NextFilter', v)
      BY <1>1 DEF NoLoss
    <3>1. v \in Version /\ v.at # None /\ runDt \in Int
      BY DEF Shippable, IInv, TypeOK, ClockOk
    <3>2. v.at >= runDt - Lateness
      <4>1. ~(v.at < runDt - Lateness)
        BY <1>8, CommitDelivered
      <4>2. v.at \in Nat
        BY <3>1, VersionParts
      <4> QED
        BY <3>1, <4>1, <4>2, ExtractAssumption
    <3>3. wm' \in Row /\ wm'.value = max /\ wm' # NoRow
      <4>1. max \in Nat
        BY <2>2 DEF IInv, TypeOK, LocalsOk, Stamp
      <4> QED
        BY <2>2, <4>1, KindTyped DEF Row, NoRow, Kind, Kinds
    <3>4. max <= runDt + TimeLimit + Skew
      <4>1. max <= now + Skew /\ now <= runDt + TimeLimit
        BY <2>2 DEF IInv, MaxInv, InTime
      <4>2. max \in Nat /\ now \in Nat
        BY <2>2 DEF IInv, TypeOK, LocalsOk, ClockOk, Stamp
      <4> QED
        BY <3>1, <4>1, <4>2, ExtractAssumption
    <3> QED
      BY <1>8, <3>1, <3>2, <3>3, <3>4, RecentSelected DEF NextFilter
  <2> QED
    BY <1>2, <2>1, <2>2
<1> QED
  BY <1>3, <1>4, <1>5, <1>6, <1>7, <1>8 DEF IInv, Promise

-----------------------------------------------------------------------------
\* IInv is inductive, whatever the overlap and the seconds of the starts.
LEMMA NextIInv == IInv /\ [Next]_vars => IInv'
<1> SUFFICES ASSUME IInv, [Next]_vars PROVE IInv'
  OBVIOUS
<1>0. TypeOK' /\ SpoolInv'
  BY NextTypeOK, NextSpoolInv DEF IInv
<1>1. CASE Tick
  BY <1>0, <1>1, TickIInv
<1>2. CASE Source
  <2>1. ASSUME NEW d \in Docs, NEW s \in Stamps, Insert(d, s) PROVE IInv'
    <3> DEFINE new == [doc |-> d, at |-> IF d \in Untimed THEN None ELSE s]
    <3>1. IF new.at = None THEN new.doc \in Untimed
          ELSE new.at >= now - Lateness /\ new.at <= now + Skew
      BY NoneAssumption, ExtractAssumption DEF Stamps, IInv, TypeOK, ClockOk
    <3>2. coll' = coll \union {new}
      BY <2>1 DEF Insert
    <3> HIDE DEF new
    <3> QED
      BY <1>0, <2>1, <3>1, <3>2, SourceIInv DEF Insert, cursor
  <2>2. ASSUME NEW v \in coll, NEW s \in Stamps, Update(v, s) PROVE IInv'
    <3> DEFINE new == [v EXCEPT !.at = s]
    <3>1. new.at # None /\ new.at >= now - Lateness /\ new.at <= now + Skew
      BY NoneAssumption, ExtractAssumption
      DEF Stamps, IInv, TypeOK, ClockOk, Version
    <3>2. coll' = (coll \ {v}) \union {new}
      BY <2>2 DEF Update
    <3> HIDE DEF new
    <3> QED
      BY <1>0, <2>2, <3>1, <3>2, SourceIInv DEF Update, cursor
  <2>3. ASSUME NEW v \in coll, Delete(v) PROVE IInv'
    <3>1. coll' = coll \ {v} /\ due' = due \ {v.doc}
      BY <2>3 DEF Delete
    <3>2. \A u \in coll' : u.doc # v.doc
      BY <3>1 DEF IInv, TypeOK
    <3> QED
      BY <1>0, <2>3, <3>1, <3>2, SourceIInv DEF Delete
  <2> QED
    BY <1>2, <2>1, <2>2, <2>3 DEF Source
<1>3. CASE (\E d \in DryRuns : StartRun(d)) \/ (\E m \in Modes : Reconfigure(m))
  BY <1>0, <1>3, StartIInv
<1>4. CASE OpenCursor
  BY <1>0, <1>4, OpenIInv
<1>5. ASSUME NEW v \in coll, Read(v) PROVE IInv'
  BY <1>0, <1>5, ReadIInv
<1>6. CASE FinishScan
  BY <1>0, <1>6, FinishIInv
<1>7. CASE PutObject
  BY <1>0, <1>7, PutIInv
<1>8. CASE HeadObject
  BY <1>0, <1>8, HeadIInv
<1>9. CASE Commit
  BY <1>0, <1>9, CommitIInv
<1>10. CASE FinishEmpty
  <2>1. pc = "scan" /\ Exhausted /\ Seen = {} /\ Return("empty") /\ UNCHANGED <<wm, s3>>
    BY <1>10 DEF FinishEmpty
  <2>2. ASSUME SecondsApart, OverlapCoversRun, NEW v \in coll, Shippable(v), v.at < runDt - Lateness
        PROVE  v \in Delivered
    <3>1. ~(v.at >= runDt - Lateness)
      <4>1. v \in Version /\ v.at # None /\ runDt \in Int
        BY <2>2 DEF Shippable, IInv, TypeOK, ClockOk
      <4>2. v.at \in Nat
        BY <4>1, VersionParts
      <4> QED
        BY <2>2, <4>1, <4>2, ExtractAssumption
    <3>2. ~Selects(filter, v)
      BY <2>1, <2>2, <3>1, ExhaustedRead
    <3> QED
      BY <2>1, <2>2, <3>2, LeftOutDelivered
  <2> QED
    BY <1>0, <2>1, <2>2, ReturnIInv
<1>11. CASE FinishDry
  <2>1. dry /\ Return("ok") /\ UNCHANGED <<wm, s3>>
    BY <1>11 DEF FinishDry
  <2> QED
    BY <1>0, <2>1, ReturnIInv
<1>12. CASE Cleanup
  <2>1. pc = "unlink" /\ Return("ok") /\ UNCHANGED <<wm, s3>>
    BY <1>12 DEF Cleanup
  <2> QED
    BY <1>0, <2>1, ReturnIInv DEF IInv, Promise, FreshInv
<1>13. CASE RejectKind \/ Failure
  <2>1. /\ Return("failed") \/ Return("crashed")
        /\ UNCHANGED <<wm, s3>>
    BY <1>13
    DEF RejectKind, Failure, ConnectFails, ScanFails, CloseFails, UploadFails,
        TransferFails, HeadFails, CommitFails, CleanupFails, Crash
  <2> QED
    BY <1>0, <2>1, ReturnIInv
<1>14. CASE UNCHANGED vars
  <2>1. Seen' = Seen /\ Delivered' = Delivered /\ Kind' = Kind /\ NextFilter' = NextFilter
        /\ Written' = Written
    BY <1>14 DEF vars, Seen, Written, Delivered, Kind, NextFilter
  <2>2. InTime' /\ SourceInv' /\ WmInv' /\ MaxInv' /\ FreshStart' /\ FilterInv'
    BY <1>14, <2>1
    DEF vars, IInv, InTime, SourceInv, WmInv, MaxInv, FreshStart, FilterInv
  <2>3. CursorInv' /\ DoneInv' /\ (SecondsApart => KeysInv') /\ PutInv' /\ DryInv' /\ (SecondsApart => WatermarkBacked')
    BY <1>14, <2>1
    DEF vars, IInv, CursorInv, DoneInv, KeysInv, PutInv, DryInv, WatermarkBacked, Ahead
  <2>4. SecondsApart /\ OverlapCoversRun => Promise'
    BY <1>14, <2>1 DEF vars, IInv, Promise, NoLoss, FreshInv, FreshAfterRun
  <2> QED
    BY <1>0, <2>2, <2>3, <2>4 DEF IInv
<1> QED
  BY <1>1, <1>2, <1>3, <1>4, <1>5, <1>6, <1>7, <1>8, <1>9, <1>10, <1>11, <1>12, <1>13, <1>14
  DEF Next, Step, Agent

\* The inductive invariant holds, and with it all that IInv names: what a run
\* has read and stored, and, as far as the overlap and the seconds of the
\* starts allow it, the promises.
THEOREM InvariantHolds == Spec => []IInv
<1>1. Init => IInv
  BY InitIInv
<1>2. IInv /\ [Next]_vars => IInv'
  BY NextIInv
<1> QED
  BY <1>1, <1>2, PTL DEF Spec

\* With an overlap_seconds that covers a run's time limit, the lateness and
\* the skew of the clients' stamps, and no two starts in one second, no
\* document is skipped for good.
THEOREM NeverLoses == ASSUME SecondsApart, OverlapCoversRun PROVE Spec => []NoLoss
<1>1. IInv => NoLoss
  BY DEF IInv, Promise
<1> QED
  BY <1>1, InvariantHolds, PTL

\* Where no two runs start in one second, the stored watermark always has a
\* row in the bucket behind it.
THEOREM NeverAhead == ASSUME SecondsApart PROVE Spec => []WatermarkBacked
<1>1. IInv => WatermarkBacked
  BY DEF IInv
<1> QED
  BY <1>1, InvariantHolds, PTL

\* A run reported ok or empty has left nothing old behind: same conditions.
THEOREM OkMeansFresh == ASSUME SecondsApart, OverlapCoversRun PROVE Spec => []FreshAfterRun
<1>1. IInv => FreshAfterRun
  BY DEF IInv, Promise
<1> QED
  BY <1>1, InvariantHolds, PTL

\* Only Commit writes the state row, only PutObject the bucket.
LEMMA OnlyCommitWrites == [Next]_vars /\ ~Commit => UNCHANGED wm
  BY DEF Next, Step, vars, Tick, Source, Insert, Update, Delete, Reconfigure, StartRun, Agent,
         Failure, ConnectFails, RejectKind, OpenCursor, Read, ScanFails, FinishEmpty,
         FinishScan, FinishDry, CloseFails, PutObject, UploadFails, TransferFails,
         HeadObject, HeadFails, CommitFails, Cleanup, CleanupFails, Crash

LEMMA OnlyPutStores == [Next]_vars /\ ~PutObject => UNCHANGED s3
  BY DEF Next, Step, vars, Tick, Source, Insert, Update, Delete, Reconfigure, StartRun, Agent,
         Failure, ConnectFails, RejectKind, OpenCursor, Read, ScanFails, FinishEmpty,
         FinishScan, FinishDry, CloseFails, Commit, UploadFails, TransferFails,
         HeadObject, HeadFails, CommitFails, Cleanup, CleanupFails, Crash, environment, cursor

\* A stored kind is never replaced: a mode change is refused first.
THEOREM KindNeverChanges == Spec => KindStable
<1>1. Spec => []IInv
  BY InvariantHolds
<1>2. ASSUME IInv, IInv', [Next]_vars, wm # NoRow PROVE wm' # NoRow /\ wm'.kind = wm.kind
  <2>1. CASE Commit
    <3>1. ~KindMismatch(wm, Kind)
      BY <1>2, <2>1 DEF Commit, IInv, FilterInv, Uploading
    <3>2. wm.kind = Kind
      BY <1>2, <3>1 DEF KindMismatch
    <3>3. wm' = wm \/ wm' = [kind |-> Kind, value |-> NewWatermark(Kind, max)]
      BY <2>1 DEF Commit, SetWatermark
    <3>4. Kind # "none"
      BY KindTyped DEF Kind, Kinds
    <3> QED
      BY <1>2, <3>2, <3>3, <3>4 DEF NoRow
  <2>2. CASE ~Commit
    BY <1>2, <2>2, OnlyCommitWrites
  <2> QED
    BY <2>1, <2>2
<1>3. IInv /\ IInv' /\ [Next]_vars => [wm # NoRow => wm' # NoRow /\ wm'.kind = wm.kind]_vars
  BY <1>2
<1> QED
  BY <1>1, <1>3, PTL DEF Spec, KindStable

\* Where no two runs start in one second, no upload takes an earlier object
\* away; and a dry run changes nothing that outlives it.
THEOREM BucketOnlyGrows == ASSUME SecondsApart PROVE Spec => BucketGrows
<1>1. Spec => []IInv
  BY InvariantHolds
<1>2. ASSUME IInv, [Next]_vars PROVE s3 \subseteq s3' /\ (dry => s3' = s3 /\ wm' = wm)
  <2>1. CASE PutObject
    <3>1. s3 \subseteq s3' /\ pc = "upload"
      BY <1>2, <2>1, PutKeeps DEF PutObject
    <3> QED
      BY <1>2, <3>1 DEF IInv, DryInv, Uploading
  <2>2. CASE Commit
    BY <1>2, <2>2, OnlyPutStores DEF Commit, PutObject, IInv, DryInv, Uploading
  <2>3. CASE ~PutObject /\ ~Commit
    BY <1>2, <2>3, OnlyPutStores, OnlyCommitWrites
  <2> QED
    BY <2>1, <2>2, <2>3
<1>3. IInv /\ [Next]_vars => [s3 \subseteq s3' /\ (dry => s3' = s3 /\ wm' = wm)]_vars
  BY <1>2
<1> QED
  BY <1>1, <1>3, PTL DEF Spec, BucketGrows
=============================================================================
