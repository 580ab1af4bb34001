------------------------------ MODULE Extract ------------------------------
(***************************************************************************)
(* One collection of the agent, from the MongoDB collection to the bucket: *)
(* extract_collection (mongo/extract.py) with the parts of run_cycle       *)
(* (runner.py), the spool, the sink, the uploader and the state store it   *)
(* goes through, against a source that keeps changing while it is read.    *)
(*                                                                         *)
(* A run may stop dead between any two steps (Crash): the process memory   *)
(* is lost; the state row, the bucket and the spool stay.  Runs never      *)
(* overlap here: that is the lock's and the scheduler's business.          *)
(***************************************************************************)
EXTENDS Watermark, FiniteSets

CONSTANTS
  Modes,         \* values the operator may give cfg.mode between runs
  Untimed,       \* documents that do not carry the watermark field
  Updatable,     \* documents the application may change in place
  Deletable,     \* documents the application may delete
  BatchSize,     \* cfg.batch_size (pymongo's find refuses a negative one)
  DryRuns,       \* which values of --dry-run runs are started with
  Lateness,      \* most ticks from minting a stamp to the document being visible
  Skew,          \* most ticks a client's clock runs ahead of the agent's
  TimeLimit,     \* the scheduled task's ExecutionTimeLimit: it kills the run
  RunGap,        \* least ticks between the starts of two runs
  SecondsApart,  \* does every run start in a second of its own?
  HeadAllowed,   \* may the agent's credentials call head_object?
  MaxTime,       \* bound: the clock stops here
  WriteUntil,    \* bound: the source is quiet after this time
  MaxFaults      \* bound: faults and crashes of one behaviour

ASSUME ExtractAssumption ==
  /\ Modes \subseteq AllModes /\ Modes # {}
  /\ Untimed \subseteq Docs /\ Updatable \subseteq Docs /\ Deletable \subseteq Docs
     \* append_only: every _id is an ObjectId, documents are only inserted
  /\ "append_only" \in Modes => Untimed = {} /\ Updatable = {}
  /\ BatchSize \in Nat
  /\ DryRuns \subseteq BOOLEAN
  /\ Lateness \in Nat /\ Skew \in Nat /\ TimeLimit \in Nat
  /\ RunGap \in Nat \ {0}     \* so that run_dt names a run, as run_id does
  /\ SecondsApart \in BOOLEAN /\ HeadAllowed \in BOOLEAN
  /\ MaxTime \in Nat /\ WriteUntil \in Nat /\ MaxFaults \in Nat

VARIABLES
  now,      \* wall clock
  coll,     \* what MongoDB holds: at most one version of each document
  mode,     \* cfg.mode
  wm,       \* the collection's row of the watermarks table
  s3,       \* rows in the bucket: [key, row], key = second of the upload's run
  spool,    \* rows in files under spool_dir: [run, row]
  pc,       \* where the run stands; "idle" when no process is running
  runDt,    \* run_dt of the current, or else the last, run
  second,   \* its second, named after the first start in it
  dry,      \* run_ctx.dry_run
  filter,   \* the find() filter of the open cursor
  due,      \* documents the cursor matched when opened and still owes
  buf,      \* `rows`: read, not yet flushed
  max,      \* the strategy's running maximum
  status,   \* outcome of the current or last run for this collection
  faults    \* faults so far

environment == <<now, coll, mode>>
cursor == <<filter, due, buf, max>>
vars == <<now, coll, mode, wm, s3, spool, pc, runDt, second, dry, filter, due, buf, max,
          status, faults>>

---------------------------------------------------------------------------
Kind == KindOf(mode)

\* Rows of this run's spool file; the file exists once it has a row, since
\* the ParquetWriter is created by the first non-empty write.
Written == {f.row : f \in {g \in spool : g.run = runDt}}

\* Every version the cursor has returned to this run.
Seen == buf \union Written

\* Versions that have reached the bucket.
Delivered == {o.row : o \in s3}

\* Fault: a flush replaces the row group written before.
AppendTruncates(rows) ==
  {f \in spool : f.run # runDt} \union {[run |-> runDt, row |-> v] : v \in rows}

\* ParquetVariantSink.write_rows: the rows become a row group of the file.
Append(rows) == spool \union {[run |-> runDt, row |-> v] : v \in rows}

\* spool_file.unlink: this run's file goes, others stay.
Unlinked == {f \in spool : f.run # runDt}

\* sink.abort swallows what the unlink raises: the file may stay.
Abort == spool' \in {Unlinked, spool}

\* sweep_orphans: the directories of other runs are removed but for those
\* that are stuck, since rmtree ignores its errors.
SweepOrphans(stuck) == {f \in spool : f.run \in stuck}

\* S3 PUT is atomic and replaces an object with the same key.
PutRows(key, rows) ==
  {o \in s3 : o.key # key} \union {[key |-> key, row |-> v] : v \in rows}

---------------------------------------------------------------------------
Init ==
  /\ now = 0 /\ coll = {} /\ mode \in Modes
  /\ wm = NoRow /\ s3 = {} /\ spool = {}
  /\ pc = "idle" /\ runDt = -RunGap /\ second = runDt /\ dry = FALSE
  /\ filter = Everything /\ due = {} /\ buf = {} /\ max = None
  /\ status = "none" /\ faults = 0

\* The scheduled task is killed at its time limit, so a run sees no later time.
Tick ==
  /\ now < MaxTime
  /\ pc # "idle" => now < runDt + TimeLimit
  /\ now' = now + 1
  /\ UNCHANGED <<coll, mode, wm, s3, spool, pc, runDt, second, dry, cursor, status, faults>>

\* Stamps a client may have given to what becomes visible now.
Stamps == {s \in 0..(now + Skew) : s >= now - Lateness}

Insert(d, s) ==
  /\ now <= WriteUntil
  /\ \A v \in coll : v.doc # d
  /\ coll' = coll \union {[doc |-> d, at |-> IF d \in Untimed THEN None ELSE s]}
  /\ UNCHANGED <<now, mode, wm, s3, spool, pc, runDt, second, dry, cursor, status, faults>>

\* Only collections never configured append_only have documents updated.
Update(v, s) ==
  /\ now <= WriteUntil
  /\ v.doc \in Updatable
  /\ v.at # None /\ v.at # s
  /\ coll' = (coll \ {v}) \union {[v EXCEPT !.at = s]}
  /\ UNCHANGED <<now, mode, wm, s3, spool, pc, runDt, second, dry, cursor, status, faults>>

Delete(v) ==
  /\ now <= WriteUntil
  /\ v.doc \in Deletable
  /\ coll' = coll \ {v}
  /\ due' = due \ {v.doc}
  /\ UNCHANGED <<now, mode, wm, s3, spool, pc, runDt, second, dry, filter, buf, max, status, faults>>

\* The operator edits cfg.mode; a run reads the configuration when it starts.
Reconfigure(m) ==
  /\ pc = "idle"
  /\ m # mode
  /\ mode' = m
  /\ UNCHANGED <<now, coll, wm, s3, spool, pc, runDt, second, dry, cursor, status, faults>>

---------------------------------------------------------------------------
\* One of the MaxFaults things that may go wrong.
Fault == faults < MaxFaults /\ faults' = faults + 1

\* The unit is over, or the process is: its locals are gone.
Return(outcome) ==
  /\ pc' = "idle"
  /\ status' = outcome
  /\ filter' = Everything /\ due' = {} /\ buf' = {} /\ max' = None
  /\ UNCHANGED <<environment, runDt, second, dry>>

\* run_cycle up to the extraction: a fresh run_dt, which may fall into the
\* second of the last run, and an empty spool directory.
StartRun(dryRun) ==
  /\ pc = "idle"
  /\ now >= runDt + RunGap
  /\ runDt' = now
  /\ \/ second' = now
     \/ ~SecondsApart /\ runDt >= 0 /\ second' = second
  /\ dry' = dryRun
  /\ \E stuck \in SUBSET {f.run : f \in spool} : spool' = SweepOrphans(stuck)
  /\ pc' = "open"
  /\ status' = "running"
  /\ UNCHANGED <<environment, wm, s3, cursor, faults>>

\* extract_all: no client, or the ping fails.
ConnectFails ==
  /\ pc = "open"
  /\ Fault
  /\ Return("failed")
  /\ UNCHANGED <<wm, s3, spool>>

\* validate_watermark_kind raises; extract_all reports the unit failed.
RejectKind ==
  /\ pc = "open"
  /\ KindMismatch(wm, Kind)
  /\ Return("failed")
  /\ UNCHANGED <<wm, s3, spool, faults>>

\* Fault: the stored kind is not compared with the configured one.
OpenCursorUnchecked ==
  /\ pc = "open"
  /\ filter' = BuildFilter(Kind, wm)
  /\ due' = {v.doc : v \in {w \in coll : Selects(filter', w)}}
  /\ pc' = "scan"
  /\ UNCHANGED <<environment, wm, s3, spool, runDt, second, dry, buf, max, status, faults>>

\* get_watermark, build_filter, coll.find.
OpenCursor ==
  /\ pc = "open"
  /\ ~KindMismatch(wm, Kind)
  /\ filter' = BuildFilter(Kind, wm)
  /\ due' = {v.doc : v \in {w \in coll : Selects(filter', w)}}
  /\ pc' = "scan"
  /\ UNCHANGED <<environment, wm, s3, spool, runDt, second, dry, buf, max, status, faults>>

\* What the cursor may return next.  Sorted, it only moves up; unsorted, it
\* returns what it owes and may return what changed behind its back.
Ahead(v) == Selects(filter, v) /\ \A u \in Seen : IdLess(u, v)
Returnable(v) ==
  IF Sorted(Kind)
  THEN Ahead(v) /\ \A w \in coll : Ahead(w) => ~IdLess(w, v)
  ELSE Selects(filter, v) /\ v \notin Seen

\* The cursor has nothing left that it must return.
Exhausted ==
  IF Sorted(Kind)
  THEN \A v \in coll : ~Ahead(v)
  ELSE \A v \in coll : v.doc \in due => ~Selects(filter, v)

\* One turn of the loop: observe, append, and flush when the batch is full.
Read(v) ==
  /\ pc = "scan"
  /\ Returnable(v)
  /\ max' = Observe(Kind, max, v)
  /\ due' = due \ {v.doc}
  /\ IF Cardinality(buf \union {v}) >= BatchSize
     THEN spool' = Append(buf \union {v}) /\ buf' = {}
     ELSE buf' = buf \union {v} /\ UNCHANGED spool
  /\ UNCHANGED <<environment, wm, s3, pc, runDt, second, dry, filter, status, faults>>

\* The cursor or a write_rows raises inside the try block.
ScanFails ==
  /\ pc = "scan"
  /\ Fault
  /\ Abort
  /\ Return("failed")
  /\ UNCHANGED <<wm, s3>>

FinishEmpty ==
  /\ pc = "scan"
  /\ Exhausted
  /\ Seen = {}
  /\ Return("empty")
  /\ UNCHANGED <<wm, s3, spool, faults>>

\* Fault: --dry-run is not looked at.
FinishScanAnyway ==
  /\ pc = "scan"
  /\ Exhausted
  /\ Seen # {}
  /\ spool' = Append(buf)
  /\ buf' = {}
  /\ pc' = "upload"
  /\ UNCHANGED <<environment, wm, s3, runDt, second, dry, filter, due, max, status, faults>>

\* The last flush and sink.close; on to the upload.
FinishScan ==
  /\ pc = "scan"
  /\ Exhausted
  /\ Seen # {}
  /\ ~dry
  /\ spool' = Append(buf)
  /\ buf' = {}
  /\ pc' = "upload"
  /\ UNCHANGED <<environment, wm, s3, runDt, second, dry, filter, due, max, status, faults>>

\* A dry run writes the file, closes it and removes it.
FinishDry ==
  /\ pc = "scan"
  /\ Exhausted
  /\ Seen # {}
  /\ dry
  /\ spool' = Unlinked
  /\ Return("ok")
  /\ UNCHANGED <<wm, s3, faults>>

\* sink.close, and a dry run's unlink, are outside the try block: when they
\* raise, the file stays.
CloseFails ==
  /\ pc = "scan"
  /\ Exhausted
  /\ Seen # {}
  /\ Fault
  /\ spool' = Append(buf)
  /\ Return("failed")
  /\ UNCHANGED <<wm, s3>>

---------------------------------------------------------------------------
\* upload_file has stored the object.
PutObject ==
  /\ pc = "upload"
  /\ s3' = PutRows(second, Written)
  /\ pc' = "verify"
  /\ UNCHANGED <<environment, wm, spool, runDt, second, dry, cursor, status, faults>>

\* A botocore error becomes UploadError: the file is removed.
UploadFails ==
  /\ pc = "upload"
  /\ Fault
  /\ Abort
  /\ Return("failed")
  /\ UNCHANGED <<wm, s3>>

\* boto3's own S3UploadFailedError is no botocore error: it passes through
\* upload and extract_collection up to extract_all, and the file stays.
TransferFails ==
  /\ pc = "upload"
  /\ Fault
  /\ Return("failed")
  /\ UNCHANGED <<wm, s3, spool>>

HeadObject ==
  /\ pc = "verify"
  /\ HeadAllowed
  /\ pc' = "commit"
  /\ UNCHANGED <<environment, wm, s3, spool, runDt, second, dry, cursor, status, faults>>

\* head_object is refused or fails: UploadError, although the object is there.
HeadFails ==
  /\ pc = "verify"
  /\ IF HeadAllowed THEN Fault ELSE UNCHANGED faults
  /\ Abort
  /\ Return("failed")
  /\ UNCHANGED <<wm, s3>>

\* Fault: the watermark moves to the clock instead of to what was read.
CommitNow ==
  /\ pc = "commit"
  /\ wm' = IF NewWatermark(Kind, max) = None THEN wm
           ELSE [kind |-> Kind, value |-> now]
  /\ pc' = "unlink"
  /\ UNCHANGED <<environment, s3, spool, runDt, second, dry, cursor, status, faults>>

\* Fault: None is stored when there is nothing to advance.
CommitAlways ==
  /\ pc = "commit"
  /\ wm' = [kind |-> Kind, value |-> NewWatermark(Kind, max)]
  /\ pc' = "unlink"
  /\ UNCHANGED <<environment, s3, spool, runDt, second, dry, cursor, status, faults>>

\* set_watermark: an upsert of the whole row, whatever it held.
SetWatermark(kind, value) == [kind |-> kind, value |-> value]

\* After a confirmed upload the row is written, in one transaction, unless
\* there is nothing to advance.
Commit ==
  /\ pc = "commit"
  /\ wm' = IF NewWatermark(Kind, max) = None THEN wm
           ELSE SetWatermark(Kind, NewWatermark(Kind, max))
  /\ pc' = "unlink"
  /\ UNCHANGED <<environment, s3, spool, runDt, second, dry, cursor, status, faults>>

\* SQLite refuses: the transaction is rolled back, the unit fails.
CommitFails ==
  /\ pc = "commit"
  /\ NewWatermark(Kind, max) # None
  /\ Fault
  /\ Return("failed")
  /\ UNCHANGED <<wm, s3, spool>>

Cleanup ==
  /\ pc = "unlink"
  /\ spool' = Unlinked
  /\ Return("ok")
  /\ UNCHANGED <<wm, s3, faults>>

\* The unlink raises (Windows: a scanner holds the file): the unit is reported
\* failed, although its watermark is committed.
CleanupFails ==
  /\ pc = "unlink"
  /\ Fault
  /\ Return("failed")
  /\ UNCHANGED <<wm, s3, spool>>

\* The process dies: killed at the time limit, the host down, an abort.
Crash ==
  /\ pc # "idle"
  /\ Fault
  /\ Return("crashed")
  /\ UNCHANGED <<wm, s3, spool>>

---------------------------------------------------------------------------
Source ==
  \/ \E d \in Docs, s \in Stamps : Insert(d, s)
  \/ \E v \in coll, s \in Stamps : Update(v, s)
  \/ \E v \in coll : Delete(v)

\* What the code does of its own accord once a run is started.
Agent ==
  \/ RejectKind
  \/ OpenCursor
  \/ \E v \in coll : Read(v)
  \/ FinishEmpty
  \/ FinishScan
  \/ FinishDry
  \/ PutObject
  \/ HeadObject
  \/ Commit
  \/ Cleanup

Failure ==
  \/ ConnectFails
  \/ ScanFails
  \/ CloseFails
  \/ UploadFails
  \/ TransferFails
  \/ HeadFails
  \/ CommitFails
  \/ CleanupFails
  \/ Crash

\* Whatever happens at one moment.
Step ==
  \/ Source
  \/ \E m \in Modes : Reconfigure(m)
  \/ \E d \in DryRuns : StartRun(d)
  \/ Agent
  \/ Failure

Next == Tick \/ Step

Spec == Init /\ [][Next]_vars

\* The agent runs to its end once started, the task scheduler starts a run
\* when one is due (Register-MongoSyncTask.ps1: repetition interval,
\* StartWhenAvailable), time passes.  Nothing is assumed of the source or of
\* failures, but that the latter are at most MaxFaults.
RunDue == pc = "idle" /\ now >= runDt + RunGap
PunctualTick == Tick /\ ~RunDue
PunctualNext == PunctualTick \/ Step
Fairness ==
  /\ WF_vars(Agent)
  /\ WF_vars(~HeadAllowed /\ HeadFails)
  /\ WF_vars(StartRun(FALSE))
  /\ WF_vars(PunctualTick)
FairSpec == Init /\ [][PunctualNext]_vars /\ Fairness

---------------------------------------------------------------------------
RowOk == wm \in Row \union {NoRow}
ClockOk ==
  /\ now \in Nat /\ runDt \in Int /\ runDt <= now
  /\ second \in Int /\ second <= runDt
  /\ pc # "idle" => runDt >= 0
  /\ runDt >= 0 => second >= 0
FilesOk ==
  /\ s3 \subseteq [key : Nat, row : Version]
  /\ spool \subseteq [run : Nat, row : Version]
ControlOk ==
  /\ pc \in {"idle", "open", "scan", "upload", "verify", "commit", "unlink"}
  /\ status \in {"none", "running", "ok", "empty", "failed", "crashed"}
  /\ dry \in BOOLEAN /\ mode \in Modes /\ faults \in Nat
LocalsOk ==
  /\ filter \in Filter /\ due \subseteq Docs
  /\ buf \subseteq Version /\ max \in Stamp

\* The type of every variable; also that MongoDB holds one version of a
\* document at most and that a run's start is never in the future.
TypeOK ==
  /\ coll \subseteq Version
  /\ \A v, w \in coll : v.doc = w.doc => v = w
  /\ ClockOk /\ RowOk /\ FilesOk /\ ControlOk /\ LocalsOk

\* What a first run would read: documents that carry the watermark field and
\* lie above the floor the operator configured.
Shippable(v) ==
  /\ v.at # None
  /\ InitialWatermark = None \/ v.at >= InitialWatermark - Overlap

\* The filter of the next run, as far as the stored row decides it.
NextFilter == IF wm = NoRow THEN Everything ELSE BuildFilter(wm.kind, wm)

\* No document is ever skipped for good: whatever MongoDB holds is in the
\* bucket or will be asked for by the next run, whoever wrote while the
\* cursor was open, wherever the run stopped, in whatever order clients'
\* stamps became visible.  (extract.py's crash-safety ordering and
\* watermark.py's overlap.)
NoLoss == \A v \in coll : Shippable(v) => v \in Delivered \/ Selects(NextFilter, v)

\* What makes overlap_seconds long enough: a version may become visible
\* Lateness after its stamp while the cursor has gone by, and the same run
\* may still read one stamped Skew ahead of the clock at its time limit.
OverlapCoversRun == Overlap >= TimeLimit + Lateness + Skew

\* The run as an attempt of the abstract at-least-once pipeline: an item is
\* covered once the next run's filter passes it by.
Pipeline == INSTANCE Delivery WITH
  Items <- Version,
  source <- coll,
  inflight <- IF pc = "idle" THEN {} ELSE Seen,
  delivered <- Delivered,
  covered <- {v \in coll : Shippable(v) /\ ~Selects(NextFilter, v)}

\* Every behaviour of the agent and its source is one of Delivery: rows are
\* published all together or not at all, only documents read from the source
\* are, a checkpoint never runs ahead, and nothing the source shows late
\* appears behind the checkpoint.
AtLeastOnce == Pipeline!Spec

\* The stored watermark is the stamp of a row that is in the bucket: it is
\* never ahead of a confirmed upload (extract.py: "ONLY after confirmed
\* upload"), and no later upload takes that row away again.
WatermarkBacked == wm # NoRow => \E o \in s3 : o.row.at = wm.value

\* What an "ok" or "empty" outcome tells the operator: everything stamped
\* more than Lateness before that run's start and still in MongoDB is in
\* the bucket, also what earlier, failed runs had left behind.
FreshAfterRun ==
  (pc = "idle" /\ ~dry /\ status \in {"ok", "empty"}) =>
     \A v \in coll : Shippable(v) /\ v.at < runDt - Lateness => v \in Delivered

---------------------------------------------------------------------------
\* The inductive invariant behind NoLoss, WatermarkBacked and FreshAfterRun.
Uploading == {"upload", "verify", "commit"}

\* A run does not outlive its time limit.
InTime == pc # "idle" => now <= runDt + TimeLimit

\* Stamps run at most Skew ahead; only Untimed documents lack one.
SourceInv ==
  \A v \in coll : IF v.at = None THEN v.doc \in Untimed ELSE v.at <= now + Skew
WmInv == wm # NoRow => wm.value <= now + Skew

\* The running maximum is the stamp of a version this run has read.
MaxInv ==
  max # None => /\ pc \notin {"idle", "open"}
                /\ max <= now + Skew
                /\ \E v \in Seen : v.at = max

\* A run starts with nothing read; only the loop holds rows in memory.
FreshStart ==
  /\ pc # "scan" => buf = {}
  /\ pc = "open" => Written = {}

\* The open cursor's filter is the one the stored row still asks for.
FilterInv ==
  pc \in {"scan"} \union Uploading =>
    filter = BuildFilter(Kind, wm) /\ ~KindMismatch(wm, Kind)

\* What the filter selects has been read, is yet to come, or became visible
\* after the run had started.
CursorInv ==
  pc = "scan" =>
    \A v \in coll : Shippable(v) /\ Selects(filter, v) =>
      \/ v \in Seen
      \/ v.at >= runDt - Lateness
      \/ IF Sorted(Kind) THEN Ahead(v) ELSE v.doc \in due
DoneInv ==
  pc \in Uploading =>
    \A v \in coll : Shippable(v) /\ Selects(filter, v) =>
      v \in Seen \/ v.at >= runDt - Lateness

\* What lies in the spool is of this run or of an earlier one.
SpoolInv == \A f \in spool : f.run <= runDt

\* Earlier objects have earlier keys; a stored upload holds all that was read.
KeysInv ==
  /\ \A o \in s3 : o.key <= second
  /\ pc \in {"open", "scan", "upload"} => \A o \in s3 : o.key < second
PutInv == pc \in {"verify", "commit", "unlink"} => Seen \subseteq Delivered

\* A dry run neither uploads nor commits.
DryInv == pc \in Uploading \union {"unlink"} => ~dry

\* After the commit the run has kept FreshAfterRun's promise.
FreshInv ==
  pc = "unlink" =>
    \A v \in coll : Shippable(v) /\ v.at < runDt - Lateness => v \in Delivered

\* What rests on an overlap that is long enough, and on keys that no later
\* run uses again.
Promise == NoLoss /\ FreshInv /\ FreshAfterRun

IInv ==
  /\ TypeOK /\ InTime /\ SourceInv /\ WmInv /\ MaxInv /\ FreshStart
  /\ FilterInv /\ CursorInv /\ DoneInv /\ SpoolInv /\ PutInv /\ DryInv
  /\ SecondsApart => KeysInv /\ WatermarkBacked
  /\ SecondsApart /\ OverlapCoversRun => Promise

\* A row's kind is never replaced by another (watermark.py: a mode change is
\* refused until the watermark is reset), and the row never disappears.
KindStable == [][wm # NoRow => wm' # NoRow /\ wm'.kind = wm.kind]_vars

\* Once the source is quiet and failures stop, the agent catches up for good:
\* every document is in the bucket and the watermark has moved past it, so
\* that the next runs read no more than the overlap window.
CatchesUp ==
  <>[](\A v \in coll : Shippable(v) =>
         v \in Delivered /\ wm # NoRow /\ wm.value >= v.at)

\* An object is never overwritten nor its rows lost, a re-extraction after a
\* crash goes "to a new S3 key" (extract.py), and a dry run adds none.
BucketGrows == [][s3 \subseteq s3' /\ (dry => s3' = s3 /\ wm' = wm)]_vars
=============================================================================
