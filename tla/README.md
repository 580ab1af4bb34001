# A verification of mongo-sync-agent

The repository holds a Python agent, `mongo-sync-agent` (`msa`), that copies
MongoDB collections, log files and host metrics of an Alteryx Server to S3, from
where Snowflake loads them, and a few maintenance scripts. This directory holds
TLA+ modules that model the agent, TLC configurations that check them on small
instances, and theorems that TLAPS proves for every instance.

Paths below are relative to the repository; `P/` stands for
`mongo-sync-agent/src/mongo_sync_agent/`.

## 1. The system

### Components

| Component | State it keeps | Operations | Correct when |
|---|---|---|---|
| Watermark strategies, `P/mongo/watermark.py` | the running maximum of one run | `build_filter`, `sort_spec`, `observe`, `new_watermark`, kind validation | the next filter still selects whatever has not been shipped |
| Collection extraction, `P/mongo/extract.py` | cursor, batch, spool file of one collection | read loop, close, upload, commit, cleanup | write, upload, commit in this order survives a stop between any two steps |
| State store, `P/state.py` | SQLite: `watermarks`, `file_offsets`, `runs` | get/set watermark, get/set/delete offsets, record run | a row is written whole or not at all |
| S3 uploader, `P/s3.py` | the bucket | `upload_file` + `head_object`; keys by run second | an object is never overwritten by another run |
| Sinks, `P/sinks.py` | an open spool file | write rows, close, abort | nothing read is missing from the file |
| Spool, `P/spool.py` | `spool_dir/<run_id>/` | set up, sweep orphans | other runs' directories go as far as they can be removed, a run's own never |
| Run cycle, `P/runner.py`, `P/runner_types.py`, `P/cli.py` | exit code, run history | lock, sweep, mongo, logs, host metrics, record | a failed unit fails alone and is reported |
| Lock, `P/locking.py` | a PID file | acquire, release | one run at a time, and always one again |
| Log discovery, `P/logs/sources.py` | offsets by fingerprint or path | discover, gc | a rotated file is resumed, a new one read from its start |
| Log tailer, `P/logs/tailer.py` | none | read complete lines of a window | no line is cut, skipped or stalled |
| Log shipper, `P/logs/ship.py` | offsets in memory until committed | drain, upload, commit, gc | every line is shipped at least once |
| Host metrics, `P/hostmetrics/` | none | sample, upload | - |
| Landing, `P/landing.py`, `sql/` | raw tables, merged tables | COPY, MERGE | the newest version of each document wins |
| Task registration, `deploy/` | the scheduled task | - | runs do not overlap and are started again |
| Configuration, connection, logging | none at run time | parse, connect, log | - |
| Backup, archive and certificate scripts in the root | dumps, the Alteryx service | stop, dump, copy, start | the service runs again, the only copy is not deleted |

### How they interact

The task scheduler starts one process. `run_cycle` takes the lock, fixes
`run_dt`, opens the state store, creates `spool_dir/<run_id>` and sweeps the
others, then runs its units one after the other in one thread. A unit reads its
position from the state store, reads its source into a spool file, uploads the
file under a key built from `run_dt` to the second, waits for the confirmation,
and only then writes its new position. Positions, bucket and spool outlive the
process; all else dies with it. The source is shared with the application, which
writes to MongoDB and to the log files at any time.

### What is hard

* The application writes while the cursor is open, with stamps from the clocks
  of its clients: documents appear behind the cursor, later than their stamp, or
  with a stamp of the future.
* The process may die anywhere (a kill at the two-hour limit, a reboot), most
  awkwardly between upload and commit; a step may fail with the effect done.
* The next run knows what the row, the bucket and the spool tell it, and the
  operator may have changed the configuration in between.
* The log files grow, are renamed and replaced between the agent's look at a path
  and its reads, and a young file cannot be told from another.
* The files hold bytes: a read ends anywhere in a line or a code unit.
* A scheduled run and a manual one share the lock file, the spool and the process
  ids of the host; a run that died leaves its lock, and its process id is handed out
  again.
* Two hosts share a bucket and not their states; the pipe loads objects in any order,
  and each name once.

`PROJECT.json` lists each hazard at its line with the properties that cover it.

## 2. Modules

| Module | Models | Kind |
|---|---|---|
| `Watermark` | the strategies as pure operators | operators |
| `Extract` | one collection from MongoDB to the bucket: extraction, state row, sink, spool, uploader, schedule | state machine, properties, inductive invariant |
| `LogShip` | one log source from its rotating files to the bucket: discover, drain, upload, commit, gc | state machine, properties, inductive invariant |
| `Tailer` | bytes, windows and lines of one file: `tail_file`, `drain_file`, the offset stored | state machine, properties, inductive invariant |
| `RunCycle` | the runs of one host as processes: lock, spool, modules, history, exit code | state machine, properties, inductive invariant |
| `Landing` | the objects of several hosts on their way through pipe and MERGE to the clean table | state machine, properties, inductive invariant |
| `Delivery` | the at-least-once contract, without saying how | abstract specification |
| `LineReader` | reading a growing file by lines, without bytes, windows or encodings | abstract specification |
| `MCExtract`, `MCLogShip`, `MCTailer`, `MCRunCycle`, `MCLanding` | the instances TLC checks | model checking |
| `Extract_proofs`, `LogShip_proofs`, `Tailer_proofs`, `RunCycle_proofs`, `Landing_proofs` | theorems about each | proofs |
| `Delivery_proofs`, `LogDelivery_proofs` | `Extract` and `LogShip` implement `Delivery` | proofs |
| `LineReader_proofs` | `Tailer` implements `LineReader` | proofs |

`Watermark` is part of `Extract`; `Extract` and `LogShip` are shown to implement
`Delivery`. The other modules rest on each other by what they take for granted:
`LogShip` counts in lines, which `Tailer` justifies byte by byte (it is shown to implement
`LineReader`, which says what counting in lines takes for granted); in `RunCycle` a
module has an outcome, and what is behind it is `Extract` and `LogShip`, which in turn
take their runs one at a time, as `RunCycle` shows them to be; in `Landing` a run ships
every item newer than its host's state, which is what `NoLoss` and `NoLineSkipped` say.

### State and actions of `Extract`

| Variable | In the code |
|---|---|
| `now` | the clock; a tick is a second (ObjectIds, `run_dt`) or a millisecond (timestamps) |
| `coll` | the collection: at most one version `[doc, at]` of each document |
| `mode` | `cfg.mode` |
| `wm` | the collection's row of `watermarks`, or `NoRow` |
| `s3` | rows in the bucket with the key they were stored under |
| `spool` | rows in files under `spool_dir` with the run that wrote them |
| `pc` | where `extract_collection` stands, `"idle"` when no process runs |
| `runDt`, `second`, `dry` | `run_ctx.run_dt`, whole and cut to the second as keys have it, `run_ctx.dry_run`; they survive as history |
| `filter`, `due` | the open cursor: its filter; unsorted, what it still owes |
| `buf`, `max` | `rows`; the strategy's running maximum |
| `status` | the unit's status, or `"crashed"` |

| Action | Code |
|---|---|
| `StartRun` | `run_cycle` to the extraction, sweep included, which leaves the directories that `rmtree` cannot remove |
| `ConnectFails`, `RejectKind`, `OpenCursor` | `extract_all`'s connection; `extract_collection` to `coll.find` |
| `Read` | one turn of the loop: observe, append, flush when the batch is full |
| `ScanFails`, `FinishEmpty`, `FinishScan`, `FinishDry`, `CloseFails` | the ways out of the loop |
| `PutObject`, `HeadObject`, `UploadFails`, `TransferFails`, `HeadFails` | `S3Uploader.upload` and what its caller does with each exception |
| `Commit`, `CommitFails` | `new_watermark`, `set_watermark` |
| `Cleanup`, `CleanupFails` | `unlink` and the `ok` result; an `unlink` that raises fails the unit after its commit |
| `Crash` | the process dies at any point |
| `Insert`, `Update`, `Delete` | the application (external) |
| `Tick`, `Reconfigure` | time; the operator edits the mode between runs |

`run_id` is a fresh random string and only names a directory; the model names the
directory by `run_dt`, which is as fresh, since two starts are at least a tick
apart (`RunGap`). A tick may be a millisecond: the key of an object has the second of
`run_dt` only, and a run may start in the second of the last one unless `SecondsApart`
says otherwise. Nothing in the code says so; what rests on keys names it as a condition.

What a cursor may return is external. Sorted on `_id` (append_only) it moves up
only and returns the least document above its position, so that one inserted
below is not returned. Unsorted (mutable, full_refresh) it may return any
matching document it has not returned in that version, and must return those
that matched when it was opened and still do. What became visible later may or
may not be returned.

An append_only collection is taken at its word: every `_id` is an ObjectId and
documents are only inserted or deleted. A mode that becomes `append_only` on
other documents is outside the model (`ExtractAssumption`).

### Properties

* `NoLoss`: each shippable document is in the bucket or selected by the next
  filter. It relates the source, the bucket and the stored row, and is what the
  overlap and the crash-safety order are for.
* `FreshAfterRun`: what an `ok` or `empty` outcome promises. It fails when a run
  looks complete and is not, as when a flush loses the batch before it.
* `WatermarkBacked`: the row is the stamp of a row in the bucket, across
  crashes, failures and later uploads.
* `KindStable`, `BucketGrows`: what a step may never do to the row and the bucket.
* `AtLeastOnce`: `Extract` implements `Delivery`. `covered` maps to the
  documents the next filter leaves out; a commit may only cover what is
  delivered and a change of the source may not put anything behind the mark.
* `CatchesUp`: liveness, see below.

A document is shippable when it carries the watermark field and is not below the
configured floor. Documents without the field are shipped by a first run without
a floor and by a full refresh and never again, since no `$gte` matches them; the
strategy defines change by that field, and the model follows it.

### `LogShip`

| Variable | In the code |
|---|---|
| `len`, `where` | the files: complete lines, and whether live, archived or gone |
| `offsets`, `old` | the source's rows of `file_offsets`; which are older than `gc_days` |
| `shipped` | records in the bucket: the line, `file`, `file_offset` |
| `listed` | what the glob returned |
| `plans` | the `TailPlan`s still to drain, with the drain's position |
| `records`, `newOffs` | `records`, `new_offsets` of `ship_source` |
| `pc`, `dry` | where `ship_source` stands; `run_ctx.dry_run` |

| Action | Code |
|---|---|
| `StartPoll`, `Discover`, `Overlook` | `get_offsets` and the glob; `discover`'s look at each listed path; a path it passes over since `stat` or the read of its prefix raises |
| `DrainChunk`, `DrainDone`, `DrainFails` | one `tail_file` of `drain_file`, which opens the path again; the end of a drain without more lines, or by a read error, after which the poll goes on and commits what it has |
| `FinishEmpty`, `FinishDrain`, `FinishDry` | the ways on from the drain |
| `PutObject`, `Confirm` | `upload_file`, `head_object` |
| `Commit`, `Collect`, `FinishPoll` | `set_offsets`; one `delete_offset` of `gc_offsets`; the end |
| `Interrupt` | the process dies, or any step fails and `ship_all` reports it |
| `AppendLine`, `Rename`, `Create`, `Remove`, `Age` | the application's logger and time (external) |

Offsets, sizes and windows count lines instead of bytes; a partial line does not
exist yet for the tailer. The fingerprint of a file is its number once it has
`FpPrefix` lines: prefixes of that length are taken to differ, and files only
grow, as the logger's do. Rotation renames a file that has a fingerprint (at
10 MB) and opens the next at the live path. The spool file is left out: nothing
reads it again, and `Extract` covers how files are left and swept.

`CreateDuringPoll` says whether the new file may appear at the live path between
`discover`'s look and the end of that path's drain. The pass runs and the
theorems take it to be false; `log_race` shows what happens otherwise.

* `NoLineSkipped`: what the next poll would pass over is in the bucket. It takes a
  key, an offset and a file that no longer belong together to break it.
* `NotReshipped`, `OffsetsAdvance`: a committed line stays committed through renames,
  also when a file vanished before its drain.
* `AtLeastOnce`: `LogShip` implements `Delivery`, with lines as items.
* `DrainCatchesUp`: a drain that no read error ends has reached the end of its file, or a
  line no read can hold. It is the safety part of `AllShipped`: what fairness adds is that polls come.
* `AllShipped`: liveness.

### `Tailer`

| Variable | In the code |
|---|---|
| `width`, `window` | bytes of a code unit (UTF-16LE: 2; other encodings: 1); `max_bytes_per_poll` |
| `bytes` | the file |
| `first`, `stored` | the offset in `file_offsets` to begin with, and now |
| `pc`, `at`, `records` | where the poll stands; the drain's offset and the lines so far |
| `shipped` | lines uploaded and committed, each as the interval of its text |

| Action | Code |
|---|---|
| `Write` | the application adds a byte (external) |
| `StartPoll` | `discover` hands out the stored offset |
| `TailLines`, `TailNothing` | one `tail_file` with `drain_file`'s decision to go on: alignment, one read, the last newline of the window, the split without CRs and blank lines |
| `ReadFails` | `stat`, `open` or `read` raises |
| `FinishEmpty`, `Commit`, `Interrupt` | `ship_source` from the drain to its end, or what stops it |

The encodings are those of `_NEWLINE_PATTERNS` and others whose text has one-byte newlines.
For `utf-16`, `utf-16-be` and `utf-32` the search for newlines falls back to one byte while
the decoding does not; the repository configures none of them and they are outside.

Bytes are LF, CR and zero, plus `Other`, which may be empty: text is what is no newline
and no trailing CR, and zero serves as text and as the high half of a UTF-16LE unit.
`Drains` needs `Fits`: each line with the blank ones before it and its newline fits
into one read. `ConsumedEnds` keeps the guard against an odd end of `tailer.py:183`;
`GuardUnreachable` proves that it never bites.

* `IInv` with `SplitOnce`: what polls of any cut have committed is what splitting the
  file once, from `first` to the stored offset, gives.
* `WholeLines`: unit by unit, every piece of text below the stored offset is in exactly one
  shipped line, which ends where its line does. It is stated without the definition of a split.
* `ReadsInOrder`: `Tailer` implements `LineReader`. A byte written completes a line behind
  the others or none; what a commit ships are the next lines, with none left out.
* `DrainComplete`: a drain that ends by itself has every complete line of the file.
* `Drains`: liveness.

### `RunCycle`

| Variable | In the code |
|---|---|
| `base` | does `spool_dir`, the directory of the lock file, exist |
| `locked`, `owner` | the lock file and the number in it |
| `handles` | who has it open between `write_text`'s open and its write |
| `aliens` | process ids of other programs |
| `pc`, `pid`, `seen` | each agent process: where it stands, its id, the id it read from the file |
| `only`, `dry` | `--only`, `--dry-run` |
| `unit`, `results` | the current module and the statuses so far |
| `dirs`, `files` | whose spool directory and file exist |
| `recorded`, `code` | whose row is in `runs`; the exit code |

| Action | Code |
|---|---|
| `Start` | `main` to `run_cycle`, by the task or by hand |
| `CheckExists`, `ReadOwner`, `Steal`, `Refuse`, `OpenLock`, `FillLock` | `SingleInstanceLock.acquire`, a step for each access to the file or the process table |
| `NoSpoolDir` | `write_text` raises before the `try` block |
| `OpenState`, `SetupSpool`, `Sweep` | the run up to its first module; each may raise, which is fatal |
| `SkipUnit`, `EndUnit`, `SpoolUnit`, `SpoolFails`, `PutUnit` | the three modules in their order |
| `RecordRun`, `Release` | summary, `record_run`, `close`, exit code; the `finally` block. `close` may raise with the row in place, and `release` where somebody else has the lock file open (Windows): both end with code 2 |
| `Crash` | the process is killed or dies |
| `CreateBase`, `AlienStart`, `AlienExit` | the operator and other programs (external) |

`Apart` says that no start falls into another start's `acquire`, which is all that the
lock needs: starts during a run, after a kill, or with a reused process id are all
inside. The task's `IgnoreNew` keeps its own instances apart, so that where it is the only
one to start runs nothing need be assumed of starts; a manual start is
kept apart by nobody, and `cycle_race` shows what happens without. `Unreadable` says that a
read of a live run's lock file may raise, which `acquire` takes for a stale lock
(`locking.py:38`): that alone breaks `OneRun`, so `StartsOrderly` excludes it.

* `OneRun`, `SpoolKept`: one run at a time; a sweep takes nothing a live run needs. Where
  `OneRun` holds, no other live run sweeps, and `SpoolKept` is about a run's own sweep.
* `ExitTellsRecord`: codes 0 and 1 are returned by recorded runs without and with a failed
  unit. It relates three things written in different places. Code 2 says less: runs without
  a record return it, and some whose record is in place.
* `Recovers`: liveness.

### `Landing`

| Variable | In the code |
|---|---|
| `solo` | none: the items that no two runs extract at the same time, as the deployment arranges it |
| `version` | the source |
| `starts`, `second` | runs so far and the clock's second at the latest |
| `phase`, `at`, `sec`, `todo`, `rows` | each host's run: `run_dt` whole and to the second, the cursor, the spool file |
| `mark` | each host's state store |
| `bucket`, `queue`, `loaded` | objects by key, those announced to the pipe, those it has loaded |
| `raw`, `staged`, `target` | raw table, `STAGED_AS_JOBS`, `MONGO_AS_JOBS` |

| Action | Code |
|---|---|
| `Update` | the application (external) |
| `Start`, `Read`, `Put`, `Commit`, `FinishEmpty`, `Fail` | a run, as far as the landing sees it |
| `Load` | `COPY INTO` by a pipe, which never loads a name twice |
| `Stage`, `Merge` | `ROW_NUMBER() ... ORDER BY _extracted_at DESC`, `MERGE INTO` |

Runs overlap as they like, except that no two extract an item of `solo` at the same time:
all items in the active/passive deployment of README section 8, with failovers at any moment
between runs; a node's own log lines; none of a collection that every controller
extracts. A run may come across an item in two versions, since a mutable cursor has no
order; `Reached` is what its commit covers. `Turns` holds the arrangements an instance looks at. `SecondsApart` says that no
two runs start in the same second, which nothing in the code sees to. Host clocks are
taken to agree.

* `NothingLost`: what a host has committed is in the raw table or waits for the pipe.
* `LatestIsNewest`: the MERGE's order of runs is the order of versions, for items of `solo`.
* `SettledComplete`: once the pipe has loaded all and the tables were made, the clean table
  has whatever a host has committed of `solo`, or something newer, unless the item is
  `Torn`: the latest run that shipped it did so in two versions. It ties the states of the
  hosts to the last table of the chain. `CommittedMerged` is the same without the
  exception, which `landing_torn` refutes.
* `TargetNeverBack`: no MERGE replaces a version of an item of `solo` by an older one, but
  for torn items.
* `Converges`: liveness, with the same exception.

## 3. Runs

These runs use `MCExtract`. `Lateness` bounds the ticks between minting a stamp and
the document being visible, `Skew` how far a client's clock is ahead. Faults and
crashes are counted by `MaxFaults`, time by `MaxTime`; the source is quiet after
`WriteUntil`.

| Run | Instance | Shows |
|---|---|---|
| `mutable` | mutable, 3 documents, one updated and deleted, one without the field, a floor, batch of 2, overlap 2 (time limit 1, lateness 1), one fault, source quiet after tick 3 of 7, fairness | `NoLoss`, `FreshAfterRun`, `AtLeastOnce`, `CatchesUp` (612,222 states) |
| `modes` | all three modes, 2 documents, batch of 2, dry and real runs, overlap 3 (time limit, lateness and skew 1), two faults | `TypeOK`, `NoLoss`, `WatermarkBacked`, `FreshAfterRun`, `KindStable`, `BucketGrows` (666,131 states) |
| `long_scan` | mutable, overlap shorter than the scan | finding 1 |

The runs of `MCLogShip` have two files, so that a rotation happens before, during and
after a poll and the second file meets the rows of the first:

| Run | Instance | Shows |
|---|---|---|
| `log_polls` | 2 lines a file, fingerprint from the first line, reads of one line, the last line of the second file too long, dry and real polls, one fault, fairness | `NoLineSkipped`, `NotReshipped`, `IInv`, `AtLeastOnce`, `OffsetsAdvance`, `DrainCatchesUp`, `AllShipped` (658,772 states) |
| `log_race` | 3 lines, fingerprint from the second, reads of two, with `CreateDuringPoll` | finding 2 |
| `log_small` | the same without `CreateDuringPoll` | finding 3 |

In `log_polls` a file is provisional while it is empty and outgrows that between
`discover` and its drain; longer provisional files, with a start of their own, are
in `log_small` and, without bounds, in the theorems. Two lines are what it takes for
a file to be partly shipped when it is renamed.

The bounds of `MCExtract` are small and cover the cases that matter: two documents are what it
takes for one to raise the maximum past another; a batch of 2 leaves a partial
batch and a full one; with one fault a run is lost anywhere and the next one recovers, with
two the recovering run fails as well; both overlaps are what `OverlapCoversRun` asks for and
no more (in `modes` `NoLoss` fails with an overlap of 2); the clock leaves room for three
runs, the first that fails, the one that recovers and the one that must still ask for what
the second passed by. The theorems of section 5 have none of these bounds.

The other modules:

| Run | Instance | Shows |
|---|---|---|
| `tailer` | three sources, every file of up to 8 bytes, one failure, fairness | `IInv`, `WholeLines`, `ReadsInOrder`, `DrainComplete`, `Drains` (247,496 states) |
| `cycle` | the task and a manual process with `--only hostmetrics`, 3 process ids, 2 of 3 modules enabled, dry and real runs, one crash, with or without `spool_dir`, `Apart`, not `Unreadable`, fairness | `IInv`, `OneRun`, `SpoolKept`, `ExitTellsRecord`, `Recovers` (276,785 states) |
| `cycle_race` | the same without `Apart`, no crash | finding 4 |
| `landing` | 2 hosts, one document of 2 versions, 4 runs, one fails, the source quiet after 3 starts, `SecondsApart`, hosts that take turns at it or not, fairness | `IInv`, `NothingLost`, `LatestIsNewest`, `SettledComplete`, `TargetNeverBack`, `Converges` (334,938 states) |
| `landing_hosts` | 2 hosts with a log line each, not `SecondsApart` | finding 5 |
| `landing_torn` | 2 hosts that take turns at one document of 2 versions, no failure | finding 6 |

The sources of `tailer` are a one-byte log read three bytes at a time, UTF-16LE with
windows of seven bytes, which end inside a code unit, and UTF-16LE from the odd
offset 1 with windows of four. Eight bytes hold two lines and a CR in one-byte text, and
in UTF-16LE three whole units and the half one before or after them, which is what a
window needs to hold a newline pattern that straddles two units. Every content of
that length occurs, since the file is written byte by byte.

In `cycle` two processes are what it takes for one to look at the lock while the other
runs, dies or releases, and three process ids leave one for another program that
takes over a dead run's. A disabled module in the middle keeps `SkipUnit` in play
beside `--only`. In `landing` three runs are a first host, a failover to the second with
a stale state, and the way back, or two runs at once and one after them; all objects may
wait for the pipe together. The fourth comes when the source is quiet, and one document
suffices, since the tables treat each `_id` by itself.

`CHECK_DEADLOCK FALSE`: the bounded clock and source do stop; the agent's own
progress is `CatchesUp`.

### Fairness

`FairSpec` assumes weak fairness of `Agent`, the steps the program takes of its
own accord once started (one thread, no waiting but on calls that return or
raise); of the confirmation that is refused when the credentials do not allow it,
which is just as certain; of the start of a run, which the scheduled task repeats
indefinitely and makes up for (`-StartWhenAvailable`); and of time. `PunctualTick`
says that time does not pass while a run is due and not started: without it the
bounded clock could end before the last run starts. Nothing is assumed of the
source, of failures or of crashes, except that there are at most `MaxFaults` of
them: an agent that is killed for ever never catches up.

`LogShip`'s `FairSpec` assumes the same of its steps. It has no clock; that the
scheduled poll comes again is strong fairness of `StartPoll(FALSE)`, since the dry runs
somebody makes in between do not keep it out.

`Tailer` assumes weak fairness of the poll's start and of its steps. `RunCycle` assumes it
of the steps of each process and of the task's start, whose repetition never ends and
which is enabled until it happens. `Recovers` promises runs as long as `spool_dir`
exists and the number left in the lock file does not, again and again, belong to
something that is no run: `pid_exists` cannot tell, so no fairness could help. `Landing`
assumes it of a host's steps, of some host's next start, of every object's load
(Snowpipe's retries) and of `Stage` and `Merge`, which a Snowflake task repeats.

## 4. Findings

1. `long_scan`. README section 8 says the overlap window never loses data. The overlap
   is measured from the maximum the scan observed; a scan may last up to the
   time limit of two hours and the default overlap is 30 seconds. A document updated behind the
   unsorted cursor, and a younger one read afterwards, leave the update below
   the next bound. `OverlapCoversRun` is the condition under which it cannot happen.
2. `log_race`. A plan pairs a path with the fingerprint and offset of the file that was
   there when `discover` looked; each read opens the path anew. If rotation has put
   the next file there, its lines move the old file's offset on and the rest of
   the old file is never read. The sources speak of vanished files only.
3. `log_small`. The row of a path outlives the file it was stored for. The next small
   file at the live path starts at that offset, unless it is shorter. The lines
   passed over are shipped when the file gets a fingerprint, and never if it stays small.
4. `cycle_race`. `acquire` looks, asks for the process and writes in three steps, and the
   write is not exclusive. Two processes that start together both run, on one state
   database and one spool, where each sweeps the other's directory.
5. `landing_hosts`. README section 8 calls running on every node always safe. `logs_key` and
   `hostmetrics_key` hold the second and no host, so that two nodes that start in the same
   second, as tasks on a common schedule do, write one object; the loser's offsets
   are committed. With a name per host, or a bucket prefix per host, `NothingLost` holds.

6. `landing_torn`. `05_merge_example.sql` stages the "latest extraction" of an `_id`, but
   `_extracted_at` is the start of the run for every row. A mutable cursor is unsorted and may
   return a document, and return it again after an update; the two rows tie, and the MERGE may
   settle on the older one while the watermark has passed the newer. A later run may heal
   that as long as the newer version lies in its overlap window; nothing says that it
   does. Ordering by `_watermark` after `_extracted_at` would settle the tie.

Observations that need no run:

* README section 2 asks for `s3:PutObject` only, but `upload` confirms with `head_object`,
  which needs read permission: without it each run stores its object, reports
  the unit failed and leaves the watermark where it was (`HeadAllowed`).
* boto3 raises `S3UploadFailedError` for a failed transfer, which `upload` does not catch,
  though its docstring promises `UploadError`; `extract_all` isolates the unit, but the
  spool file stays until a sweep removes it (`TransferFails`).
* `acquire` takes a lock file it cannot read for a stale one. If that is the file of a live
  run (a sharing violation, another account), a second run starts beside it, however far
  apart the two start: with `Unreadable` set to `TRUE` in `MCRunCycle.cfg`, TLC finds `OneRun`
  violated.
* Two runs of one host that start in one second, which takes a first run that ends at once,
  write their objects under one key: with `SecondsApart` set to `FALSE`, TLC finds `BucketGrows`
  violated in `modes`.
* `ship.py` expects the landing to remove repeated lines by `(source, file, file_offset)`, and
  `sql/03_tables.sql` describes `file_offset` as the offset after the line; the code stores the
  chunk's end in every line of the chunk, so that such a dedup would keep one line of it.
* A full window without a newline is withheld like a partial line, so a line longer than
  `max_bytes_per_poll` (8 MB) stops its file for good (`AllShipped` promises the lines
  before it). So does a window of blank lines only: it yields no line, and the
  drain ends without moving the offset (`Fits`).
* The lock file is written before anything creates `spool_dir`. On a host where nobody did,
  every run ends with code 2 before it starts (`NoSpoolDir`).
* Two hosts that extract one collection at the same time, which README section 8 calls
  wasteful but correct, may order their rows wrongly: the run that started later can
  have read the older version. Nothing is lost on the way (`NothingLost` holds for runs
  that overlap, while their seconds differ), but the clean table may go back and stay there
  until a later run ships the item again; so `LatestIsNewest`, `SettledComplete` and
  `TargetNeverBack` are claimed for items of `solo` only.

## 5. Proofs

`tlapm` checks every proof; nothing is assumed but the named `ASSUME`s of
the modules, which give the constants their types and say what an append_only
collection is. A further hypothesis is part of a theorem's statement, where the
theorem is false without it.

About `Extract`, where `OverlapCoversRun == Overlap >= TimeLimit + Lateness + Skew`
is what `long_scan` shows to be needed, and `SecondsApart` that no key is used twice:

| Theorem | States |
|---|---|
| `Typing` | `Spec => []TypeOK` |
| `InvariantHolds` | `Spec => []IInv` |
| `NeverAhead` | `SecondsApart` gives `Spec => []WatermarkBacked` |
| `KindNeverChanges` | `Spec => KindStable` |
| `BucketOnlyGrows` | `SecondsApart` gives `Spec => BucketGrows` |
| `NeverLoses` | both give `Spec => []NoLoss` |
| `OkMeansFresh` | both give `Spec => []FreshAfterRun` |
| `Implements` | both give `Spec => AtLeastOnce`, step by step |
| `ContractSuffices` | `AtLeastOnce => []NoLoss` |

What the overlap is for is thus `Promise` alone (`NoLoss`, `FreshInv`, `FreshAfterRun`), the
last conjunct of `IInv`; that the watermark is backed and no object disappears holds however
long a scan lasts, as far as keys are fresh (`KeysInv`), and that its kind stays holds in any
case. `ContractSuffices` is about `Delivery`: whatever
keeps the contract, by this overlap or another way, loses nothing.

`NoLoss` is not inductive: whether a commit may move the row depends on what the
cursor has returned. `IInv` adds, by name:

* `InTime`, `SourceInv`, `WmInv`: a run ends within its limit, stamps and the row are
  at most `Skew` ahead of the clock;
* `MaxInv`: the running maximum is the stamp of something read;
* `FilterInv`: the open cursor's filter is still the one the row asks for;
* `CursorInv`, `DoneInv`: what the filter selects has been read, is still ahead of
  the cursor, or became visible after the run began (`at >= runDt - Lateness`);
* `FreshStart`, `KeysInv`, `PutInv`: a run starts empty, its key is new, and once
  stored all that was read is in the bucket;
* `FreshInv`, `DryInv`: between commit and cleanup the promise of `FreshAfterRun` already
  holds; a run that uploads is no dry one.

The argument is in `CommitIInv`. A document that is not delivered at the commit
became visible after the run began, so `at >= runDt - Lateness`; the new row is a
stamp read within the limit, so at most `runDt + TimeLimit + Skew`; with
`OverlapCoversRun` the new bound is below the document. Each group of actions has
its own lemma, and `NextIInv` puts them together. `IInv` is also what makes
`Implements` a step-by-step refinement: `MapSource` needs that nothing new appears
covered, `MapCommit` that only delivered items become covered, `MapPut` that a PUT
publishes exactly what the run has read.

About `LogShip`, from `~CreateDuringPoll`:

| Theorem | States |
|---|---|
| `InvariantHolds` | `Spec => []IInv` |
| `NeverSkips` | `Spec => []NoLineSkipped` |
| `NeverReships` | `Spec => []NotReshipped` |
| `OffsetsOnlyAdvance` | `Spec => OffsetsAdvance` |
| `DrainReachesEnd` | `Spec => DrainCatchesUp` |
| `ShipperImplements` | `Spec => AtLeastOnce`, step by step |
| `ContractSuffices` | `AtLeastOnce => []NoLineSkipped`, from nothing else |

`NoLineSkipped` looks at the rows only. What makes it inductive is a chain of the
same statement: `RowInv` (lines up to a stored offset are in the bucket, also of files
that are gone), `PlanInv` (lines up to the drain's position are in the bucket or
drained, and the plan's path shows the plan's file or none), `NewOffInv` (the same
of what will be committed) and `StageInv` (after the PUT, what was drained is in the
bucket). `EnvPlans` is where the assumption is used: without it a path may show
another file. `AheadInv` adds that what the poll has in hand lies beyond the rows,
which needs `RowWithinFile`: an offset backed by uploads is not past the end of its
file, so `discover` never takes a grown file for a truncated one. `ShipperImplements`
rests on `Mark`: a file without a fingerprint has no offset under one, so that what is
covered can be read off the table alone. `MapApplication` then needs that appending,
renaming and creating make nothing appear covered, and `MapCommit` that what a commit
covers is in the bucket, which is `NoLineSkipped` after the step.

About `Tailer`, without any condition:

| Theorem | States |
|---|---|
| `SplitOnceHolds` | `Spec => []IInv` |
| `WholeLinesHolds` | `Spec => []WholeLines` |
| `OffsetsEven` | a stored offset of a two-byte encoding is even, unless it is the first |
| `DrainTerminates` | each chunk ends behind the one before and within the file |
| `DrainLeavesNothing` | `Spec => DrainComplete` |
| `TailerImplements` | `Spec => ReadsInOrder`, step by step |
| `ReaderSuffices` | `ReadsInOrder` alone: no complete line before a shipped one is missing |

`SplitOnce` is inductive as it stands; the work is in two lemmas about splitting.
`Additive`: where a newline ends at `b`, the lines of `[a, c)` are those of `[a, b)` and
those of `[b, c)`, because no line reaches over a newline and the CRs before one
belong to its line. `WriteKeeps`: a byte added at the end changes no line below a boundary.
`ChunkAdds` puts a chunk behind what was there. The alignment of code units is carried by
`OnGrid`, since a chunk is decoded from where the last one ended. `WholeLinesHolds` goes from the
file split once to its units: `UnitInLine` builds the line around a unit, from the last
newline before it, the first behind it and the last unit between that is no CR;
`LinesDisjoint` says there is no other. That those three exist is `LeastOffset`, from the
library's well-founded order on finite sets.

`DrainTerminates` is why `TailLines` leaves out `drain_file`'s guard against a chunk that does
not advance: it never bites. `DrainLeavesNothing` takes the first line behind the drain's
position (`FirstLine`); by `Fits` its newline is in the window, since the line before it
ends at or before the position; so the window has a last newline and the chunk up to there
the line (`WindowGives`). `TailerImplements` rests on `ByteAddsLines`: a line that was not
there has the new byte for its newline, and so begins behind every newline before it.

About `RunCycle`, the first three from `StartsOrderly`:

| Theorem | States |
|---|---|
| `InvariantHolds` | `Spec => []IInv` |
| `AtMostOneRun` | `Spec => []OneRun` |
| `SpoolSurvives` | `Spec => []SpoolKept` |
| `ExitCodeTells` | `Spec => ExitTellsRecord`, for any starts |
| `AnyStart` | types, distinct process ids and outcomes, for any starts |

`StartsOrderly` is `Apart`, or that there is no process but the task's, which starts no second
instance of itself, and in either case that a run's lock file can be read: what locking.py does
not see to. `ExitCodeTells` and `AnyStart` need none of it, since a run that has
no row, or cannot remove the lock file, returns 2.

`OneRun` follows from `LockNamesRun` (the lock file of a run names it as long as it lasts) and
`PidsDistinct`. What makes `LockNamesRun` inductive is `AcquireAlone`: one process at a
time is in `acquire`, a process about to write found no run, and one about to look up a
process id while there is a run holds that run's, so that it is refused.
`HandlesOfWriters` says that the lock file is empty only while its one writer writes.
`ExitCodeTells` uses `OutcomeInv`, which follows the results of a run to its exit code, or to 2.

About `Landing`:

| Theorem | States |
|---|---|
| `InvariantHolds` | `Spec => []IInv` |
| `LatestExtractionIsNewest` | `Spec => []LatestIsNewest` |
| `MergeNeverGoesBack` | `Spec => TargetNeverBack` |
| `CommittedLands` | `SecondsApart` gives `Spec => []NothingLost` |
| `SettledIsComplete` | `SecondsApart` gives `Spec => []SettledComplete` |

Two arguments meet here. The first is about keys: `KeysFresh` says that the key of a run that
reads is neither stored nor loaded, so that its `Put` replaces nothing and the pipe will not
pass over it (`LandedAfterPut`), and `StoredLanded` carries this to the commit. It is what
`SecondsApart` is for, and takes no notice of whether runs overlap. The second is about
order: `RunsApart` gives every run a start of its own and keeps hosts to their turns,
`RowsCurrent` says that a run's row of an item of `solo` is of a later start than what earlier runs
have landed and at least as new, which is why a later extraction has a newer version. It needs no
seconds: a `Put` that replaces an object only takes rows away (`LandedGrows`).
`MergeNeverGoesBack` uses `StagedCurrent`: the staging table has one row for each item of the
clean table, none older than what is there; and since the raw table only grows, what is
staged later is at least as new, or of the run that shipped what was staged before, which is
what `Torn` says. `SettledIsComplete` puts the two together; `NewestVersion` is where a
commit takes the newest of the versions a run has read.

Model-checked only: `CatchesUp`, `AllShipped`, `Drains`, `Recovers` and `Converges`, which need
fairness (their safety parts `DrainCatchesUp`, `DrainComplete` and `SettledComplete` are
proved); and the findings.
No definition of a module with theorems is recursive, so nothing is left to TLC on
that account.

## 6. Not modelled

* String forms of watermarks, rows and keys; memory use and its tracker
  (`tests/test_memory_invariant.py` measures it); logging; the parsing of the
  configuration beyond the values that appear as constants.
* Several collections or sources of one run, which share nothing but the process.
* A clock that is set back; host clocks that disagree; an overlap so long that the bound
  lies before 1970.
* Log files truncated in place (and with them `ship.py:100`, where a poll without lines
  commits no reset offset), and fingerprints that collide: the application's logger
  renames its files.
* What `hostmetrics` collects: it reads counters of the host and keeps no state. Its place
  in the run is in `RunCycle`.
* Deletions in the source, which the landing SQL does not capture; file formats, stages
  and the flattening of log rows, which are declarations.
* `Server_EmbeddedDB_Backup.ps1`, the log archiver and the certificate script: linear
  scripts of their own without state in common with the agent. The release workflow.

`PROJECT.json` says for each component what is left out.

## 7. Plan

Done: the strategies, extraction, log shipping, tailing, the run cycle with its lock, and the
landing, each with runs and theorems; `Extract` and `LogShip` implement `Delivery` and
`Tailer` implements `LineReader`, as theorems; every invariant and every action property of a
passing run is a theorem.

Left, in this order:

1. Truncation in place and colliding fingerprints as further constants of `LogShip`.
2. `Landing` for hosts whose clocks disagree; for items that two runs extract at once, what a
   later run must ship for the clean table to recover.
3. The backup script's steps with one of them failing.
