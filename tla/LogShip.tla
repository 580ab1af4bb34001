------------------------------ MODULE LogShip ------------------------------
(***************************************************************************)
(* One log source of the agent: ship_source (logs/ship.py) with discover   *)
(* and gc_offsets (logs/sources.py), drain_file (logs/tailer.py), the      *)
(* uploader and the file_offsets table, against an application that keeps  *)
(* writing and rotating its log while it is read.                          *)
(*                                                                         *)
(* Files are numbered in the order the application opens them, and their   *)
(* complete lines from 1; offsets, sizes and read windows count lines.     *)
(* Polls never overlap, each uploads under a key of its own (run_dt), and  *)
(* the spool file, which nothing reads again, is left out.                 *)
(***************************************************************************)
EXTENDS Naturals

CONSTANTS
  MaxFiles,          \* bound: files the application opens
  MaxLines,          \* bound: lines of one file
  FpPrefix,          \* FP_PREFIX: size from which a file has a fingerprint
  Window,            \* max_bytes_per_poll: most lines one read returns
  Long,              \* lines that do not fit into one read
  DryRuns,           \* which values of --dry-run polls are started with
  CreateDuringPoll,  \* may a rotation open the new file before its path is drained?
  MaxFaults,         \* bound: faults and crashes of one behaviour
  NoRow              \* "no such row"

Live == 0                 \* the path the application writes to
Files == 1..MaxFiles      \* an archive's path is named after its file
Lines == [file : Files, n : 1..MaxLines]

ASSUME LogShipAssumption ==
  /\ MaxFiles \in Nat /\ MaxLines \in Nat /\ MaxFaults \in Nat
  /\ FpPrefix \in Nat \ {0} /\ Window \in Nat \ {0}
  /\ Long \subseteq Lines /\ NoRow \notin Nat
  /\ DryRuns \subseteq BOOLEAN /\ CreateDuringPoll \in BOOLEAN

VARIABLES
  len,      \* complete lines each file holds
  where,    \* "unborn", "live", "archived" or "gone", of each file
  offsets,  \* the file_offsets table: key -> offset, or NoRow
  old,      \* keys whose updated_at is more than gc_days ago
  shipped,  \* records in the bucket
  pc,       \* where the poll stands; "idle" between polls
  dry,      \* run_ctx.dry_run
  listed,   \* paths the glob returned
  plans,    \* TailPlans still to drain, `at` moving with the drain
  records,  \* lines drained so far
  newOffs,  \* new_offsets: what the commit will store
  faults    \* faults so far

disk == <<len, where>>
table == <<offsets, old>>
locals == <<listed, plans, records, newOffs>>
vars == <<len, where, offsets, old, shipped, pc, dry, listed, plans, records,
          newOffs, faults>>

Key == [by : {"fp"}, of : Files] \union [by : {"path"}, of : Files \union {Live}]
Plan == [id : Files, key : Key, path : Files \union {Live}, at : 0..MaxLines]
Record == [file : Files, n : 1..MaxLines,
           name : Files \union {Live}, file_offset : 1..MaxLines]

---------------------------------------------------------------------------
Present == {f \in Files : where[f] \in {"live", "archived"}}
PathOf(f) == IF where[f] = "live" THEN Live ELSE f

\* The sha256 of a file's first FP_PREFIX bytes stands for the file, wherever
\* rotation has moved it: prefixes that long are taken to differ.
Fp(f) == [by |-> "fp", of |-> f]
ProvisionalKey(path) == [by |-> "path", of |-> path]
HasFp(f) == len[f] >= FpPrefix

\* Fault: offsets keyed by path.
KeyByPath(f) == ProvisionalKey(PathOf(f))

KeyOf(f) == IF HasFp(f) THEN Fp(f) ELSE ProvisionalKey(PathOf(f))

\* Fault: the line after the stored offset is taken for shipped.
StartOnePast(f) ==
  IF offsets[KeyOf(f)] = NoRow \/ len[f] <= offsets[KeyOf(f)] THEN 0
  ELSE offsets[KeyOf(f)] + 1

\* Fault: a file that has not grown is taken for truncated.
StartUnlessGrown(f) ==
  IF offsets[KeyOf(f)] = NoRow \/ len[f] <= offsets[KeyOf(f)] THEN 0
  ELSE offsets[KeyOf(f)]

\* TailPlan.start_offset: the stored offset, unless the file is shorter.
Start(f) ==
  IF offsets[KeyOf(f)] = NoRow \/ len[f] < offsets[KeyOf(f)] THEN 0
  ELSE offsets[KeyOf(f)]

LinesOf(f, k) == {[file |-> f, n |-> i] : i \in 1..k}
LineOf(r) == [file |-> r.file, n |-> r.n]
Delivered == {LineOf(r) : r \in shipped}
Taken == {LineOf(r) : r \in records}

---------------------------------------------------------------------------
Init ==
  /\ len = [f \in Files |-> 0] /\ where = [f \in Files |-> "unborn"]
  /\ offsets = [k \in Key |-> NoRow] /\ old = {} /\ shipped = {}
  /\ pc = "idle" /\ dry = FALSE
  /\ listed = {} /\ plans = {} /\ records = {} /\ newOffs = {}
  /\ faults = 0

\* The application.  A partial line is not yet there for the tailer.
AppendLine(f) ==
  /\ where[f] = "live"
  /\ len[f] < MaxLines
  /\ len' = [len EXCEPT ![f] = @ + 1]
  /\ UNCHANGED <<where, table, shipped, pc, dry, locals, faults>>

\* Rotation by size (about 10 MB, far more than FP_PREFIX) renames the live
\* file, which frees its path ...
Rename(f) ==
  /\ where[f] = "live"
  /\ HasFp(f)
  /\ where' = [where EXCEPT ![f] = "archived"]
  /\ UNCHANGED <<len, table, shipped, pc, dry, locals, faults>>

\* ... and the next write opens a fresh file there.  Unless CreateDuringPoll,
\* not between discover's look at that path and the end of its drain.
Create(f) ==
  /\ where[f] = "unborn"
  /\ \A g \in Files : where[g] # "live" /\ (g < f => where[g] # "unborn")
  /\ ~CreateDuringPoll => \A p \in plans : p.path # Live
  /\ where' = [where EXCEPT ![f] = "live"]
  /\ UNCHANGED <<len, table, shipped, pc, dry, locals, faults>>

\* Retention deletes an archive.
Remove(f) ==
  /\ where[f] = "archived"
  /\ where' = [where EXCEPT ![f] = "gone"]
  /\ UNCHANGED <<len, table, shipped, pc, dry, locals, faults>>

\* gc_days pass without a poll that writes; gc_offsets reads the clock once.
Age ==
  /\ pc # "gc"
  /\ old' = {k \in Key : offsets[k] # NoRow}
  /\ UNCHANGED <<disk, offsets, shipped, pc, dry, locals, faults>>

---------------------------------------------------------------------------
Fault == faults < MaxFaults /\ faults' = faults + 1

\* ship_source returns or raises (ship_all catches); its locals are gone.
Return ==
  /\ pc' = "idle"
  /\ listed' = {} /\ plans' = {} /\ records' = {} /\ newOffs' = {}
  /\ UNCHANGED <<disk, dry>>

\* get_offsets, and discover's glob.  Nobody else writes the table, so the
\* poll's copy of it is the table.
StartPoll(dryRun) ==
  /\ pc = "idle"
  /\ pc' = "discover"
  /\ dry' = dryRun
  /\ listed' = {PathOf(f) : f \in Present}
  /\ UNCHANGED <<disk, table, shipped, plans, records, newOffs, faults>>

\* discover's look at each path listed; a file that has left its path since
\* is skipped.
Discover ==
  /\ pc = "discover"
  /\ pc' = "drain"
  /\ plans' = {[id |-> f, key |-> KeyOf(f), path |-> PathOf(f), at |-> Start(f)] :
                 f \in {g \in Present : PathOf(g) \in listed}}
  /\ listed' = {}
  /\ UNCHANGED <<disk, table, shipped, dry, records, newOffs, faults>>

\* A path whose stat or prefix cannot be read, though the file is there, is
\* skipped as if it were gone.
Overlook(path) ==
  /\ pc = "discover"
  /\ Fault
  /\ listed' = listed \ {path}
  /\ UNCHANGED <<disk, table, shipped, pc, dry, plans, records, newOffs>>

\* Oldest first: by mtime, then by name.
Turn(p) == pc = "drain" /\ \A q \in plans : p.id <= q.id

\* Ends of the complete lines tail_file sees in one window from `at` of
\* whatever file has the plan's path now; a missing file shows none.
Ends(p) ==
  {e \in p.at + 1 .. p.at + Window :
     \E f \in Present : PathOf(f) = p.path /\ e <= len[f]
                        /\ \A i \in p.at + 1 .. e : [file |-> f, n |-> i] \notin Long}

\* One tail_file call of drain_file; every record of the chunk carries the
\* chunk's new offset.
DrainChunk(p) ==
  /\ Turn(p)
  /\ \E f \in Present, e \in Ends(p) :
       /\ PathOf(f) = p.path
       /\ \A d \in Ends(p) : d <= e
       /\ records' = records \union
            {[file |-> f, n |-> i, name |-> p.path, file_offset |-> e] : i \in p.at + 1 .. e}
       /\ plans' = (plans \ {p}) \union {[p EXCEPT !.at = e]}
  /\ UNCHANGED <<disk, table, shipped, pc, dry, listed, newOffs, faults>>

\* Fault: the size of the file is stored instead of the drained offset.
DrainDoneAtSize(p) ==
  /\ Turn(p)
  /\ Ends(p) = {}
  /\ plans' = plans \ {p}
  /\ newOffs' = newOffs \union {[key |-> p.key, off |-> len[p.id]]}
  /\ UNCHANGED <<disk, table, shipped, pc, dry, listed, records, faults>>

\* The drain of this file ends: its offset will be committed as it is now.
EndDrain(p) ==
  /\ plans' = plans \ {p}
  /\ newOffs' = newOffs \union {[key |-> p.key, off |-> p.at]}
  /\ UNCHANGED <<disk, table, shipped, pc, dry, listed, records>>

\* No more complete lines.
DrainDone(p) ==
  /\ Turn(p)
  /\ Ends(p) = {}
  /\ EndDrain(p)
  /\ UNCHANGED faults

\* tail_file cannot read the file, though it is there: it returns no lines,
\* which ends the drain wherever it stands, and the poll goes on.
DrainFails(p) ==
  /\ Turn(p)
  /\ Fault
  /\ EndDrain(p)

Drained == pc = "drain" /\ plans = {}

\* Nothing new: no upload, no commit, no collection.
FinishEmpty ==
  /\ Drained
  /\ records = {}
  /\ Return
  /\ UNCHANGED <<table, shipped, faults>>

\* Fault: the offsets are committed before the upload.
CommitFirst ==
  /\ Drained
  /\ records # {} /\ ~dry
  /\ pc' = "commit"
  /\ UNCHANGED <<disk, table, shipped, dry, locals, faults>>

\* The spool file is written and closed.
FinishDrain ==
  /\ Drained
  /\ records # {} /\ ~dry
  /\ pc' = "upload"
  /\ UNCHANGED <<disk, table, shipped, dry, locals, faults>>

FinishDry ==
  /\ Drained
  /\ records # {} /\ dry
  /\ Return
  /\ UNCHANGED <<table, shipped, faults>>

PutObject ==
  /\ pc = "upload"
  /\ shipped' = shipped \union records
  /\ pc' = "verify"
  /\ UNCHANGED <<disk, table, dry, locals, faults>>

\* head_object finds the object complete.
Confirm ==
  /\ pc = "verify"
  /\ pc' = "commit"
  /\ UNCHANGED <<disk, table, shipped, dry, locals, faults>>

\* set_offsets: every file of the poll in one transaction, also those that
\* had nothing new.
Commit ==
  /\ pc = "commit"
  /\ offsets' = [k \in Key |->
       IF \E o \in newOffs : o.key = k THEN (CHOOSE o \in newOffs : o.key = k).off
       ELSE offsets[k]]
  /\ old' = old \ {o.key : o \in newOffs}
  /\ pc' = "gc"
  /\ UNCHANGED <<disk, shipped, dry, locals, faults>>

\* gc_offsets: rows no file of this poll has the key of, once gc_days old.
Garbage == {k \in old : offsets[k] # NoRow /\ \A o \in newOffs : o.key # k}

\* delete_offset, a transaction for each row.
Collect(k) ==
  /\ pc = "gc"
  /\ k \in Garbage
  /\ offsets' = [offsets EXCEPT ![k] = NoRow]
  /\ old' = old \ {k}
  /\ UNCHANGED <<disk, shipped, pc, dry, locals, faults>>

FinishPoll ==
  /\ pc = "gc"
  /\ Garbage = {}
  /\ Return
  /\ UNCHANGED <<table, shipped, faults>>

\* The process dies, or a step fails (spool file, PUT, HEAD, a transaction):
\* the poll fails; what it had stored by then stays.
Interrupt ==
  /\ pc # "idle"
  /\ Fault
  /\ Return
  /\ UNCHANGED <<table, shipped>>

---------------------------------------------------------------------------
Application ==
  \E f \in Files : AppendLine(f) \/ Rename(f) \/ Create(f) \/ Remove(f)

Agent ==
  \/ Discover
  \/ \E p \in plans : DrainChunk(p) \/ DrainDone(p)
  \/ FinishEmpty
  \/ FinishDrain
  \/ FinishDry
  \/ PutObject
  \/ Confirm
  \/ Commit
  \/ \E k \in Key : Collect(k)
  \/ FinishPoll

Next ==
  \/ Application
  \/ Age
  \/ \E d \in DryRuns : StartPoll(d)
  \/ Agent
  \/ \E path \in listed : Overlook(path)
  \/ \E p \in plans : DrainFails(p)
  \/ Interrupt

Spec == Init /\ [][Next]_vars

\* The task scheduler starts a poll again and again, whatever dry runs are
\* made in between, and a started poll runs on.  Nothing is assumed of the
\* application; faults are at most MaxFaults.
FairSpec == Spec /\ SF_vars(StartPoll(FALSE)) /\ WF_vars(Agent)
---------------------------------------------------------------------------
\* The type of every variable; lines drained or shipped are lines of a file.
TypeOK ==
  /\ len \in [Files -> 0..MaxLines]
  /\ where \in [Files -> {"unborn", "live", "archived", "gone"}]
  /\ offsets \in [Key -> 0..MaxLines \union {NoRow}] /\ old \subseteq Key
  /\ shipped \subseteq Record /\ records \subseteq Record
  /\ \A r \in shipped \union records : r.n <= len[r.file]
  /\ pc \in {"idle", "discover", "drain", "upload", "verify", "commit", "gc"}
  /\ dry \in BOOLEAN /\ faults \in Nat
  /\ listed \subseteq Files \union {Live} /\ plans \subseteq Plan
  /\ newOffs \subseteq [key : Key, off : 0..MaxLines]

\* No line is skipped: what the next poll would pass over, in any file that
\* has a fingerprint, is in the bucket, across renames, interrupted polls and
\* collected offsets (sources.py: an offset is never "advanced past unread
\* bytes", "we resume from the saved offset regardless of its current path").
NoLineSkipped ==
  \A f \in Present : HasFp(f) => LinesOf(f, Start(f)) \subseteq Delivered

\* The poll as an attempt of the abstract at-least-once pipeline, for files
\* that have a fingerprint.
Pipeline == INSTANCE Delivery WITH
  Items <- Lines,
  source <- UNION {LinesOf(f, len[f]) : f \in Present},
  inflight <- Taken,
  delivered <- Delivered,
  covered <- UNION {LinesOf(f, Start(f)) : f \in {g \in Present : HasFp(g)}}

\* Every behaviour of the shipper, the application and its rotation is one of
\* Delivery (ship.py: "the same at-least-once contract" as the extractor's).
AtLeastOnce == Pipeline!Spec

\* The stored offset of a file never goes back: no poll re-ships what one
\* before it has committed, unless the row was collected in between.
OffsetsAdvance ==
  [][\A f \in Files : NoRow \notin {offsets[Fp(f)], offsets'[Fp(f)]}
                         => offsets[Fp(f)] <= offsets'[Fp(f)]]_vars

\* A drain that ends without a read error has reached the end of whatever file
\* its path shows: each line there is uploaded or in hand, up to the first that
\* is too long for one read, wherever the drain began and however far renames
\* have carried the file since discover looked: what AllShipped comes to for
\* one poll.
DrainCatchesUp ==
  [][\A p \in plans, f \in Present :
       DrainDone(p) /\ p.key.by = "fp" /\ PathOf(f) = p.path =>
         \A l \in LinesOf(f, len[f]) :
           LinesOf(f, l.n) \intersect Long = {} => l \in Delivered \union Taken]_vars

\* What a poll uploads lies beyond every offset stored under a fingerprint,
\* until the poll's own commit: a line once committed is not shipped again
\* while the row lasts, whatever renames its file has gone through, which is
\* what keying offsets by fingerprint is for.
NotReshipped ==
  pc # "gc" =>
    \A r \in records : offsets[Fp(r.file)] # NoRow => r.n > offsets[Fp(r.file)]

\* Every line of a file that has a fingerprint and is not removed reaches the
\* bucket once the application is quiet, up to the first line that is too long
\* for one read: tail_file never gets past that one.
AllShipped ==
  <>[](\A f \in Present : HasFp(f) =>
         \A l \in LinesOf(f, len[f]) :
           LinesOf(f, l.n) \intersect Long = {} => l \in Delivered)

---------------------------------------------------------------------------
\* The inductive invariant behind NoLineSkipped.  A stored offset belongs to
\* a file long enough to have that fingerprint and is backed by uploads.
RowInv ==
  \A f \in Files : offsets[Fp(f)] # NoRow =>
    HasFp(f) /\ LinesOf(f, offsets[Fp(f)]) \subseteq Delivered

\* A plan's path shows the plan's file or nothing, and what lies before the
\* drain's position is uploaded or drained.
PlanInv ==
  \A p \in plans :
    /\ p.key.by = "fp" => /\ p.key = Fp(p.id) /\ HasFp(p.id)
                          /\ LinesOf(p.id, p.at) \subseteq Delivered \union Taken
    /\ \A f \in Present : PathOf(f) = p.path => f = p.id
    /\ p.path \in {Live, p.id} /\ pc = "drain"

\* The same of the offsets a commit will store.
NewOffInv ==
  \A o \in newOffs : o.key.by = "fp" =>
    HasFp(o.key.of) /\ LinesOf(o.key.of, o.off) \subseteq Delivered \union Taken

\* One live file; after the PUT, what was drained is in the bucket.
StageInv ==
  /\ \A f, g \in Files : where[f] = "live" /\ where[g] = "live" => f = g
  /\ \A f \in Files : where[f] = "unborn" => len[f] = 0
  /\ pc \in {"verify", "commit", "gc"} => Taken \subseteq Delivered

\* What the poll has in hand lies beyond the rows of the table.
AheadInv ==
  /\ \A p \in plans : offsets[Fp(p.id)] # NoRow =>
       p.key = Fp(p.id) /\ offsets[Fp(p.id)] <= p.at
  /\ pc # "gc" => \A o \in newOffs : o.key.by = "fp" /\ offsets[o.key] # NoRow =>
       offsets[o.key] <= o.off
  /\ NotReshipped

CoreInv == TypeOK /\ RowInv /\ PlanInv /\ NewOffInv /\ StageInv
IInv == CoreInv /\ AheadInv /\ NoLineSkipped
=============================================================================
