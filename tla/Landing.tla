------------------------------ MODULE Landing ------------------------------
(***************************************************************************)
(* From the runs of several hosts to the clean table: the keys of the      *)
(* objects (s3.py), the rows and their _extracted_at (landing.py), the     *)
(* pipe that loads each object once (sql/04_pipes.sql) and the MERGE that  *)
(* keeps the latest extraction (sql/05_merge_example.sql).                 *)
(*                                                                         *)
(* One S3 prefix, which is one collection or one log source.  A host's     *)
(* extraction is what Extract and LogShip show it to be: it ships, as read *)
(* at some moment of the run, every item that is newer than the last state *)
(* it committed, and may ship others again, or one item in the two         *)
(* versions that a cursor without an order comes across.  A run's          *)
(* _extracted_at is the number of its start, since clocks are taken to     *)
(* agree; the object key has the second of the start.                      *)
(***************************************************************************)
EXTENDS Naturals

CONSTANTS
  Hosts,       \* hosts that run the agent with the same bucket and prefix
  Items,       \* documents of the collection, or lines of the logs
  Sees,        \* the items each host extracts
  MaxVersion,  \* bound: versions of an item
  MaxRuns,     \* bound: runs
  WriteUntil,  \* bound: starts after which the source no longer changes
  MaxFaults,   \* bound: runs that fail
  Turns,       \* sets of items that hosts may be made to take turns at
  SecondsApart \* does every run start in a second of its own?

ASSUME LandingAssumption ==
  /\ Sees \in [Hosts -> SUBSET Items]
  /\ MaxVersion \in Nat /\ MaxRuns \in Nat /\ WriteUntil \in Nat /\ MaxFaults \in Nat
  /\ Turns \subseteq SUBSET Items /\ SecondsApart \in BOOLEAN

VARIABLES
  solo,     \* items no two runs extract at the same time, as it was arranged
  version,  \* the current version of each item; 0 before it exists
  starts,   \* runs started so far
  second,   \* the second of the latest start
  phase,    \* where the run of each host stands; "idle" between runs
  at,       \* run_dt of each host's run
  sec,      \* its second
  todo,     \* items the run must still return
  rows,     \* rows in the spool file
  mark,     \* the version of each item that each host has committed
  bucket,   \* the rows of the object of each second; none if there is no object
  queue,    \* objects announced to the pipe and not loaded yet
  loaded,   \* objects the pipe has loaded
  raw,      \* the raw table
  staged,   \* STAGED_AS_JOBS where rn = 1
  target,   \* the clean table: version per item, 0 if there is no row
  faults    \* failed runs so far

source == <<solo, version, starts, second>>
run == <<phase, at, sec, todo, rows>>
s3 == <<bucket, queue, loaded>>
tables == <<raw, staged, target>>
vars == <<solo, version, starts, second, phase, at, sec, todo, rows, mark, bucket,
          queue, loaded, raw, staged, target, faults>>

Version == 1..MaxVersion
Second == 1..MaxRuns
Row == [item : Items, version : Version, at : 1..MaxRuns]

Init ==
  /\ solo \in Turns
  /\ version = [i \in Items |-> 0] /\ starts = 0 /\ second = 0
  /\ phase = [h \in Hosts |-> "idle"]
  /\ at = [h \in Hosts |-> 0] /\ sec = [h \in Hosts |-> 0]
  /\ todo = [h \in Hosts |-> {}] /\ rows = [h \in Hosts |-> {}]
  /\ mark = [h \in Hosts |-> [i \in Items |-> 0]]
  /\ bucket = [s \in Second |-> {}] /\ queue = {} /\ loaded = {}
  /\ raw = {} /\ staged = {} /\ target = [i \in Items |-> 0]
  /\ faults = 0

\* The application writes a document, or a line.
Update(i) ==
  /\ starts < WriteUntil
  /\ version[i] < MaxVersion
  /\ version' = [version EXCEPT ![i] = @ + 1]
  /\ UNCHANGED <<solo, starts, second, run, mark, s3, tables, faults>>

---------------------------------------------------------------------------
Newer(h) == {i \in Sees[h] : version[i] > mark[h][i]}
Existing(h) == {i \in Sees[h] : version[i] > 0}

\* A run starts in the second of the latest start or in a later one, whoever
\* else is running, except for hosts that take turns at an item of both.
Start(h) ==
  /\ phase[h] = "idle"
  /\ starts < MaxRuns
  /\ \A g \in Hosts : phase[g] # "idle" => Sees[g] \intersect Sees[h] \intersect solo = {}
  /\ starts' = starts + 1
  /\ \/ second' = second + 1
     \/ ~SecondsApart /\ second > 0 /\ second' = second
  /\ phase' = [phase EXCEPT ![h] = "reading"]
  /\ at' = [at EXCEPT ![h] = starts']
  /\ sec' = [sec EXCEPT ![h] = second']
  /\ todo' = [todo EXCEPT ![h] = Newer(h)]
  /\ UNCHANGED <<solo, version, rows, mark, s3, tables, faults>>

\* Fault: _extracted_at is a time of day; a day has MaxRuns starts.
ExtractedDaily(h) == at[h] % MaxRuns

\* RowContext.extracted_at: the start of the run, for all of its rows.
ExtractedAt(h) == at[h]

\* The cursor returns an item as it is now, an old one of the overlap window
\* or one it has returned before and that was updated since included (a mutable
\* collection is read in no order); doc_to_row makes it a row.
Read(h) ==
  /\ phase[h] = "reading"
  /\ \E i \in Existing(h) :
       /\ todo' = [todo EXCEPT ![h] = @ \ {i}]
       /\ rows' = [rows EXCEPT ![h] = @ \union
                     {[item |-> i, version |-> version[i], at |-> ExtractedAt(h)]}]
  /\ UNCHANGED <<source, phase, at, sec, mark, s3, tables, faults>>

\* Fault: the object key has the date alone.
KeyOfDate(h) == 1

\* mongo_key, logs_key, hostmetrics_key: the second of run_dt, no host.
KeyOf(h) == sec[h]

\* The object is stored, over whatever had its key, and announced to the pipe,
\* which passes over names it has loaded.
Put(h) ==
  /\ phase[h] = "reading" /\ todo[h] = {} /\ rows[h] # {}
  /\ bucket' = [bucket EXCEPT ![KeyOf(h)] = rows[h]]
  /\ queue' = queue \union ({KeyOf(h)} \ loaded)
  /\ phase' = [phase EXCEPT ![h] = "stored"]
  /\ UNCHANGED <<source, at, sec, todo, rows, mark, loaded, tables, faults>>

Idle(h) ==
  /\ phase' = [phase EXCEPT ![h] = "idle"]
  /\ at' = [at EXCEPT ![h] = 0] /\ sec' = [sec EXCEPT ![h] = 0]
  /\ todo' = [todo EXCEPT ![h] = {}] /\ rows' = [rows EXCEPT ![h] = {}]

\* The newest version of an item that the run has read, or else the last one
\* the host has committed.
Reached(h, i) ==
  LET read == {r.version : r \in {q \in rows[h] : q.item = i}}
  IN  IF read = {} THEN mark[h][i] ELSE CHOOSE n \in read : \A m \in read : m <= n

\* The host's state store takes over what was shipped.
Commit(h) ==
  /\ phase[h] = "stored"
  /\ mark' = [mark EXCEPT ![h] = [i \in Items |-> Reached(h, i)]]
  /\ Idle(h)
  /\ UNCHANGED <<source, s3, tables, faults>>

\* A run without rows stores nothing.
FinishEmpty(h) ==
  /\ phase[h] = "reading" /\ todo[h] = {} /\ rows[h] = {}
  /\ Idle(h)
  /\ UNCHANGED <<source, mark, s3, tables, faults>>

\* A run fails or is killed, before or after its object is stored.
Fail(h) ==
  /\ phase[h] # "idle"
  /\ faults < MaxFaults
  /\ faults' = faults + 1
  /\ Idle(h)
  /\ UNCHANGED <<source, mark, s3, tables>>

---------------------------------------------------------------------------
\* COPY INTO: the pipe loads an object as it finds it; in any order.
Load(s) ==
  /\ s \in queue
  /\ raw' = raw \union bucket[s]
  /\ queue' = queue \ {s} /\ loaded' = loaded \union {s}
  /\ UNCHANGED <<source, run, mark, bucket, staged, target, faults>>

\* Fault: the sort is ascending.
Earliest(r) == \A s \in raw : s.item = r.item => s.at >= r.at

\* ORDER BY _extracted_at DESC: the rows of an item that can come first.
Latest(r) == \A s \in raw : s.item = r.item => s.at <= r.at

\* CREATE OR REPLACE TABLE STAGED: one of the latest rows of each item.
Stage ==
  /\ staged' \in {S \in SUBSET {r \in raw : Latest(r)} :
                    /\ \A r, s \in S : r.item = s.item => r = s
                    /\ \A r \in raw : \E s \in S : s.item = r.item}
  /\ UNCHANGED <<source, run, mark, s3, raw, target, faults>>

\* Fault: MERGE without WHEN MATCHED.
InsertOnly ==
  /\ target' = [i \in Items |->
       IF target[i] = 0 /\ \E r \in staged : r.item = i
       THEN (CHOOSE r \in staged : r.item = i).version ELSE target[i]]
  /\ UNCHANGED <<source, run, mark, s3, raw, staged, faults>>

\* MERGE: update when matched, whatever the row there; insert otherwise.
Merge ==
  /\ target' = [i \in Items |->
       IF \E r \in staged : r.item = i
       THEN (CHOOSE r \in staged : r.item = i).version ELSE target[i]]
  /\ UNCHANGED <<source, run, mark, s3, raw, staged, faults>>

Agent(h) == Read(h) \/ Put(h) \/ Commit(h) \/ FinishEmpty(h)

Next ==
  \/ \E i \in Items : Update(i)
  \/ \E h \in Hosts : Start(h) \/ Agent(h) \/ Fail(h)
  \/ \E s \in Second : Load(s)
  \/ Stage \/ Merge

Spec == Init /\ [][Next]_vars

\* Runs go on and are started again; the pipe and the task that runs the MERGE
\* come round.
FairSpec ==
  /\ Spec
  /\ \A h \in Hosts : WF_vars(Agent(h))
  /\ WF_vars(\E h \in Hosts : Start(h))
  /\ \A s \in Second : WF_vars(Load(s))
  /\ WF_vars(Stage) /\ WF_vars(Merge)

---------------------------------------------------------------------------
Waiting == UNION {bucket[s] : s \in queue}
Landed == raw \union Waiting

TypeOK ==
  /\ solo \subseteq Items /\ version \in [Items -> 0..MaxVersion]
  /\ starts \in 0..MaxRuns /\ second \in 0..starts
  /\ phase \in [Hosts -> {"idle", "reading", "stored"}]
  /\ at \in [Hosts -> 0..MaxRuns] /\ sec \in [Hosts -> 0..MaxRuns]
  /\ todo \in [Hosts -> SUBSET Items] /\ rows \in [Hosts -> SUBSET Row]
  /\ mark \in [Hosts -> [Items -> 0..MaxVersion]]
  /\ bucket \in [Second -> SUBSET Row]
  /\ queue \subseteq Second /\ loaded \subseteq Second
  /\ raw \subseteq Row /\ staged \subseteq raw
  /\ target \in [Items -> 0..MaxVersion]
  /\ faults \in Nat

\* What a host has committed, and will not look for again, is in the raw table
\* or in an object that is still going to be loaded (README section 8: running
\* on every node "is always safe").
NothingLost ==
  \A h \in Hosts, i \in Items :
    mark[h][i] > 0 => \E r \in Landed : r.item = i /\ r.version >= mark[h][i]

\* What the MERGE goes by, where hosts take turns: of the rows of an item that
\* two runs have shipped, those extracted later hold the newer version.
LatestIsNewest ==
  \A r, s \in Landed :
    r.item = s.item /\ r.item \in solo /\ r.at > s.at => r.version >= s.version

\* The staged row of an item is one of several that one run has shipped: the
\* cursor came across two versions, and ROW_NUMBER has nothing to prefer the
\* newer by, since the rows of a run have the same _extracted_at.
Torn(i) ==
  \E s \in staged, r \in raw :
    s.item = i /\ r.item = i /\ r.at = s.at /\ r.version # s.version

\* Nothing waits for the pipe, and the tables were made from all that is there.
Settled ==
  /\ queue = {}
  /\ \A r \in raw : \E s \in staged : s.item = r.item /\ Latest(s)
  /\ \A s \in staged : target[s.item] = s.version

\* When all has settled, the clean table has whatever a host has committed of
\* the items taken in turns, or something newer, unless the latest run that
\* shipped the item did so in two versions.
SettledComplete ==
  Settled => \A h \in Hosts, i \in solo : target[i] >= mark[h][i] \/ Torn(i)

\* The same without the exception: 05_merge_example.sql derives "a clean,
\* deduplicated target table" and stages with "latest extraction wins".
CommittedMerged ==
  Settled => \A h \in Hosts, i \in solo : target[i] >= mark[h][i]

\* Every run has a start of its own; hosts keep to their turns.
RunsApart ==
  \A h \in Hosts :
    IF phase[h] = "idle" THEN todo[h] = {} /\ rows[h] = {}
    ELSE /\ at[h] \in 1..starts /\ sec[h] \in 1..second
         /\ \A r \in rows[h] : r.item \in Sees[h]
         /\ \A g \in Hosts : phase[g] # "idle" /\ g # h =>
              at[g] # at[h] /\ Sees[g] \intersect Sees[h] \intersect solo = {}

\* No object has the key of a run that is still reading; every object is
\* waiting for the pipe, or loaded and all of it in the raw table.
KeysFresh ==
  /\ \A g, h \in Hosts : phase[g] # "idle" /\ phase[h] # "idle" /\ g # h => sec[g] # sec[h]
  /\ \A h \in Hosts : phase[h] = "reading" => sec[h] \notin queue \union loaded
  /\ \A s \in queue \union loaded : s <= second
  /\ \A s \in loaded : bucket[s] \subseteq raw

\* Rows are no newer than the source.  For items taken in turns, landed rows
\* are of earlier runs than one that is reading, and a run's own rows are as
\* new as any that an earlier run has landed.
RowsCurrent ==
  /\ \A r \in Landed :
       /\ r.version <= version[r.item] /\ r.at <= starts
       /\ \A h \in Hosts :
            phase[h] = "reading" /\ r.item \in Sees[h] \intersect solo => r.at < at[h]
  /\ \A h \in Hosts : \A r \in rows[h] :
       /\ r.version <= version[r.item] /\ r.at = at[h]
       /\ r.item \in solo =>
            \A q \in Landed : q.item = r.item /\ q.at # r.at => q.version <= r.version

\* What a run is about to commit has landed.
StoredLanded == \A h \in Hosts : phase[h] = "stored" => rows[h] \subseteq Landed

\* The staging table has one row per item, and whatever was merged came from
\* there or from an earlier one, which had nothing extracted later.
StagedCurrent ==
  /\ \A r, s \in staged : r.item = s.item => r = s
  /\ \A i \in Items : target[i] # 0 =>
       \E s \in staged, r \in raw :
         s.item = i /\ r.item = i /\ r.version = target[i] /\ r.at <= s.at

IInv ==
  /\ TypeOK /\ RunsApart
  /\ RowsCurrent /\ LatestIsNewest /\ StagedCurrent
  /\ SecondsApart => KeysFresh /\ StoredLanded /\ NothingLost

\* In whatever order the pipe loads, the clean table goes back to an older
\* version of an item that hosts take turns at only between two that one run
\* has shipped.
TargetNeverBack == [][\A i \in solo : target'[i] >= target[i] \/ Torn(i)]_target

\* Once the source is quiet, the clean table becomes a copy of it, but for
\* items whose latest extraction holds two versions.
Converges ==
  <>[](\A i \in solo \intersect UNION {Sees[h] : h \in Hosts} :
         target[i] = version[i] \/ Torn(i))
=============================================================================
