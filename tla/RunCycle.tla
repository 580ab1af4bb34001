------------------------------ MODULE RunCycle ------------------------------
(***************************************************************************)
(* The runs of the agent on one host: run_cycle (runner.py) with the lock  *)
(* file (locking.py), the spool directory (spool.py) and the history of    *)
(* runs (StateStore.record_run), as processes that are started by the      *)
(* scheduled task or by hand, may be killed anywhere, and share the lock   *)
(* file, the spool and the process ids of the host with each other and     *)
(* with programs that have nothing to do with the agent.                   *)
(*                                                                         *)
(* What a module does to its source and to the bucket is the subject of    *)
(* Extract and LogShip; here a module has an outcome.                      *)
(***************************************************************************)
EXTENDS Naturals

CONSTANTS
  Procs,      \* agent processes that can be alive at a time
  Task,       \* the one of them the scheduled task starts
  Pids,       \* process ids of the host
  NoPid,      \* "no process id": not started, or no number in the lock file
  Enabled,    \* modules the configuration enables
  Choices,    \* what --only may leave of them
  DryRuns,    \* which values of --dry-run manual runs are started with
  Apart,      \* does no start fall into another start's acquire?
  Unreadable, \* may the lock file of a run that goes on fail to be read?
  MaxFaults   \* bound: kills and crashes of one behaviour

Order == <<"mongo", "logs", "hostmetrics">>  \* the order of the modules
Module == {"mongo", "logs", "hostmetrics"}
Status == {"none", "ok", "empty", "failed"}  \* "none": the module has no result

ASSUME RunCycleAssumption ==
  /\ Task \in Procs /\ NoPid \notin Pids
  /\ Enabled \subseteq Module /\ Choices \subseteq SUBSET Enabled
  /\ DryRuns \subseteq BOOLEAN /\ Apart \in BOOLEAN /\ Unreadable \in BOOLEAN
  /\ MaxFaults \in Nat

VARIABLES
  base,      \* does spool_dir, where the lock file is written, exist?
  locked,    \* does the lock file exist?
  owner,     \* the process id in it; NoPid when it holds no number
  handles,   \* processes whose open handle is on the lock file that is there
  aliens,    \* process ids of other programs
  pc,        \* where each process stands; "off" when there is none
  pid,       \* its os.getpid()
  seen,      \* the process id it read from the lock file
  only,      \* the modules it will run
  dry,       \* its --dry-run
  unit,      \* index in Order of its current module
  results,   \* status of each module so far
  dirs,      \* processes whose spool directory exists
  files,     \* processes whose current unit has its spool file
  recorded,  \* processes whose run has its row in the table of runs
  code,      \* exit code
  faults     \* faults so far

lockFile == <<base, locked, owner, handles>>
process == <<pid, only, dry>>
progress == <<unit, results, recorded>>
spool == <<dirs, files>>
vars == <<base, locked, owner, handles, aliens, pc, pid, seen, only, dry, unit,
          results, dirs, files, recorded, code, faults>>

Acquire == {"check", "read", "probe", "open", "fill"}
Run == {"state", "spool", "sweep", "unit", "put", "record", "release"}

Alive(p) == pc[p] # "off"
Acquiring(p) == pc[p] \in Acquire
Holds(p) == pc[p] \in Run  \* between acquire and the end of release
InUse == aliens \union {pid[p] : p \in {q \in Procs : Alive(q)}}
Goto(p, where) == pc' = [pc EXCEPT ![p] = where]

\* What is left of a process that has ended.
Gone(p) ==
  /\ Goto(p, "off")
  /\ pid' = [pid EXCEPT ![p] = NoPid]
  /\ seen' = [seen EXCEPT ![p] = NoPid]
  /\ only' = [only EXCEPT ![p] = {}]
  /\ dry' = dry \ {p}
  /\ unit' = [unit EXCEPT ![p] = 1]
  /\ results' = [results EXCEPT ![p] = [m \in Module |-> "none"]]
  /\ dirs' = dirs \ {p}
  /\ files' = files \ {p}
  /\ recorded' = recorded \ {p}

---------------------------------------------------------------------------
Init ==
  /\ base \in BOOLEAN
  /\ locked = FALSE /\ owner = NoPid /\ handles = {}
  /\ aliens = {}
  /\ pc = [p \in Procs |-> "off"]
  /\ pid = [p \in Procs |-> NoPid] /\ seen = [p \in Procs |-> NoPid]
  /\ only = [p \in Procs |-> {}] /\ dry = {}
  /\ unit = [p \in Procs |-> 1]
  /\ results = [p \in Procs |-> [m \in Module |-> "none"]]
  /\ dirs = {} /\ files = {} /\ recorded = {}
  /\ code = [p \in Procs |-> 0]
  /\ faults = 0

\* The operator creates spool_dir; nothing in the agent does before the lock
\* file is written to it.
CreateBase ==
  /\ ~base
  /\ base' = TRUE
  /\ UNCHANGED <<locked, owner, handles, aliens, pc, process, seen, progress,
                 spool, code, faults>>

\* Other programs come and go; the host hands their process ids out again,
\* and does not run out of them.
AlienStart(x) ==
  /\ x \notin InUse /\ Pids \ InUse # {x}
  /\ aliens' = aliens \union {x}
  /\ UNCHANGED <<lockFile, pc, process, seen, progress, spool, code, faults>>

AlienExit(x) ==
  /\ x \in aliens
  /\ aliens' = aliens \ {x}
  /\ UNCHANGED <<lockFile, pc, process, seen, progress, spool, code, faults>>

\* main: a process with a process id nobody uses and a fresh run_id.  The task
\* passes neither --only nor --dry-run, and starts no second instance of its
\* own (MultipleInstances IgnoreNew); a manual start passes what it likes.
Start(p) ==
  /\ ~Alive(p)
  /\ Apart => \A q \in Procs : ~Acquiring(q)
  /\ \E x \in Pids \ InUse : pid' = [pid EXCEPT ![p] = x]
  /\ \/ /\ p = Task
        /\ only' = [only EXCEPT ![p] = Enabled]
        /\ dry' = dry
     \/ /\ p # Task
        /\ \E choice \in Choices : only' = [only EXCEPT ![p] = choice]
        /\ \E d \in DryRuns : dry' = IF d THEN dry \union {p} ELSE dry
  /\ Goto(p, "check")
  /\ UNCHANGED <<lockFile, aliens, seen, progress, spool, code, faults>>

---------------------------------------------------------------------------
\* SingleInstanceLock.acquire

\* lock_path.exists()
CheckExists(p) ==
  /\ pc[p] = "check"
  /\ Goto(p, IF locked THEN "read" ELSE "open")
  /\ UNCHANGED <<lockFile, aliens, process, seen, progress, spool, code, faults>>

\* Fault: a lock file without a number counts as held.
ReadStrictly(p) ==
  /\ pc[p] = "read"
  /\ \/ /\ owner # NoPid
        /\ seen' = [seen EXCEPT ![p] = owner] /\ Goto(p, "probe")
        /\ UNCHANGED <<process, progress, spool, code>>
     \/ /\ owner = NoPid
        /\ code' = [code EXCEPT ![p] = 2] /\ Gone(p)
  /\ UNCHANGED <<lockFile, aliens, faults>>

\* int(read_text()): a file that has vanished, holds no number or cannot be
\* read is stale.
ReadOwner(p) ==
  /\ pc[p] = "read"
  /\ \/ seen' = [seen EXCEPT ![p] = owner]
     \/ /\ Unreadable \/ ~\E q \in Procs : Holds(q)
        /\ seen' = [seen EXCEPT ![p] = NoPid]
  /\ Goto(p, IF seen'[p] = NoPid THEN "open" ELSE "probe")
  /\ UNCHANGED <<lockFile, aliens, process, progress, spool, code, faults>>

\* pid_exists is false: the lock is stolen.
Steal(p) ==
  /\ pc[p] = "probe"
  /\ seen[p] \notin InUse
  /\ Goto(p, "open")
  /\ UNCHANGED <<lockFile, aliens, process, seen, progress, spool, code, faults>>

\* Fault: the finally block covers acquire as well.
RefuseReleasing(p) ==
  /\ pc[p] = "probe"
  /\ seen[p] \in InUse
  /\ code' = [code EXCEPT ![p] = 2]
  /\ Goto(p, "release")
  /\ UNCHANGED <<lockFile, aliens, process, seen, progress, spool, faults>>

\* AlreadyRunningError, whichever program the process id belongs to.
Refuse(p) ==
  /\ pc[p] = "probe"
  /\ seen[p] \in InUse
  /\ code' = [code EXCEPT ![p] = 2]
  /\ Gone(p)
  /\ UNCHANGED <<lockFile, aliens, faults>>

\* write_text creates or empties the file ...
OpenLock(p) ==
  /\ pc[p] = "open"
  /\ base
  /\ locked' = TRUE /\ owner' = NoPid
  /\ handles' = handles \union {p}
  /\ Goto(p, "fill")
  /\ UNCHANGED <<base, aliens, process, seen, progress, spool, code, faults>>

\* ... which it cannot without a spool_dir: not an AlreadyRunningError, and
\* before the try block, so that main ends the process.
NoSpoolDir(p) ==
  /\ pc[p] = "open"
  /\ ~base
  /\ code' = [code EXCEPT ![p] = 2]
  /\ Gone(p)
  /\ UNCHANGED <<lockFile, aliens, faults>>

\* ... and then writes the process id, into a file nobody finds any more if
\* it was removed in between.
FillLock(p) ==
  /\ pc[p] = "fill"
  /\ owner' = IF p \in handles THEN pid[p] ELSE owner
  /\ handles' = handles \ {p}
  /\ Goto(p, "state")
  /\ UNCHANGED <<base, locked, aliens, process, seen, progress, spool, code, faults>>

---------------------------------------------------------------------------
\* The try block of run_cycle

\* Any exception that nothing below run_cycle handles.
Fatal(p) ==
  /\ code' = [code EXCEPT ![p] = 2]
  /\ Goto(p, "release")

OpenState(p) ==
  /\ pc[p] = "state"
  /\ \/ Goto(p, "spool") /\ code' = code
     \/ Fatal(p)
  /\ UNCHANGED <<lockFile, aliens, process, seen, progress, spool, faults>>

SetupSpool(p) ==
  /\ pc[p] = "spool"
  /\ \/ /\ base' = TRUE
        /\ dirs' = dirs \union {p}
        /\ Goto(p, "sweep") /\ code' = code
     \/ Fatal(p) /\ UNCHANGED <<base, dirs>>
  /\ UNCHANGED <<locked, owner, handles, aliens, process, seen, progress, files, faults>>

\* Fault: the run's own directory is swept with the others.
SweepAll(p) ==
  /\ pc[p] = "sweep"
  /\ dirs' = {} /\ files' = {}
  /\ Goto(p, "unit")
  /\ UNCHANGED <<lockFile, aliens, process, seen, progress, code, faults>>

\* sweep_orphans removes every other directory; rmtree leaves what it cannot
\* remove.  The directories of runs that have ended are not kept track of.
\* Listing them may fail, and so may S3Uploader after it.
Sweep(p) ==
  /\ pc[p] = "sweep"
  /\ \E left \in SUBSET (dirs \ {p}) : \E kept \in SUBSET (files \intersect left) :
       /\ dirs' = (dirs \intersect {p}) \union left
       /\ files' = (files \intersect {p}) \union kept
  /\ \/ Goto(p, "unit") /\ code' = code
     \/ Fatal(p)
  /\ UNCHANGED <<lockFile, aliens, process, seen, progress, faults>>

ModuleOf(p) == Order[unit[p]]

Report(p, status) == results' = [results EXCEPT ![p][ModuleOf(p)] = status]
NextUnit(p) ==
  /\ unit' = [unit EXCEPT ![p] = @ + 1]
  /\ Goto(p, "unit")

\* A module that is not enabled or not asked for is passed over.
SkipUnit(p) ==
  /\ pc[p] = "unit" /\ unit[p] <= 3
  /\ ModuleOf(p) \notin only[p]
  /\ NextUnit(p)
  /\ UNCHANGED <<lockFile, aliens, process, seen, results, recorded, spool, code, faults>>

\* Nothing to ship; no collection or source that --collection leaves; or a
\* failure that extract_all and ship_all keep to the unit.
EndUnit(p) ==
  /\ pc[p] = "unit" /\ unit[p] <= 3
  /\ ModuleOf(p) \in only[p]
  /\ \E status \in IF ModuleOf(p) = "hostmetrics" THEN {"empty"}
                   ELSE {"none", "empty", "failed"} : Report(p, status)
  /\ NextUnit(p)
  /\ UNCHANGED <<lockFile, aliens, process, seen, recorded, spool, code, faults>>

\* The rows are written to a file in the run's directory.
SpoolUnit(p) ==
  /\ pc[p] = "unit" /\ unit[p] <= 3
  /\ ModuleOf(p) \in only[p]
  /\ p \in dirs
  /\ files' = files \union {p}
  /\ Goto(p, "put")
  /\ UNCHANGED <<lockFile, aliens, process, seen, progress, dirs, code, faults>>

\* Writing or removing the spool file of the host metrics fails: nobody keeps
\* that apart.
SpoolFails(p) ==
  /\ pc[p] \in {"unit", "put"} /\ unit[p] <= 3
  /\ ModuleOf(p) \in only[p] \intersect {"hostmetrics"}
  /\ Fatal(p)
  /\ UNCHANGED <<lockFile, aliens, process, seen, progress, spool, faults>>

\* The upload, which a dry run leaves out, and the end of the spool file; of
\* another module than the host metrics, either may fail the unit.
PutUnit(p) ==
  /\ pc[p] = "put"
  /\ \/ (p \in dry \/ p \in files) /\ Report(p, "ok")
     \/ (p \notin dry \/ ModuleOf(p) # "hostmetrics") /\ Report(p, "failed")
  /\ files' = files \ {p}
  /\ NextUnit(p)
  /\ UNCHANGED <<lockFile, aliens, process, seen, recorded, dirs, code, faults>>

\* Fault: the exit code looks at the last module only.
ExitCodeOfLast(p) == IF results[p]["hostmetrics"] = "failed" THEN 1 ELSE 0

\* RunSummary.exit_code
ExitCode(p) == IF \E m \in Module : results[p][m] = "failed" THEN 1 ELSE 0

\* record_run and close: either may fail, close when the row is already there.
RecordRun(p) ==
  /\ pc[p] = "unit" /\ unit[p] = 4
  /\ \/ /\ recorded' = recorded \union {p}
        /\ code' = [code EXCEPT ![p] = ExitCode(p)]
        /\ Goto(p, "release")
     \/ Fatal(p) /\ recorded' \in {recorded, recorded \union {p}}
  /\ UNCHANGED <<lockFile, aliens, process, seen, unit, results, spool, faults>>

\* SingleInstanceLock.release: whosever the lock file is, it is removed; it is
\* no error if there is none.  Where an open file cannot be removed, release
\* fails while anybody has it open, be it a start that reads it or a program
\* that is none of the agent's, and main ends the process with 2.
Release(p) ==
  /\ pc[p] = "release"
  /\ \/ /\ locked' = FALSE /\ owner' = NoPid /\ handles' = {}
        /\ code' = code
     \/ /\ locked
        /\ code' = [code EXCEPT ![p] = 2]
        /\ UNCHANGED <<locked, owner, handles>>
  /\ Gone(p)
  /\ UNCHANGED <<base, aliens, faults>>

---------------------------------------------------------------------------
\* The process is killed (ExecutionTimeLimit, the operator) or dies.
Crash(p) ==
  /\ Alive(p)
  /\ faults < MaxFaults
  /\ faults' = faults + 1
  /\ handles' = handles \ {p}
  /\ Gone(p)
  /\ UNCHANGED <<base, locked, owner, aliens, code>>

Agent(p) ==
  \/ CheckExists(p) \/ ReadOwner(p) \/ Steal(p) \/ Refuse(p)
  \/ OpenLock(p) \/ NoSpoolDir(p) \/ FillLock(p)
  \/ OpenState(p) \/ SetupSpool(p) \/ Sweep(p)
  \/ SkipUnit(p) \/ EndUnit(p) \/ SpoolUnit(p) \/ SpoolFails(p) \/ PutUnit(p)
  \/ RecordRun(p) \/ Release(p)

Next ==
  \/ CreateBase
  \/ \E x \in Pids : AlienStart(x) \/ AlienExit(x)
  \/ \E p \in Procs : Start(p) \/ Agent(p) \/ Crash(p)

Spec == Init /\ [][Next]_vars

\* A process that was started goes on of its own accord, and the task is
\* started again and again.
FairSpec ==
  /\ Spec
  /\ \A p \in Procs : WF_vars(Agent(p))
  /\ WF_vars(Start(Task))

---------------------------------------------------------------------------
TypeOK ==
  /\ base \in BOOLEAN /\ locked \in BOOLEAN
  /\ owner \in Pids \union {NoPid}
  /\ handles \subseteq Procs /\ aliens \subseteq Pids
  /\ pc \in [Procs -> {"off"} \union Acquire \union Run]
  /\ pid \in [Procs -> Pids \union {NoPid}]
  /\ seen \in [Procs -> Pids \union {NoPid}]
  /\ only \in [Procs -> SUBSET Module] /\ dry \subseteq Procs
  /\ unit \in [Procs -> 1..4]
  /\ \A p \in Procs : pc[p] = "put" => unit[p] # 4
  /\ results \in [Procs -> [Module -> Status]]
  /\ dirs \subseteq Procs /\ files \subseteq Procs /\ recorded \subseteq Procs
  /\ code \in [Procs -> 0..2]
  /\ faults \in Nat

\* What keeps starts apart: nobody starts a run while another acquires, or
\* there is nothing but the scheduled task, which starts no second instance;
\* and whoever looks at the lock file of a run can read it.
StartsOrderly == (Apart \/ Procs = {Task}) /\ ~Unreadable

\* At most one run at a time (runner.py: "refuse to run concurrently with
\* another instance").
OneRun == \A p, q \in Procs : Holds(p) /\ Holds(q) => p = q

\* No run removes the directory, or the spool file, of another that still
\* needs it: sweep_orphans spares its own only.
SpoolKept ==
  \A p \in Procs :
    /\ pc[p] \in {"sweep", "unit", "put"} => p \in dirs
    /\ pc[p] = "put" => p \in files

\* A run's lock file is in place and names it as long as the run lasts,
\* whatever starts, is refused or is killed beside it.
LockNamesRun == \A p \in Procs : Holds(p) => locked /\ owner = pid[p]

\* Starts that keep apart: at most one process is between the look at the
\* lock file and the write to it, and from its decision on there is no run.
AcquireAlone ==
  \A p, q \in Procs : Acquiring(p) =>
    /\ Acquiring(q) => p = q
    /\ Holds(q) => /\ pc[p] \notin {"open", "fill"}
                   /\ pc[p] = "probe" => seen[p] = pid[q]

\* A process has a process id of its own while it is alive.
PidsDistinct ==
  /\ \A p \in Procs : Alive(p) => pid[p] \in Pids \ aliens
  /\ \A p, q \in Procs : Alive(p) /\ Alive(q) /\ pid[p] = pid[q] => p = q

\* A handle on the lock file is that of the process writing it, and a process
\* id is looked up only if one was read.
HandlesOfWriters ==
  \A p \in Procs : /\ p \in handles <=> pc[p] = "fill"
                   /\ pc[p] = "fill" => locked /\ owner = NoPid
                   /\ pc[p] = "probe" => seen[p] # NoPid

\* A run with a row returns the exit code of the results it holds, or 2; one
\* without returns 2; only a run has results, of the modules it was asked for.
OutcomeInv ==
  \A p \in Procs :
    /\ p \in recorded => pc[p] = "release" /\ code[p] \in {ExitCode(p), 2}
    /\ pc[p] = "release" /\ p \notin recorded => code[p] = 2
    /\ pc[p] = "put" => Order[unit[p]] \in only[p]
    /\ \A m \in Module : results[p][m] # "none" => pc[p] \in Run /\ m \in only[p]

IInv ==
  /\ TypeOK /\ LockNamesRun /\ AcquireAlone /\ PidsDistinct /\ HandlesOfWriters
  /\ SpoolKept

\* What a run returns is true of what it leaves behind: 0 and 1 are the codes
\* of runs with a row in the table of runs, without and with a failed unit.
\* (2 says no more than that something went wrong: perhaps only in close, or in
\* release, with the row in place.)
ExitTellsRecord ==
  [][\A p \in Procs :
       Alive(p) /\ ~Alive(p)' /\ faults' = faults /\ code'[p] # 2 =>
         /\ p \in recorded
         /\ code'[p] = 1 <=> \E m \in only[p] : results[p][m] = "failed"]_vars

\* The process id in the lock file is that of a program that is no run: of
\* another program, or of the very process that is looking at it.
Mistaken == owner \in aliens \union {pid[p] : p \in {q \in Procs : Acquiring(q)}}

\* However a run ended, and whatever it left of the lock file, runs go on:
\* unless there is no spool_dir, or again and again the process id left in the
\* lock file is in use by something that is not a run.
Recovers == (<>[]base /\ <>[]~Mistaken) => []<>(\E p \in Procs : Holds(p))
=============================================================================
