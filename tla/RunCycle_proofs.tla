--------------------------- MODULE RunCycle_proofs ---------------------------
(***************************************************************************)
(* Proofs about RunCycle, for every set of processes and process ids and   *)
(* any number of kills.  While starts keep apart, or the task is the only  *)
(* one to start any, and the lock file of a run can be read, the lock      *)
(* keeps runs apart and spool directories survive.  Without any of that, a *)
(* code that claims a recorded run is still true, and process ids are      *)
(* still told apart.                                                       *)
(***************************************************************************)
EXTENDS RunCycle, TLAPS

USE RunCycleAssumption
USE DEF vars, lockFile, process, progress, spool, Goto, Alive, Acquiring, Holds,
        Acquire, Run, InUse, Order, Module

\* Every step keeps the types.
LEMMA TypeStep ==
  ASSUME TypeOK, [Next]_vars
  PROVE  TypeOK'
<1>1. CASE UNCHANGED vars
  BY <1>1 DEF TypeOK, Status
<1>2. CASE CreateBase
  BY <1>2 DEF CreateBase, TypeOK, Status
<1>3. ASSUME NEW x \in Pids, AlienStart(x) \/ AlienExit(x) PROVE TypeOK'
  BY <1>3 DEF AlienStart, AlienExit, TypeOK, Status
<1>4. ASSUME NEW p \in Procs, Start(p) PROVE TypeOK'
  BY <1>4 DEF Start, TypeOK, Status
<1>5. ASSUME NEW p \in Procs, CheckExists(p) PROVE TypeOK'
  BY <1>5 DEF CheckExists, TypeOK, Status
<1>6. ASSUME NEW p \in Procs, ReadOwner(p) PROVE TypeOK'
  BY <1>6 DEF ReadOwner, TypeOK, Status
<1>7. ASSUME NEW p \in Procs, Steal(p) PROVE TypeOK'
  BY <1>7 DEF Steal, TypeOK, Status
<1>8. ASSUME NEW p \in Procs, Refuse(p) PROVE TypeOK'
  BY <1>8 DEF Refuse, Gone, TypeOK, Status
<1>9. ASSUME NEW p \in Procs, OpenLock(p) PROVE TypeOK'
  BY <1>9 DEF OpenLock, TypeOK, Status
<1>10. ASSUME NEW p \in Procs, NoSpoolDir(p) PROVE TypeOK'
  BY <1>10 DEF NoSpoolDir, Gone, TypeOK, Status
<1>11. ASSUME NEW p \in Procs, FillLock(p) PROVE TypeOK'
  BY <1>11 DEF FillLock, TypeOK, Status
<1>12. ASSUME NEW p \in Procs, OpenState(p) PROVE TypeOK'
  <2>1. pc' \in [Procs -> {"off"} \union Acquire \union Run]
    BY <1>12 DEF OpenState, Fatal, TypeOK, Status
  <2>2. code' \in [Procs -> 0..2]
    BY <1>12, <2>1 DEF OpenState, Fatal, TypeOK, Status
  <2> QED
    BY <1>12, <2>1, <2>2 DEF OpenState, Fatal, TypeOK, Status
<1>13. ASSUME NEW p \in Procs, SetupSpool(p) PROVE TypeOK'
  <2>1. pc' \in [Procs -> {"off"} \union Acquire \union Run]
    BY <1>13 DEF SetupSpool, Fatal, TypeOK, Status
  <2>2. code' \in [Procs -> 0..2]
    BY <1>13, <2>1 DEF SetupSpool, Fatal, TypeOK, Status
  <2>3. base' \in BOOLEAN /\ dirs' \subseteq Procs
    BY <1>13, <2>1 DEF SetupSpool, Fatal, TypeOK, Status
  <2> QED
    BY <1>13, <2>1, <2>2, <2>3 DEF SetupSpool, Fatal, TypeOK, Status
<1>14. ASSUME NEW p \in Procs, Sweep(p) PROVE TypeOK'
  <2>1. /\ pc' \in [Procs -> {"off"} \union Acquire \union Run]
        /\ pc'[p] # "put" /\ \A q \in Procs : q # p => pc'[q] = pc[q]
    BY <1>14 DEF Sweep, Fatal, TypeOK
  <2>2. code' \in [Procs -> 0..2]
    BY <1>14 DEF Sweep, Fatal, TypeOK
  <2>3. dirs' \subseteq Procs /\ files' \subseteq Procs
    BY <1>14 DEF Sweep, TypeOK
  <2> QED
    BY <1>14, <2>1, <2>2, <2>3 DEF Sweep, TypeOK, Status
<1>15. ASSUME NEW p \in Procs, SkipUnit(p) PROVE TypeOK'
  BY <1>15 DEF SkipUnit, NextUnit, ModuleOf, TypeOK, Status
<1>16. ASSUME NEW p \in Procs, EndUnit(p) PROVE TypeOK'
  BY <1>16 DEF EndUnit, NextUnit, Report, ModuleOf, TypeOK, Status
<1>17. ASSUME NEW p \in Procs, SpoolUnit(p) PROVE TypeOK'
  BY <1>17 DEF SpoolUnit, ModuleOf, TypeOK, Status
<1>18. ASSUME NEW p \in Procs, SpoolFails(p) PROVE TypeOK'
  BY <1>18 DEF SpoolFails, Fatal, ModuleOf, TypeOK, Status
<1>19. ASSUME NEW p \in Procs, PutUnit(p) PROVE TypeOK'
  <2>1. unit[p] \in 1..3 /\ ModuleOf(p) \in Module
    BY <1>19 DEF PutUnit, NextUnit, Report, ModuleOf, TypeOK, Status
  <2>2. unit' \in [Procs -> 1..4]
    BY <1>19, <2>1 DEF PutUnit, NextUnit, Report, ModuleOf, TypeOK, Status
  <2>3. results' \in [Procs -> [Module -> Status]]
    BY <1>19, <2>1 DEF PutUnit, NextUnit, Report, ModuleOf, TypeOK, Status
  <2>4. pc' \in [Procs -> {"off"} \union Acquire \union Run]
    BY <1>19, <2>1 DEF PutUnit, NextUnit, Report, ModuleOf, TypeOK, Status
  <2>5. \A q \in Procs : pc'[q] = "put" => unit'[q] # 4
    BY <1>19, <2>1 DEF PutUnit, NextUnit, Report, ModuleOf, TypeOK, Status
  <2> QED
    BY <1>19, <2>1, <2>2, <2>3, <2>4, <2>5 DEF PutUnit, TypeOK, Status
<1>20. ASSUME NEW p \in Procs, RecordRun(p) PROVE TypeOK'
  <2>1. pc' \in [Procs -> {"off"} \union Acquire \union Run]
    BY <1>20 DEF RecordRun, Fatal, ExitCode, TypeOK, Status
  <2>2. code' \in [Procs -> 0..2]
    BY <1>20, <2>1 DEF RecordRun, Fatal, ExitCode, TypeOK, Status
  <2> QED
    BY <1>20, <2>1, <2>2 DEF RecordRun, Fatal, ExitCode, TypeOK, Status
<1>21. ASSUME NEW p \in Procs, Release(p) PROVE TypeOK'
  <2>1. code' \in [Procs -> 0..2]
    BY <1>21 DEF Release, Gone, TypeOK, Status
  <2>2. owner' \in Pids \union {NoPid} /\ locked' \in BOOLEAN /\ handles' \subseteq Procs
    BY <1>21, <2>1 DEF Release, Gone, TypeOK, Status
  <2>3. results' \in [Procs -> [Module -> Status]]
    BY <1>21, <2>1 DEF Release, Gone, TypeOK, Status
  <2> QED
    BY <1>21, <2>1, <2>2, <2>3 DEF Release, Gone, TypeOK, Status
<1>22. ASSUME NEW p \in Procs, Crash(p) PROVE TypeOK'
  BY <1>22 DEF Crash, Gone, TypeOK, Status
<1> QED
  BY <1>1, <1>2, <1>3, <1>4, <1>5, <1>6, <1>7, <1>8, <1>9, <1>10, <1>11,
     <1>12, <1>13, <1>14, <1>15, <1>16, <1>17, <1>18, <1>19, <1>20, <1>21,
     <1>22 DEF Next, Agent

\* A process id is handed out only while nobody uses it.
LEMMA PidsStep ==
  ASSUME TypeOK, PidsDistinct, [Next]_vars
  PROVE  PidsDistinct'
<1>1. CASE UNCHANGED vars
  BY <1>1 DEF PidsDistinct, TypeOK
<1>2. CASE CreateBase
  BY <1>2 DEF CreateBase, PidsDistinct, TypeOK
<1>3. ASSUME NEW x \in Pids, AlienStart(x) \/ AlienExit(x) PROVE PidsDistinct'
  BY <1>3 DEF AlienStart, AlienExit, PidsDistinct, TypeOK
<1>4. ASSUME NEW p \in Procs, Start(p) PROVE PidsDistinct'
  BY <1>4 DEF Start, PidsDistinct, TypeOK
<1>5. ASSUME NEW p \in Procs, CheckExists(p) PROVE PidsDistinct'
  BY <1>5 DEF CheckExists, PidsDistinct, TypeOK
<1>6. ASSUME NEW p \in Procs, ReadOwner(p) PROVE PidsDistinct'
  BY <1>6 DEF ReadOwner, PidsDistinct, TypeOK
<1>7. ASSUME NEW p \in Procs, Steal(p) PROVE PidsDistinct'
  BY <1>7 DEF Steal, PidsDistinct, TypeOK
<1>8. ASSUME NEW p \in Procs, Refuse(p) PROVE PidsDistinct'
  BY <1>8 DEF Refuse, Gone, PidsDistinct, TypeOK
<1>9. ASSUME NEW p \in Procs, OpenLock(p) PROVE PidsDistinct'
  BY <1>9 DEF OpenLock, PidsDistinct, TypeOK
<1>10. ASSUME NEW p \in Procs, NoSpoolDir(p) PROVE PidsDistinct'
  BY <1>10 DEF NoSpoolDir, Gone, PidsDistinct, TypeOK
<1>11. ASSUME NEW p \in Procs, FillLock(p) PROVE PidsDistinct'
  BY <1>11 DEF FillLock, PidsDistinct, TypeOK
<1>12. ASSUME NEW p \in Procs, OpenState(p) PROVE PidsDistinct'
  <2>1. UNCHANGED <<pid, aliens>>
    BY <1>12 DEF OpenState, Fatal, PidsDistinct, TypeOK
  <2>2. \A q \in Procs : Alive(q)' <=> Alive(q)
    BY <1>12, <2>1 DEF OpenState, Fatal, PidsDistinct, TypeOK
  <2> QED
    BY <1>12, <2>1, <2>2 DEF OpenState, Fatal, PidsDistinct, TypeOK
<1>13. ASSUME NEW p \in Procs, SetupSpool(p) PROVE PidsDistinct'
  BY <1>13 DEF SetupSpool, Fatal, PidsDistinct, TypeOK
<1>14. ASSUME NEW p \in Procs, Sweep(p) PROVE PidsDistinct'
  BY <1>14 DEF Sweep, Fatal, PidsDistinct, TypeOK
<1>15. ASSUME NEW p \in Procs, SkipUnit(p) PROVE PidsDistinct'
  BY <1>15 DEF SkipUnit, NextUnit, ModuleOf, PidsDistinct, TypeOK
<1>16. ASSUME NEW p \in Procs, EndUnit(p) PROVE PidsDistinct'
  BY <1>16 DEF EndUnit, NextUnit, Report, ModuleOf, PidsDistinct, TypeOK
<1>17. ASSUME NEW p \in Procs, SpoolUnit(p) PROVE PidsDistinct'
  BY <1>17 DEF SpoolUnit, ModuleOf, PidsDistinct, TypeOK
<1>18. ASSUME NEW p \in Procs, SpoolFails(p) PROVE PidsDistinct'
  BY <1>18 DEF SpoolFails, Fatal, ModuleOf, PidsDistinct, TypeOK
<1>19. ASSUME NEW p \in Procs, PutUnit(p) PROVE PidsDistinct'
  BY <1>19 DEF PutUnit, NextUnit, Report, ModuleOf, PidsDistinct, TypeOK
<1>20. ASSUME NEW p \in Procs, RecordRun(p) PROVE PidsDistinct'
  BY <1>20 DEF RecordRun, Fatal, ExitCode, PidsDistinct, TypeOK
<1>21. ASSUME NEW p \in Procs, Release(p) PROVE PidsDistinct'
  BY <1>21 DEF Release, Gone, PidsDistinct, TypeOK
<1>22. ASSUME NEW p \in Procs, Crash(p) PROVE PidsDistinct'
  BY <1>22 DEF Crash, Gone, PidsDistinct, TypeOK
<1> QED
  BY <1>1, <1>2, <1>3, <1>4, <1>5, <1>6, <1>7, <1>8, <1>9, <1>10, <1>11,
     <1>12, <1>13, <1>14, <1>15, <1>16, <1>17, <1>18, <1>19, <1>20, <1>21,
     <1>22 DEF Next, Agent

\* Two runs would both be named by the one lock file, and process ids are
\* distinct.
LEMMA OneRunFromLock == LockNamesRun /\ PidsDistinct => OneRun
  BY DEF LockNamesRun, PidsDistinct, OneRun

\* Nobody removes or writes the lock file beside the one process writing it.
LEMMA HandlesStep ==
  ASSUME TypeOK, PidsDistinct, LockNamesRun, AcquireAlone, HandlesOfWriters, StartsOrderly, [Next]_vars
  PROVE  HandlesOfWriters'
<1>1. CASE UNCHANGED vars
  BY <1>1 DEF PidsDistinct, LockNamesRun, HandlesOfWriters, AcquireAlone, TypeOK
<1>2. CASE CreateBase
  BY <1>2 DEF CreateBase, PidsDistinct, LockNamesRun, HandlesOfWriters, AcquireAlone, TypeOK
<1>3. ASSUME NEW x \in Pids, AlienStart(x) \/ AlienExit(x) PROVE HandlesOfWriters'
  BY <1>3 DEF AlienStart, AlienExit, PidsDistinct, LockNamesRun, HandlesOfWriters, AcquireAlone, TypeOK
<1>4. ASSUME NEW p \in Procs, Start(p) PROVE HandlesOfWriters'
  BY <1>4 DEF StartsOrderly, Start, PidsDistinct, LockNamesRun, HandlesOfWriters, AcquireAlone, TypeOK
<1>5. ASSUME NEW p \in Procs, CheckExists(p) PROVE HandlesOfWriters'
  BY <1>5 DEF CheckExists, PidsDistinct, LockNamesRun, HandlesOfWriters, AcquireAlone, TypeOK
<1>6. ASSUME NEW p \in Procs, ReadOwner(p) PROVE HandlesOfWriters'
  BY <1>6 DEF StartsOrderly, ReadOwner, PidsDistinct, LockNamesRun, HandlesOfWriters, AcquireAlone, TypeOK
<1>7. ASSUME NEW p \in Procs, Steal(p) PROVE HandlesOfWriters'
  BY <1>7 DEF Steal, PidsDistinct, LockNamesRun, HandlesOfWriters, AcquireAlone, TypeOK
<1>8. ASSUME NEW p \in Procs, Refuse(p) PROVE HandlesOfWriters'
  BY <1>8 DEF Refuse, Gone, PidsDistinct, LockNamesRun, HandlesOfWriters, AcquireAlone, TypeOK
<1>9. ASSUME NEW p \in Procs, OpenLock(p) PROVE HandlesOfWriters'
  BY <1>9 DEF OpenLock, PidsDistinct, LockNamesRun, HandlesOfWriters, AcquireAlone, TypeOK
<1>10. ASSUME NEW p \in Procs, NoSpoolDir(p) PROVE HandlesOfWriters'
  BY <1>10 DEF NoSpoolDir, Gone, PidsDistinct, LockNamesRun, HandlesOfWriters, AcquireAlone, TypeOK
<1>11. ASSUME NEW p \in Procs, FillLock(p) PROVE HandlesOfWriters'
  BY <1>11 DEF FillLock, PidsDistinct, LockNamesRun, HandlesOfWriters, AcquireAlone, TypeOK
<1>12. ASSUME NEW p \in Procs, OpenState(p) PROVE HandlesOfWriters'
  BY <1>12 DEF OpenState, Fatal, PidsDistinct, LockNamesRun, HandlesOfWriters, AcquireAlone, TypeOK
<1>13. ASSUME NEW p \in Procs, SetupSpool(p) PROVE HandlesOfWriters'
  BY <1>13 DEF SetupSpool, Fatal, PidsDistinct, LockNamesRun, HandlesOfWriters, AcquireAlone, TypeOK
<1>14. ASSUME NEW p \in Procs, Sweep(p) PROVE HandlesOfWriters'
  BY <1>14 DEF Sweep, Fatal, PidsDistinct, LockNamesRun, HandlesOfWriters, AcquireAlone, TypeOK
<1>15. ASSUME NEW p \in Procs, SkipUnit(p) PROVE HandlesOfWriters'
  BY <1>15 DEF SkipUnit, NextUnit, ModuleOf, PidsDistinct, LockNamesRun, HandlesOfWriters, AcquireAlone, TypeOK
<1>16. ASSUME NEW p \in Procs, EndUnit(p) PROVE HandlesOfWriters'
  BY <1>16 DEF EndUnit, NextUnit, Report, ModuleOf, PidsDistinct, LockNamesRun, HandlesOfWriters, AcquireAlone, TypeOK
<1>17. ASSUME NEW p \in Procs, SpoolUnit(p) PROVE HandlesOfWriters'
  BY <1>17 DEF SpoolUnit, ModuleOf, PidsDistinct, LockNamesRun, HandlesOfWriters, AcquireAlone, TypeOK
<1>18. ASSUME NEW p \in Procs, SpoolFails(p) PROVE HandlesOfWriters'
  BY <1>18 DEF SpoolFails, Fatal, ModuleOf, PidsDistinct, LockNamesRun, HandlesOfWriters, AcquireAlone, TypeOK
<1>19. ASSUME NEW p \in Procs, PutUnit(p) PROVE HandlesOfWriters'
  BY <1>19 DEF PutUnit, NextUnit, Report, ModuleOf, PidsDistinct, LockNamesRun, HandlesOfWriters, AcquireAlone, TypeOK
<1>20. ASSUME NEW p \in Procs, RecordRun(p) PROVE HandlesOfWriters'
  BY <1>20 DEF RecordRun, Fatal, ExitCode, PidsDistinct, LockNamesRun, HandlesOfWriters, AcquireAlone, TypeOK
<1>21. ASSUME NEW p \in Procs, Release(p) PROVE HandlesOfWriters'
  BY <1>21 DEF Release, Gone, PidsDistinct, LockNamesRun, HandlesOfWriters, AcquireAlone, TypeOK
<1>22. ASSUME NEW p \in Procs, Crash(p) PROVE HandlesOfWriters'
  BY <1>22 DEF Crash, Gone, PidsDistinct, LockNamesRun, HandlesOfWriters, AcquireAlone, TypeOK
<1> QED
  BY <1>1, <1>2, <1>3, <1>4, <1>5, <1>6, <1>7, <1>8, <1>9, <1>10, <1>11,
     <1>12, <1>13, <1>14, <1>15, <1>16, <1>17, <1>18, <1>19, <1>20, <1>21,
     <1>22 DEF Next, Agent

\* A process that has decided to write the lock file has no run beside it: the
\* process id it looked up was that of any run there was.
LEMMA AloneStep ==
  ASSUME TypeOK, PidsDistinct, LockNamesRun, AcquireAlone, HandlesOfWriters, StartsOrderly, [Next]_vars
  PROVE  AcquireAlone'
<1>1. CASE UNCHANGED vars
  BY <1>1 DEF PidsDistinct, LockNamesRun, HandlesOfWriters, AcquireAlone, TypeOK
<1>2. CASE CreateBase
  BY <1>2 DEF CreateBase, PidsDistinct, LockNamesRun, HandlesOfWriters, AcquireAlone, TypeOK
<1>3. ASSUME NEW x \in Pids, AlienStart(x) \/ AlienExit(x) PROVE AcquireAlone'
  BY <1>3 DEF AlienStart, AlienExit, PidsDistinct, LockNamesRun, HandlesOfWriters, AcquireAlone, TypeOK
<1>4. ASSUME NEW p \in Procs, Start(p) PROVE AcquireAlone'
  BY <1>4 DEF StartsOrderly, Start, PidsDistinct, LockNamesRun, HandlesOfWriters, AcquireAlone, TypeOK
<1>5. ASSUME NEW p \in Procs, CheckExists(p) PROVE AcquireAlone'
  BY <1>5 DEF CheckExists, PidsDistinct, LockNamesRun, HandlesOfWriters, AcquireAlone, TypeOK
<1>6. ASSUME NEW p \in Procs, ReadOwner(p) PROVE AcquireAlone'
  BY <1>6 DEF StartsOrderly, ReadOwner, PidsDistinct, LockNamesRun, HandlesOfWriters, AcquireAlone, TypeOK
<1>7. ASSUME NEW p \in Procs, Steal(p) PROVE AcquireAlone'
  BY <1>7 DEF Steal, PidsDistinct, LockNamesRun, HandlesOfWriters, AcquireAlone, TypeOK
<1>8. ASSUME NEW p \in Procs, Refuse(p) PROVE AcquireAlone'
  BY <1>8 DEF Refuse, Gone, PidsDistinct, LockNamesRun, HandlesOfWriters, AcquireAlone, TypeOK
<1>9. ASSUME NEW p \in Procs, OpenLock(p) PROVE AcquireAlone'
  BY <1>9 DEF OpenLock, PidsDistinct, LockNamesRun, HandlesOfWriters, AcquireAlone, TypeOK
<1>10. ASSUME NEW p \in Procs, NoSpoolDir(p) PROVE AcquireAlone'
  BY <1>10 DEF NoSpoolDir, Gone, PidsDistinct, LockNamesRun, HandlesOfWriters, AcquireAlone, TypeOK
<1>11. ASSUME NEW p \in Procs, FillLock(p) PROVE AcquireAlone'
  BY <1>11 DEF FillLock, PidsDistinct, LockNamesRun, HandlesOfWriters, AcquireAlone, TypeOK
<1>12. ASSUME NEW p \in Procs, OpenState(p) PROVE AcquireAlone'
  BY <1>12 DEF OpenState, Fatal, PidsDistinct, LockNamesRun, HandlesOfWriters, AcquireAlone, TypeOK
<1>13. ASSUME NEW p \in Procs, SetupSpool(p) PROVE AcquireAlone'
  BY <1>13 DEF SetupSpool, Fatal, PidsDistinct, LockNamesRun, HandlesOfWriters, AcquireAlone, TypeOK
<1>14. ASSUME NEW p \in Procs, Sweep(p) PROVE AcquireAlone'
  BY <1>14 DEF Sweep, Fatal, PidsDistinct, LockNamesRun, HandlesOfWriters, AcquireAlone, TypeOK
<1>15. ASSUME NEW p \in Procs, SkipUnit(p) PROVE AcquireAlone'
  BY <1>15 DEF SkipUnit, NextUnit, ModuleOf, PidsDistinct, LockNamesRun, HandlesOfWriters, AcquireAlone, TypeOK
<1>16. ASSUME NEW p \in Procs, EndUnit(p) PROVE AcquireAlone'
  BY <1>16 DEF EndUnit, NextUnit, Report, ModuleOf, PidsDistinct, LockNamesRun, HandlesOfWriters, AcquireAlone, TypeOK
<1>17. ASSUME NEW p \in Procs, SpoolUnit(p) PROVE AcquireAlone'
  BY <1>17 DEF SpoolUnit, ModuleOf, PidsDistinct, LockNamesRun, HandlesOfWriters, AcquireAlone, TypeOK
<1>18. ASSUME NEW p \in Procs, SpoolFails(p) PROVE AcquireAlone'
  BY <1>18 DEF SpoolFails, Fatal, ModuleOf, PidsDistinct, LockNamesRun, HandlesOfWriters, AcquireAlone, TypeOK
<1>19. ASSUME NEW p \in Procs, PutUnit(p) PROVE AcquireAlone'
  BY <1>19 DEF PutUnit, NextUnit, Report, ModuleOf, PidsDistinct, LockNamesRun, HandlesOfWriters, AcquireAlone, TypeOK
<1>20. ASSUME NEW p \in Procs, RecordRun(p) PROVE AcquireAlone'
  BY <1>20 DEF RecordRun, Fatal, ExitCode, PidsDistinct, LockNamesRun, HandlesOfWriters, AcquireAlone, TypeOK
<1>21. ASSUME NEW p \in Procs, Release(p) PROVE AcquireAlone'
  BY <1>21 DEF Release, Gone, PidsDistinct, LockNamesRun, HandlesOfWriters, AcquireAlone, TypeOK
<1>22. ASSUME NEW p \in Procs, Crash(p) PROVE AcquireAlone'
  BY <1>22 DEF Crash, Gone, PidsDistinct, LockNamesRun, HandlesOfWriters, AcquireAlone, TypeOK
<1> QED
  BY <1>1, <1>2, <1>3, <1>4, <1>5, <1>6, <1>7, <1>8, <1>9, <1>10, <1>11,
     <1>12, <1>13, <1>14, <1>15, <1>16, <1>17, <1>18, <1>19, <1>20, <1>21,
     <1>22 DEF Next, Agent

\* The lock file changes hands only when there is no run.
LEMMA LockStep ==
  ASSUME TypeOK, PidsDistinct, LockNamesRun, AcquireAlone, HandlesOfWriters, StartsOrderly, [Next]_vars
  PROVE  LockNamesRun'
<1>1. CASE UNCHANGED vars
  BY <1>1 DEF PidsDistinct, LockNamesRun, HandlesOfWriters, AcquireAlone, TypeOK
<1>2. CASE CreateBase
  BY <1>2 DEF CreateBase, PidsDistinct, LockNamesRun, HandlesOfWriters, AcquireAlone, TypeOK
<1>3. ASSUME NEW x \in Pids, AlienStart(x) \/ AlienExit(x) PROVE LockNamesRun'
  BY <1>3 DEF AlienStart, AlienExit, PidsDistinct, LockNamesRun, HandlesOfWriters, AcquireAlone, TypeOK
<1>4. ASSUME NEW p \in Procs, Start(p) PROVE LockNamesRun'
  BY <1>4 DEF StartsOrderly, Start, PidsDistinct, LockNamesRun, HandlesOfWriters, AcquireAlone, TypeOK
<1>5. ASSUME NEW p \in Procs, CheckExists(p) PROVE LockNamesRun'
  BY <1>5 DEF CheckExists, PidsDistinct, LockNamesRun, HandlesOfWriters, AcquireAlone, TypeOK
<1>6. ASSUME NEW p \in Procs, ReadOwner(p) PROVE LockNamesRun'
  BY <1>6 DEF StartsOrderly, ReadOwner, PidsDistinct, LockNamesRun, HandlesOfWriters, AcquireAlone, TypeOK
<1>7. ASSUME NEW p \in Procs, Steal(p) PROVE LockNamesRun'
  BY <1>7 DEF Steal, PidsDistinct, LockNamesRun, HandlesOfWriters, AcquireAlone, TypeOK
<1>8. ASSUME NEW p \in Procs, Refuse(p) PROVE LockNamesRun'
  BY <1>8 DEF Refuse, Gone, PidsDistinct, LockNamesRun, HandlesOfWriters, AcquireAlone, TypeOK
<1>9. ASSUME NEW p \in Procs, OpenLock(p) PROVE LockNamesRun'
  BY <1>9 DEF OpenLock, PidsDistinct, LockNamesRun, HandlesOfWriters, AcquireAlone, TypeOK
<1>10. ASSUME NEW p \in Procs, NoSpoolDir(p) PROVE LockNamesRun'
  BY <1>10 DEF NoSpoolDir, Gone, PidsDistinct, LockNamesRun, HandlesOfWriters, AcquireAlone, TypeOK
<1>11. ASSUME NEW p \in Procs, FillLock(p) PROVE LockNamesRun'
  BY <1>11 DEF FillLock, PidsDistinct, LockNamesRun, HandlesOfWriters, AcquireAlone, TypeOK
<1>12. ASSUME NEW p \in Procs, OpenState(p) PROVE LockNamesRun'
  BY <1>12 DEF OpenState, Fatal, PidsDistinct, LockNamesRun, HandlesOfWriters, AcquireAlone, TypeOK
<1>13. ASSUME NEW p \in Procs, SetupSpool(p) PROVE LockNamesRun'
  BY <1>13 DEF SetupSpool, Fatal, PidsDistinct, LockNamesRun, HandlesOfWriters, AcquireAlone, TypeOK
<1>14. ASSUME NEW p \in Procs, Sweep(p) PROVE LockNamesRun'
  BY <1>14 DEF Sweep, Fatal, PidsDistinct, LockNamesRun, HandlesOfWriters, AcquireAlone, TypeOK
<1>15. ASSUME NEW p \in Procs, SkipUnit(p) PROVE LockNamesRun'
  BY <1>15 DEF SkipUnit, NextUnit, ModuleOf, PidsDistinct, LockNamesRun, HandlesOfWriters, AcquireAlone, TypeOK
<1>16. ASSUME NEW p \in Procs, EndUnit(p) PROVE LockNamesRun'
  BY <1>16 DEF EndUnit, NextUnit, Report, ModuleOf, PidsDistinct, LockNamesRun, HandlesOfWriters, AcquireAlone, TypeOK
<1>17. ASSUME NEW p \in Procs, SpoolUnit(p) PROVE LockNamesRun'
  BY <1>17 DEF SpoolUnit, ModuleOf, PidsDistinct, LockNamesRun, HandlesOfWriters, AcquireAlone, TypeOK
<1>18. ASSUME NEW p \in Procs, SpoolFails(p) PROVE LockNamesRun'
  BY <1>18 DEF SpoolFails, Fatal, ModuleOf, PidsDistinct, LockNamesRun, HandlesOfWriters, AcquireAlone, TypeOK
<1>19. ASSUME NEW p \in Procs, PutUnit(p) PROVE LockNamesRun'
  BY <1>19 DEF PutUnit, NextUnit, Report, ModuleOf, PidsDistinct, LockNamesRun, HandlesOfWriters, AcquireAlone, TypeOK
<1>20. ASSUME NEW p \in Procs, RecordRun(p) PROVE LockNamesRun'
  BY <1>20 DEF RecordRun, Fatal, ExitCode, PidsDistinct, LockNamesRun, HandlesOfWriters, AcquireAlone, TypeOK
<1>21. ASSUME NEW p \in Procs, Release(p) PROVE LockNamesRun'
  BY <1>21 DEF Release, Gone, PidsDistinct, LockNamesRun, HandlesOfWriters, AcquireAlone, TypeOK
<1>22. ASSUME NEW p \in Procs, Crash(p) PROVE LockNamesRun'
  BY <1>22 DEF Crash, Gone, PidsDistinct, LockNamesRun, HandlesOfWriters, AcquireAlone, TypeOK
<1> QED
  BY <1>1, <1>2, <1>3, <1>4, <1>5, <1>6, <1>7, <1>8, <1>9, <1>10, <1>11,
     <1>12, <1>13, <1>14, <1>15, <1>16, <1>17, <1>18, <1>19, <1>20, <1>21,
     <1>22 DEF Next, Agent

\* A sweep meets no other run's directory.
LEMMA SpoolStep ==
  ASSUME TypeOK, SpoolKept, OneRun, [Next]_vars
  PROVE  SpoolKept'
<1>1. CASE UNCHANGED vars
  BY <1>1 DEF SpoolKept, OneRun, TypeOK
<1>2. CASE CreateBase
  BY <1>2 DEF CreateBase, SpoolKept, OneRun, TypeOK
<1>3. ASSUME NEW x \in Pids, AlienStart(x) \/ AlienExit(x) PROVE SpoolKept'
  BY <1>3 DEF AlienStart, AlienExit, SpoolKept, OneRun, TypeOK
<1>4. ASSUME NEW p \in Procs, Start(p) PROVE SpoolKept'
  BY <1>4 DEF Start, SpoolKept, OneRun, TypeOK
<1>5. ASSUME NEW p \in Procs, CheckExists(p) PROVE SpoolKept'
  BY <1>5 DEF CheckExists, SpoolKept, OneRun, TypeOK
<1>6. ASSUME NEW p \in Procs, ReadOwner(p) PROVE SpoolKept'
  BY <1>6 DEF ReadOwner, SpoolKept, OneRun, TypeOK
<1>7. ASSUME NEW p \in Procs, Steal(p) PROVE SpoolKept'
  BY <1>7 DEF Steal, SpoolKept, OneRun, TypeOK
<1>8. ASSUME NEW p \in Procs, Refuse(p) PROVE SpoolKept'
  BY <1>8 DEF Refuse, Gone, SpoolKept, OneRun, TypeOK
<1>9. ASSUME NEW p \in Procs, OpenLock(p) PROVE SpoolKept'
  BY <1>9 DEF OpenLock, SpoolKept, OneRun, TypeOK
<1>10. ASSUME NEW p \in Procs, NoSpoolDir(p) PROVE SpoolKept'
  BY <1>10 DEF NoSpoolDir, Gone, SpoolKept, OneRun, TypeOK
<1>11. ASSUME NEW p \in Procs, FillLock(p) PROVE SpoolKept'
  BY <1>11 DEF FillLock, SpoolKept, OneRun, TypeOK
<1>12. ASSUME NEW p \in Procs, OpenState(p) PROVE SpoolKept'
  BY <1>12 DEF OpenState, Fatal, SpoolKept, OneRun, TypeOK
<1>13. ASSUME NEW p \in Procs, SetupSpool(p) PROVE SpoolKept'
  BY <1>13 DEF SetupSpool, Fatal, SpoolKept, OneRun, TypeOK
<1>14. ASSUME NEW p \in Procs, Sweep(p) PROVE SpoolKept'
  BY <1>14 DEF Sweep, Fatal, SpoolKept, OneRun, TypeOK
<1>15. ASSUME NEW p \in Procs, SkipUnit(p) PROVE SpoolKept'
  BY <1>15 DEF SkipUnit, NextUnit, ModuleOf, SpoolKept, OneRun, TypeOK
<1>16. ASSUME NEW p \in Procs, EndUnit(p) PROVE SpoolKept'
  BY <1>16 DEF EndUnit, NextUnit, Report, ModuleOf, SpoolKept, OneRun, TypeOK
<1>17. ASSUME NEW p \in Procs, SpoolUnit(p) PROVE SpoolKept'
  BY <1>17 DEF SpoolUnit, ModuleOf, SpoolKept, OneRun, TypeOK
<1>18. ASSUME NEW p \in Procs, SpoolFails(p) PROVE SpoolKept'
  BY <1>18 DEF SpoolFails, Fatal, ModuleOf, SpoolKept, OneRun, TypeOK
<1>19. ASSUME NEW p \in Procs, PutUnit(p) PROVE SpoolKept'
  BY <1>19 DEF PutUnit, NextUnit, Report, ModuleOf, SpoolKept, OneRun, TypeOK
<1>20. ASSUME NEW p \in Procs, RecordRun(p) PROVE SpoolKept'
  BY <1>20 DEF RecordRun, Fatal, ExitCode, SpoolKept, OneRun, TypeOK
<1>21. ASSUME NEW p \in Procs, Release(p) PROVE SpoolKept'
  BY <1>21 DEF Release, Gone, SpoolKept, OneRun, TypeOK
<1>22. ASSUME NEW p \in Procs, Crash(p) PROVE SpoolKept'
  BY <1>22 DEF Crash, Gone, SpoolKept, OneRun, TypeOK
<1> QED
  BY <1>1, <1>2, <1>3, <1>4, <1>5, <1>6, <1>7, <1>8, <1>9, <1>10, <1>11,
     <1>12, <1>13, <1>14, <1>15, <1>16, <1>17, <1>18, <1>19, <1>20, <1>21,
     <1>22 DEF Next, Agent

\* The code a run will return is settled with its row in the table of runs.
LEMMA OutcomeStep ==
  ASSUME TypeOK, OutcomeInv, [Next]_vars
  PROVE  OutcomeInv'
<1>1. CASE UNCHANGED vars
  BY <1>1 DEF OutcomeInv, TypeOK, ExitCode
<1>2. CASE CreateBase
  BY <1>2 DEF CreateBase, OutcomeInv, TypeOK, ExitCode
<1>3. ASSUME NEW x \in Pids, AlienStart(x) \/ AlienExit(x) PROVE OutcomeInv'
  BY <1>3 DEF AlienStart, AlienExit, OutcomeInv, TypeOK, ExitCode
<1>4. ASSUME NEW p \in Procs, Start(p) PROVE OutcomeInv'
  BY <1>4 DEF Start, OutcomeInv, TypeOK, ExitCode
<1>5. ASSUME NEW p \in Procs, CheckExists(p) PROVE OutcomeInv'
  BY <1>5 DEF CheckExists, OutcomeInv, TypeOK, ExitCode
<1>6. ASSUME NEW p \in Procs, ReadOwner(p) PROVE OutcomeInv'
  BY <1>6 DEF ReadOwner, OutcomeInv, TypeOK, ExitCode
<1>7. ASSUME NEW p \in Procs, Steal(p) PROVE OutcomeInv'
  BY <1>7 DEF Steal, OutcomeInv, TypeOK, ExitCode
<1>8. ASSUME NEW p \in Procs, Refuse(p) PROVE OutcomeInv'
  BY <1>8 DEF Refuse, Gone, OutcomeInv, TypeOK, ExitCode
<1>9. ASSUME NEW p \in Procs, OpenLock(p) PROVE OutcomeInv'
  BY <1>9 DEF OpenLock, OutcomeInv, TypeOK, ExitCode
<1>10. ASSUME NEW p \in Procs, NoSpoolDir(p) PROVE OutcomeInv'
  BY <1>10 DEF NoSpoolDir, Gone, OutcomeInv, TypeOK, ExitCode
<1>11. ASSUME NEW p \in Procs, FillLock(p) PROVE OutcomeInv'
  BY <1>11 DEF FillLock, OutcomeInv, TypeOK, ExitCode
<1>12. ASSUME NEW p \in Procs, OpenState(p) PROVE OutcomeInv'
  BY <1>12 DEF OpenState, Fatal, OutcomeInv, TypeOK, ExitCode
<1>13. ASSUME NEW p \in Procs, SetupSpool(p) PROVE OutcomeInv'
  BY <1>13 DEF SetupSpool, Fatal, OutcomeInv, TypeOK, ExitCode
<1>14. ASSUME NEW p \in Procs, Sweep(p) PROVE OutcomeInv'
  BY <1>14 DEF Sweep, Fatal, OutcomeInv, TypeOK, ExitCode
<1>15. ASSUME NEW p \in Procs, SkipUnit(p) PROVE OutcomeInv'
  BY <1>15 DEF SkipUnit, NextUnit, ModuleOf, OutcomeInv, TypeOK, ExitCode
<1>16. ASSUME NEW p \in Procs, EndUnit(p) PROVE OutcomeInv'
  BY <1>16 DEF EndUnit, NextUnit, Report, ModuleOf, OutcomeInv, TypeOK, ExitCode
<1>17. ASSUME NEW p \in Procs, SpoolUnit(p) PROVE OutcomeInv'
  BY <1>17 DEF SpoolUnit, ModuleOf, OutcomeInv, TypeOK, ExitCode
<1>18. ASSUME NEW p \in Procs, SpoolFails(p) PROVE OutcomeInv'
  BY <1>18 DEF SpoolFails, Fatal, ModuleOf, OutcomeInv, TypeOK, ExitCode
<1>19. ASSUME NEW p \in Procs, PutUnit(p) PROVE OutcomeInv'
  BY <1>19 DEF PutUnit, NextUnit, Report, ModuleOf, OutcomeInv, TypeOK, ExitCode
<1>20. ASSUME NEW p \in Procs, RecordRun(p) PROVE OutcomeInv'
  BY <1>20 DEF RecordRun, Fatal, ExitCode, OutcomeInv, TypeOK, ExitCode
<1>21. ASSUME NEW p \in Procs, Release(p) PROVE OutcomeInv'
  BY <1>21 DEF Release, Gone, OutcomeInv, TypeOK, ExitCode
<1>22. ASSUME NEW p \in Procs, Crash(p) PROVE OutcomeInv'
  BY <1>22 DEF Crash, Gone, OutcomeInv, TypeOK, ExitCode
<1> QED
  BY <1>1, <1>2, <1>3, <1>4, <1>5, <1>6, <1>7, <1>8, <1>9, <1>10, <1>11,
     <1>12, <1>13, <1>14, <1>15, <1>16, <1>17, <1>18, <1>19, <1>20, <1>21,
     <1>22 DEF Next, Agent

LEMMA InitIInv == Init => IInv /\ OutcomeInv
<1> SUFFICES ASSUME Init PROVE IInv /\ OutcomeInv
  OBVIOUS
<1>1. TypeOK
  <2>1. results \in [Procs -> [Module -> Status]]
    BY DEF Init, Status
  <2>2. pc \in [Procs -> {"off"} \union Acquire \union Run]
    BY DEF Init
  <2>3. unit \in [Procs -> 1..4] /\ code \in [Procs -> 0..2]
    BY DEF Init
  <2>4. /\ pid \in [Procs -> Pids \union {NoPid}]
        /\ seen \in [Procs -> Pids \union {NoPid}]
        /\ only \in [Procs -> SUBSET Module]
    BY DEF Init
  <2> QED
    BY <2>1, <2>2, <2>3, <2>4 DEF Init, TypeOK
<1>2. /\ LockNamesRun /\ AcquireAlone /\ PidsDistinct /\ HandlesOfWriters
      /\ SpoolKept /\ OutcomeInv
  BY DEF Init, LockNamesRun, AcquireAlone, PidsDistinct, HandlesOfWriters,
         SpoolKept, OutcomeInv
<1> QED
  BY <1>1, <1>2 DEF IInv

LEMMA NextIInv == ASSUME StartsOrderly PROVE IInv /\ [Next]_vars => IInv'
  BY TypeStep, PidsStep, HandlesStep, AloneStep, LockStep, SpoolStep,
     OneRunFromLock DEF IInv

\* Starts that keep apart leave the lock, the process ids and the spool
\* directories in order (locking.py, spool.py), for any number of processes.
THEOREM InvariantHolds == ASSUME StartsOrderly PROVE Spec => []IInv
<1>1. Init => IInv
  BY InitIInv
<1>2. IInv /\ [Next]_vars => IInv'
  BY NextIInv
<1> QED
  BY <1>1, <1>2, PTL DEF Spec

\* runner.py refuses to run concurrently: at most one run at a time, through
\* kills, stale locks and reused process ids.
THEOREM AtMostOneRun == ASSUME StartsOrderly PROVE Spec => []OneRun
<1>1. IInv => OneRun
  BY OneRunFromLock DEF IInv
<1> QED
  BY <1>1, InvariantHolds, PTL

\* The sweep of one run never takes the directory or the file of another.
THEOREM SpoolSurvives == ASSUME StartsOrderly PROVE Spec => []SpoolKept
<1>1. IInv => SpoolKept
  BY DEF IInv
<1> QED
  BY <1>1, InvariantHolds, PTL

\* A process that ends otherwise than by a kill was refused, or had no
\* directory for its lock file, or has come to the end of release.
LEMMA EndsByReturning ==
  ASSUME TypeOK, Next, NEW p \in Procs, Alive(p), ~Alive(p)', faults' = faults
  PROVE  Refuse(p) \/ NoSpoolDir(p) \/ Release(p)
<1>1. ASSUME NEW q \in Procs, Start(q) PROVE FALSE
  BY <1>1 DEF Start, TypeOK
<1>2. ASSUME NEW q \in Procs, Crash(q) PROVE FALSE
  BY <1>2 DEF Crash, TypeOK
<1>3. ASSUME NEW q \in Procs, Agent(q) PROVE q = p
  BY <1>3 DEF Agent, CheckExists, ReadOwner, Steal, Refuse, OpenLock,
     NoSpoolDir, FillLock, OpenState, SetupSpool, Sweep, SkipUnit, EndUnit,
     SpoolUnit, SpoolFails, PutUnit, RecordRun, Release, Gone, Fatal, NextUnit,
     TypeOK
<1>4. ASSUME Agent(p) PROVE Refuse(p) \/ NoSpoolDir(p) \/ Release(p)
  BY <1>4 DEF Agent, CheckExists, ReadOwner, Steal, OpenLock, FillLock,
     OpenState, SetupSpool, Sweep, SkipUnit, EndUnit, SpoolUnit, SpoolFails,
     PutUnit, RecordRun, Fatal, NextUnit, TypeOK
<1>5. ~CreateBase /\ \A x \in Pids : ~AlienStart(x) /\ ~AlienExit(x)
  BY DEF CreateBase, AlienStart, AlienExit
<1> QED
  BY <1>1, <1>2, <1>3, <1>4, <1>5 DEF Next

-----------------------------------------------------------------------------
\* What holds however starts fall together.
AnyStartInv == TypeOK /\ PidsDistinct /\ OutcomeInv

\* The types, the process ids and the outcomes need no lock.
THEOREM AnyStart == Spec => []AnyStartInv
<1>1. Init => AnyStartInv
  BY InitIInv DEF IInv, AnyStartInv
<1>2. AnyStartInv /\ [Next]_vars => AnyStartInv'
  BY TypeStep, PidsStep, OutcomeStep DEF AnyStartInv
<1> QED
  BY <1>1, <1>2, PTL DEF Spec

\* 0 or 1 is never returned without the row and the results it stands for
\* (RunSummary.exit_code), even by two runs that have slipped past the lock
\* together and spoil each other's release and each other's spool.
THEOREM ExitCodeTells == Spec => ExitTellsRecord
<1> DEFINE Told(p) ==
      /\ p \in recorded
      /\ code'[p] = 1 <=> \E m \in only[p] : results[p][m] = "failed"
<1>1. AnyStartInv /\ [Next]_vars =>
        [\A p \in Procs :
           Alive(p) /\ ~Alive(p)' /\ faults' = faults /\ code'[p] # 2 => Told(p)]_vars
  <2> SUFFICES ASSUME AnyStartInv, Next, NEW p \in Procs,
                      Alive(p), ~Alive(p)', faults' = faults, code'[p] # 2
               PROVE  Told(p)
    OBVIOUS
  <2>1. TypeOK
    BY DEF AnyStartInv
  <2>2. Release(p)
    BY <2>1, EndsByReturning DEF Refuse, NoSpoolDir, TypeOK
  <2>3. pc[p] = "release" /\ code'[p] = code[p]
    BY <2>1, <2>2 DEF Release, TypeOK
  <2>4. p \in recorded /\ code[p] = ExitCode(p)
    BY <2>3 DEF AnyStartInv, OutcomeInv, TypeOK
  <2>5. (\E m \in Module : results[p][m] = "failed")
        <=> \E m \in only[p] : results[p][m] = "failed"
    BY <2>1 DEF AnyStartInv, OutcomeInv, TypeOK
  <2> QED
    BY <2>3, <2>4, <2>5 DEF ExitCode
<1> QED
  BY <1>1, AnyStart, PTL DEF Spec, ExitTellsRecord
==============================================================================
