--------------------------- MODULE Delivery_proofs ---------------------------
(***************************************************************************)
(* Extract implements Delivery: every step of the agent and of its source  *)
(* is a step of the abstract at-least-once pipeline, or changes nothing    *)
(* that the pipeline can see.                                              *)
(***************************************************************************)
EXTENDS Extract_proofs

\* What the pipeline sees of the agent's state.
Inflight == IF pc = "idle" THEN {} ELSE Seen
Covered == {v \in coll : Shippable(v) /\ ~Selects(NextFilter, v)}

LEMMA Mapping ==
  /\ Pipeline!Init <=> coll = {} /\ Inflight = {} /\ Delivered = {} /\ Covered = {}
  /\ UNCHANGED Pipeline!vars <=> UNCHANGED <<coll, Inflight, Delivered, Covered>>
  BY DEF Pipeline!Init, Pipeline!vars, Inflight, Covered

LEMMA MapInit == Init => Pipeline!Init
  BY Mapping DEF Init, Inflight, Covered, Delivered

\* The source, the stored row and the bucket decide what is covered.
LEMMA SameCovered == UNCHANGED <<coll, wm>> => UNCHANGED Covered
  BY DEF Covered, NextFilter

LEMMA SameDelivered == UNCHANGED s3 => UNCHANGED Delivered
  BY DEF Delivered

\* Whatever changes in MongoDB, nothing appears already covered.
LEMMA MapSource ==
  ASSUME IInv, IInv', SecondsApart, OverlapCoversRun, Source
  PROVE  Pipeline!Change
<1>1. UNCHANGED <<now, wm, s3, spool, pc, runDt, buf>>
  BY DEF Source, Insert, Update, Delete, cursor
<1>2. Delivered' = Delivered /\ NextFilter' = NextFilter /\ Inflight' = Inflight
  BY <1>1 DEF Delivered, NextFilter, Inflight, Seen, Written
<1>3. coll' \subseteq Version
  BY DEF IInv, TypeOK
<1>4. ASSUME NEW v \in coll', v \notin coll, v.at # None PROVE v.at >= now - Lateness
  <2>1. CASE \E d \in Docs, s \in Stamps : Insert(d, s)
    BY <1>4, <2>1 DEF Insert, Stamps
  <2>2. CASE \E u \in coll, s \in Stamps : Update(u, s)
    <3>1. PICK u \in coll, s \in Stamps : Update(u, s)
      BY <2>2
    <3>2. v = [u EXCEPT !.at = s] /\ u \in Version
      BY <1>4, <3>1 DEF Update, IInv, TypeOK
    <3> QED
      BY <3>1, <3>2 DEF Stamps, Version
  <2>3. CASE \E u \in coll : Delete(u)
    BY <1>4, <2>3 DEF Delete
  <2> QED
    BY <2>1, <2>2, <2>3 DEF Source
<1>5. ASSUME NEW v \in coll', Shippable(v), ~Selects(NextFilter, v) PROVE v \in coll
  BY <1>3, <1>4, <1>5, NewSelected DEF Shippable
<1>6. Covered' = Covered \intersect coll'
  BY <1>2, <1>5 DEF Covered
<1> QED
  BY <1>2, <1>3, <1>6 DEF Pipeline!Change, Inflight, Covered

\* The end of a run, and the end of the process, abandon the attempt.
LEMMA MapReturn ==
  ASSUME NEW o, Return(o), UNCHANGED <<wm, s3>>
  PROVE  Pipeline!Abandon
<1>1. Inflight' = {} /\ coll' = coll
  BY DEF Return, environment, Inflight
<1>2. Delivered' = Delivered /\ Covered' = Covered
  BY <1>1, SameCovered, SameDelivered
<1> QED
  BY <1>1, <1>2 DEF Pipeline!Abandon, Inflight, Covered

LEMMA MapRead ==
  ASSUME NEW v \in coll, Read(v)
  PROVE  Pipeline!Take
<1>1. Inflight' = Inflight \union {v} /\ UNCHANGED <<coll, wm, s3>>
  BY ReadSeen DEF Read, environment, Inflight
<1>2. Delivered' = Delivered /\ Covered' = Covered
  BY <1>1, SameCovered, SameDelivered
<1>3. {v} \in SUBSET coll
  OBVIOUS
<1> QED
  BY <1>1, <1>2, <1>3 DEF Pipeline!Take, Inflight, Covered

\* The whole attempt is published by one PUT.
LEMMA MapPut ==
  ASSUME IInv, SecondsApart, PutObject
  PROVE  Pipeline!Publish
<1>1. /\ pc = "upload" /\ pc' = "verify" /\ s3' = PutRows(second, Written)
      /\ UNCHANGED <<coll, wm, spool, buf, runDt>>
  BY DEF PutObject, environment, cursor
<1>2. Seen = Written /\ Seen' = Seen
  BY <1>1 DEF IInv, FreshStart, Seen, Written
<1>3. Inflight' = Inflight /\ Inflight = Written
  BY <1>1, <1>2 DEF Inflight
<1>4. Delivered' = Delivered \union Written
  <2>1. s3 \subseteq s3'
    BY <1>1, PutKeeps
  <2>2. \A o \in s3' : o \in s3 \/ o.row \in Written
    BY <1>1 DEF PutRows
  <2>3. ASSUME NEW v \in Written PROVE \E o \in s3' : o.row = v
    <3> DEFINE o == [key |-> second, row |-> v]
    <3>1. o \in s3' /\ o.row = v
      BY <1>1 DEF PutRows
    <3> QED
      BY <3>1
  <2> QED
    BY <2>1, <2>2, <2>3 DEF Delivered
<1>5. Covered' = Covered
  BY <1>1, SameCovered
<1> QED
  BY <1>1, <1>3, <1>4, <1>5 DEF Pipeline!Publish, Inflight, Covered

\* A commit covers only what has been delivered.
LEMMA MapCommit ==
  ASSUME SecondsApart, OverlapCoversRun, IInv', Commit
  PROVE  Pipeline!Checkpoint
<1>1. UNCHANGED <<coll, s3, spool, buf, runDt>> /\ pc = "commit" /\ pc' = "unlink"
  BY DEF Commit, environment, cursor
<1>2. Inflight' = Inflight /\ Delivered' = Delivered
  BY <1>1 DEF Inflight, Seen, Written, Delivered
<1>3. Covered' \subseteq coll \intersect Delivered
  BY <1>1, <1>2 DEF IInv, Promise, NoLoss, Covered
<1> QED
  BY <1>1, <1>2, <1>3 DEF Pipeline!Checkpoint, Inflight, Covered

\* The steps the pipeline does not see.
LEMMA MapStutter ==
  ASSUME IInv, IInv',
         \/ Tick
         \/ \E m \in Modes : Reconfigure(m)
         \/ \E d \in DryRuns : StartRun(d)
         \/ OpenCursor \/ FinishScan \/ HeadObject \/ UNCHANGED vars
  PROVE  UNCHANGED Pipeline!vars
<1>1. UNCHANGED <<coll, wm, s3>>
  BY DEF Tick, Reconfigure, StartRun, OpenCursor, FinishScan, HeadObject, vars, environment
<1>2. Delivered' = Delivered /\ Covered' = Covered
  BY <1>1, SameCovered, SameDelivered
<1>3. Inflight' = Inflight
  <2>1. CASE \E d \in DryRuns : StartRun(d)
    <3>1. pc = "idle" /\ pc' = "open"
      BY <2>1 DEF StartRun
    <3> QED
      BY <3>1 DEF Inflight, Seen, IInv, FreshStart
  <2>2. CASE FinishScan
    BY <2>2, AppendSeen DEF FinishScan, Inflight, Seen
  <2>3. CASE Tick \/ (\E m \in Modes : Reconfigure(m)) \/ OpenCursor \/ HeadObject \/ UNCHANGED vars
    BY <2>3 DEF Tick, Reconfigure, OpenCursor, HeadObject, vars, cursor, Inflight, Seen, Written
  <2> QED
    BY <2>1, <2>2, <2>3
<1> QED
  BY <1>1, <1>2, <1>3, Mapping

LEMMA MapNext ==
  ASSUME SecondsApart, OverlapCoversRun, IInv, IInv', [Next]_vars
  PROVE  [Pipeline!Next]_(Pipeline!vars)
<1>1. CASE Source
  BY <1>1, MapSource DEF Pipeline!Next
<1>2. ASSUME NEW v \in coll, Read(v) PROVE Pipeline!Next
  BY <1>2, MapRead DEF Pipeline!Next
<1>3. CASE PutObject
  BY <1>3, MapPut DEF Pipeline!Next
<1>4. CASE Commit
  BY <1>4, MapCommit DEF Pipeline!Next
<1>5. CASE FinishEmpty \/ FinishDry \/ Cleanup \/ RejectKind \/ Failure
  <2>1. /\ \E o \in {"ok", "empty", "failed", "crashed"} : Return(o)
        /\ UNCHANGED <<wm, s3>>
    BY <1>5
    DEF FinishEmpty, FinishDry, Cleanup, RejectKind, Failure, ConnectFails, ScanFails,
        CloseFails, UploadFails, TransferFails, HeadFails, CommitFails, CleanupFails, Crash
  <2> QED
    BY <2>1, MapReturn DEF Pipeline!Next
<1>6. CASE \/ Tick
           \/ \E m \in Modes : Reconfigure(m)
           \/ \E d \in DryRuns : StartRun(d)
           \/ OpenCursor \/ FinishScan \/ HeadObject \/ UNCHANGED vars
  BY <1>6, MapStutter
<1> QED
  BY <1>1, <1>2, <1>3, <1>4, <1>5, <1>6 DEF Next, Step, Agent

\* The agent delivers at least once, in the sense of Delivery, whenever
\* overlap_seconds covers a run and its clients' stamps, and no two runs start
\* in one second.
THEOREM Implements ==
  ASSUME SecondsApart, OverlapCoversRun PROVE Spec => AtLeastOnce
<1>1. Spec => []IInv
  BY InvariantHolds
<1>2. Init => Pipeline!Init
  BY MapInit
<1>3. IInv /\ IInv' /\ [Next]_vars => [Pipeline!Next]_(Pipeline!vars)
  BY MapNext
<1> QED
  BY <1>1, <1>2, <1>3, PTL DEF Spec, AtLeastOnce, Pipeline!Spec
-----------------------------------------------------------------------------
\* The contract keeps its promise, and for the agent the promise is NoLoss:
\* whatever follows Delivery step by step skips no document for good.  Nothing
\* is assumed of the agent's own steps, nor of the overlap.
THEOREM ContractSuffices == AtLeastOnce => []NoLoss
<1>1. Pipeline!Init => Pipeline!Promise
  BY DEF Pipeline!Init, Pipeline!Promise
<1>2. Pipeline!Promise /\ [Pipeline!Next]_(Pipeline!vars) => Pipeline!Promise'
  <2> SUFFICES ASSUME Pipeline!Promise, [Pipeline!Next]_(Pipeline!vars)
               PROVE  Pipeline!Promise'
    OBVIOUS
  <2>1. CASE Pipeline!Change
    BY <2>1 DEF Pipeline!Promise, Pipeline!Change
  <2>2. CASE Pipeline!Take
    BY <2>2 DEF Pipeline!Promise, Pipeline!Take
  <2>3. CASE Pipeline!Publish
    BY <2>3 DEF Pipeline!Promise, Pipeline!Publish
  <2>4. CASE Pipeline!Checkpoint
    BY <2>4 DEF Pipeline!Promise, Pipeline!Checkpoint
  <2>5. CASE Pipeline!Abandon
    BY <2>5 DEF Pipeline!Promise, Pipeline!Abandon
  <2>6. CASE UNCHANGED Pipeline!vars
    BY <2>6 DEF Pipeline!Promise, Pipeline!vars
  <2> QED
    BY <2>1, <2>2, <2>3, <2>4, <2>5, <2>6 DEF Pipeline!Next
<1>3. Pipeline!Promise => NoLoss
  BY DEF Pipeline!Promise, NoLoss
<1> QED
  BY <1>1, <1>2, <1>3, PTL DEF AtLeastOnce, Pipeline!Spec
=============================================================================
