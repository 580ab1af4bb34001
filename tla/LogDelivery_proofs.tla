------------------------- MODULE LogDelivery_proofs -------------------------
(***************************************************************************)
(* LogShip implements Delivery: while rotation keeps clear of a running    *)
(* drain, every step of the shipper, the application and its rotation is a *)
(* step of the abstract at-least-once pipeline, or one it does not see.    *)
(***************************************************************************)
EXTENDS LogShip_proofs

USE LogShipAssumption

\* What the pipeline sees of the log files and of the table.
Readable == UNION {LinesOf(f, len[f]) : f \in Present}
Covered == UNION {LinesOf(f, Start(f)) : f \in {g \in Present : HasFp(g)}}

\* The offset stored for a file, wherever it lies now.
Mark(f) == IF offsets[Fp(f)] = NoRow THEN 0 ELSE offsets[Fp(f)]

LEMMA Mapping ==
  /\ Pipeline!Init <=> Readable = {} /\ Taken = {} /\ Delivered = {} /\ Covered = {}
  /\ UNCHANGED Pipeline!vars <=> UNCHANGED <<Readable, Taken, Delivered, Covered>>
  BY DEF Pipeline!Init, Pipeline!vars, Readable, Covered

\* A file without a fingerprint has no offset under one: what is covered can be
\* read off the table alone.
MarksWithin ==
  \A f \in Files : /\ Mark(f) \in 0..MaxLines /\ Mark(f) <= len[f] /\ len[f] \in 0..MaxLines
                   /\ HasFp(f) => Start(f) = Mark(f)
                   /\ Mark(f) > 0 => HasFp(f)

LEMMA MarkFacts == CoreInv => MarksWithin
<1> SUFFICES ASSUME CoreInv, NEW f \in Files
             PROVE  /\ Mark(f) \in 0..MaxLines /\ Mark(f) <= len[f] /\ len[f] \in 0..MaxLines
                    /\ HasFp(f) => Start(f) = Mark(f)
                    /\ Mark(f) > 0 => HasFp(f)
  BY DEF MarksWithin
<1>1. len[f] \in 0..MaxLines
  BY DEF CoreInv, TypeOK
<1>2. CASE offsets[Fp(f)] = NoRow
  BY <1>1, <1>2 DEF Mark, Start, KeyOf
<1>3. CASE offsets[Fp(f)] # NoRow
  BY <1>1, <1>3, RowWithinFile DEF Mark, Start, KeyOf
<1> QED
  BY <1>2, <1>3

ReadableSet ==
  \A x : x \in Readable <=> \E f \in Present, i \in 1..MaxLines :
                               i <= len[f] /\ x = [file |-> f, n |-> i]

LEMMA ReadableLines == CoreInv => ReadableSet
<1> SUFFICES ASSUME CoreInv, NEW x
             PROVE  x \in Readable <=> \E f \in Present, i \in 1..MaxLines :
                                         i <= len[f] /\ x = [file |-> f, n |-> i]
  BY DEF ReadableSet
<1>1. \A f \in Present : f \in Files /\ len[f] \in 0..MaxLines
  BY DEF Present, CoreInv, TypeOK
<1> QED
  BY <1>1 DEF Readable, LinesOf

CoveredSet ==
  \A x : x \in Covered <=> \E f \in Present, i \in 1..MaxLines :
                              i <= Mark(f) /\ x = [file |-> f, n |-> i]

LEMMA CoveredLines == CoreInv => CoveredSet
<1> SUFFICES ASSUME CoreInv, NEW x
             PROVE  x \in Covered <=> \E f \in Present, i \in 1..MaxLines :
                                        i <= Mark(f) /\ x = [file |-> f, n |-> i]
  BY DEF CoveredSet
<1>1. \A f \in Present : f \in Files
  BY DEF Present
<1>2. \A f \in Files : \A i \in 1..MaxLines :
        i <= Mark(f) <=> HasFp(f) /\ i \in 1..Start(f)
  BY MarkFacts, StartTyped DEF CoreInv, MarksWithin
<1>3. \A f \in Files : \A i \in 1..Start(f) : i \in 1..MaxLines
  BY StartTyped DEF CoreInv
<1> QED
  BY <1>1, <1>2, <1>3 DEF Covered, LinesOf

LEMMA MapInit == Init => Pipeline!Init
  BY Mapping DEF Init, Readable, Covered, Present, Taken, Delivered

\* The files and the table decide what can be read and what is covered.
LEMMA SameSource ==
  ASSUME UNCHANGED <<len, where, offsets>>
  PROVE  UNCHANGED <<Readable, Covered>>
  BY DEF Readable, Covered, LinesOf, Present, HasFp, Start, KeyOf, PathOf, Fp, ProvisionalKey

LEMMA SameDelivered == UNCHANGED shipped => UNCHANGED Delivered
  BY DEF Delivered, LineOf

LEMMA SameTaken == UNCHANGED records => UNCHANGED Taken
  BY DEF Taken, LineOf

\* Growth, renames, new files and removed ones cover nothing new.
LEMMA MapApplication ==
  ASSUME CoreInv, CoreInv', NEW g \in Files,
         AppendLine(g) \/ Rename(g) \/ Create(g) \/ Remove(g)
  PROVE  Pipeline!Change
<1>0. MarksWithin /\ MarksWithin' /\ ReadableSet' /\ CoveredSet /\ CoveredSet'
  <2>1. (CoreInv => MarksWithin /\ ReadableSet /\ CoveredSet)'
    BY MarkFacts, ReadableLines, CoveredLines, PTL
  <2> QED
    BY <2>1, MarkFacts, CoveredLines
<1>1. UNCHANGED <<offsets, shipped, records>>
  BY DEF AppendLine, Rename, Create, Remove, table, locals
<1>2. Delivered' = Delivered /\ Taken' = Taken /\ \A f : Mark(f)' = Mark(f)
  BY <1>1, SameDelivered, SameTaken DEF Mark, Fp
<1>3. \A f \in Present' : f \in Present \/ (f \in Files /\ where[f] = "unborn")
  BY DEF AppendLine, Rename, Create, Remove, disk, Present, CoreInv, TypeOK
<1>4. \A f \in Files : Mark(f) > 0 => where[f] # "unborn"
  <2> SUFFICES ASSUME NEW f \in Files, Mark(f) > 0, where[f] = "unborn" PROVE FALSE
    OBVIOUS
  <2>1. HasFp(f) /\ len[f] = 0
    BY <1>0 DEF CoreInv, StageInv, MarksWithin
  <2> QED
    BY <2>1 DEF HasFp
<1>5. \A f \in Files : Mark(f) <= len'[f]
  BY <1>0, <1>2 DEF MarksWithin
<1>6. \A x : x \in Readable' <=> \E f \in Present', i \in 1..MaxLines :
                                   i <= len'[f] /\ x = [file |-> f, n |-> i]
  BY <1>0 DEF ReadableSet
<1>7. \A x : x \in Covered' <=> \E f \in Present', i \in 1..MaxLines :
                                  i <= Mark(f)' /\ x = [file |-> f, n |-> i]
  BY <1>0 DEF CoveredSet
<1>8. Readable' \subseteq Lines
  BY <1>6 DEF Present, Lines
<1>9. \A f \in Files : Mark(f) \in 0..MaxLines /\ len'[f] \in 0..MaxLines
  BY <1>0 DEF MarksWithin
<1>10. ASSUME NEW x \in Covered' PROVE x \in Covered /\ x \in Readable'
  <2>1. PICK f \in Present', i \in 1..MaxLines :
          i <= Mark(f) /\ x = [file |-> f, n |-> i]
    BY <1>2, <1>7
  <2>2. f \in Files /\ f \in Present
    BY <1>3, <1>4, <1>9, <2>1 DEF Present
  <2> QED
    BY <1>5, <1>6, <1>9, <2>1, <2>2, <1>0 DEF CoveredSet
<1>11. ASSUME NEW x \in Covered, x \in Readable' PROVE x \in Covered'
  BY <1>2, <1>6, <1>7, <1>11, <1>0 DEF CoveredSet
<1>12. Covered' = Covered \intersect Readable'
  BY <1>10, <1>11
<1> QED
  BY <1>2, <1>8, <1>12 DEF Pipeline!Change, Readable, Covered

\* The end of a poll, and the end of the process, abandon the attempt.
LEMMA MapReturn ==
  ASSUME Return, UNCHANGED <<table, shipped>>
  PROVE  Pipeline!Abandon
<1>1. UNCHANGED <<len, where, offsets, shipped>> /\ Taken' = {}
  BY DEF Return, disk, table, Taken
<1> QED
  BY <1>1, SameSource, SameDelivered DEF Pipeline!Abandon, Readable, Covered

\* A chunk is taken from a file that is there.
LEMMA MapDrain ==
  ASSUME CoreInv, NEW p \in plans, DrainChunk(p)
  PROVE  Pipeline!Take
<1>1. PICK f \in Present, e \in Ends(p) :
        /\ PathOf(f) = p.path
        /\ records' = records \union
             {[file |-> f, n |-> i, name |-> p.path, file_offset |-> e] : i \in p.at + 1 .. e}
  BY DEF DrainChunk
<1>2. UNCHANGED <<len, where, offsets, shipped>>
  BY DEF DrainChunk, disk, table
<1>3. e <= len[f]
  <2>1. PICK g \in Present : PathOf(g) = p.path /\ e <= len[g]
    BY DEF Ends
  <2>2. f = p.id /\ g = p.id
    BY <1>1, <2>1 DEF CoreInv, PlanInv
  <2> QED
    BY <2>1, <2>2
<1> DEFINE batch == {[file |-> f, n |-> i] : i \in p.at + 1 .. e}
           rec(i) == [file |-> f, n |-> i, name |-> p.path, file_offset |-> e]
<1>4. Taken' = Taken \union batch
  <2>1. records' = records \union {rec(i) : i \in p.at + 1 .. e}
    BY <1>1
  <2>2. \A i : LineOf(rec(i)) = [file |-> f, n |-> i]
    BY DEF LineOf
  <2>3. Taken' = {LineOf(r) : r \in records'}
    BY DEF Taken, LineOf
  <2> HIDE DEF rec
  <2> QED
    BY <2>1, <2>2, <2>3 DEF Taken
<1>5. batch \subseteq Readable
  <2>1. p.at \in 0..MaxLines /\ len[f] \in 0..MaxLines /\ f \in Files
    BY DEF CoreInv, TypeOK, Plan, Present
  <2>2. \A i \in p.at + 1 .. e : i \in 1..MaxLines /\ i <= len[f]
    BY <1>3, <2>1 DEF Ends
  <2> QED
    BY <2>2, ReadableLines DEF ReadableSet
<1> QED
  BY <1>2, <1>4, <1>5, SameSource, SameDelivered DEF Pipeline!Take, Readable, Covered

\* The whole poll is published by one PUT.
LEMMA MapPut ==
  ASSUME PutObject
  PROVE  Pipeline!Publish
<1>1. UNCHANGED <<len, where, offsets, records>> /\ shipped' = shipped \union records
  BY DEF PutObject, disk, table, locals
<1>2. Delivered' = Delivered \union Taken
  BY <1>1 DEF Delivered, Taken, LineOf
<1> QED
  BY <1>1, <1>2, SameSource, SameTaken DEF Pipeline!Publish, Readable, Covered

\* A commit, and the collection of a row, cover only what is delivered.
LEMMA MapCommit ==
  ASSUME CoreInv, CoreInv', NoLineSkipped', Commit \/ \E k \in Key : Collect(k)
  PROVE  Pipeline!Checkpoint
<1>1. UNCHANGED <<len, where, shipped, records>>
  BY DEF Commit, Collect, disk, locals
<1>2. Delivered' = Delivered /\ Taken' = Taken /\ Present' = Present
  BY <1>1, SameDelivered, SameTaken DEF Present
<1>3. Readable' = Readable
  BY <1>1, <1>2 DEF Readable, LinesOf
<1>4. Covered' \subseteq Delivered
  BY <1>2 DEF NoLineSkipped, Covered
<1>5. Covered' \subseteq Readable'
  <2>0. MarksWithin' /\ ReadableSet' /\ CoveredSet'
    <3>1. (CoreInv => MarksWithin /\ ReadableSet /\ CoveredSet)'
      BY MarkFacts, ReadableLines, CoveredLines, PTL
    <3> QED
      BY <3>1
  <2>1. \A f \in Files : Mark(f)' \in 0..MaxLines /\ Mark(f)' <= len'[f] /\ len'[f] \in 0..MaxLines
    BY <2>0 DEF MarksWithin
  <2>2. \A x : x \in Readable' <=> \E f \in Present', i \in 1..MaxLines :
                                     i <= len'[f] /\ x = [file |-> f, n |-> i]
    BY <2>0 DEF ReadableSet
  <2>3. \A x : x \in Covered' <=> \E f \in Present', i \in 1..MaxLines :
                                    i <= Mark(f)' /\ x = [file |-> f, n |-> i]
    BY <2>0 DEF CoveredSet
  <2>4. Present' \subseteq Files
    BY DEF Present
  <2> QED
    BY <2>1, <2>2, <2>3, <2>4
<1> QED
  BY <1>2, <1>3, <1>4, <1>5 DEF Pipeline!Checkpoint, Readable, Covered

\* The steps the pipeline does not see.
LEMMA MapStutter ==
  ASSUME \/ Age \/ Discover \/ \E path \in listed : Overlook(path)
         \/ FinishDrain \/ Confirm \/ UNCHANGED vars
         \/ \E d \in DryRuns : StartPoll(d)
         \/ \E p \in plans : DrainDone(p) \/ DrainFails(p)
  PROVE  UNCHANGED Pipeline!vars
<1>1. UNCHANGED <<len, where, offsets, shipped, records>>
  BY DEF Age, Discover, Overlook, FinishDrain, Confirm, StartPoll, DrainDone, DrainFails,
     EndDrain, disk, table, locals, vars
<1> QED
  BY <1>1, SameSource, SameDelivered, SameTaken, Mapping

LEMMA MapNext ==
  ASSUME IInv, IInv', [Next]_vars
  PROVE  [Pipeline!Next]_(Pipeline!vars)
<1>1. CASE Application
  BY <1>1, MapApplication DEF Application, IInv, Pipeline!Next
<1>2. ASSUME NEW p \in plans, DrainChunk(p) PROVE Pipeline!Next
  BY <1>2, MapDrain DEF IInv, Pipeline!Next
<1>3. CASE PutObject
  BY <1>3, MapPut DEF Pipeline!Next
<1>4. CASE Commit \/ \E k \in Key : Collect(k)
  BY <1>4, MapCommit DEF IInv, Pipeline!Next
<1>5. CASE FinishEmpty \/ FinishDry \/ FinishPoll \/ Interrupt
  <2>1. Return /\ UNCHANGED <<table, shipped>>
    BY <1>5 DEF FinishEmpty, FinishDry, FinishPoll, Interrupt
  <2> QED
    BY <2>1, MapReturn DEF Pipeline!Next
<1>6. CASE \/ Age \/ Discover \/ \E path \in listed : Overlook(path)
           \/ FinishDrain \/ Confirm \/ UNCHANGED vars
           \/ \E d \in DryRuns : StartPoll(d)
           \/ \E p \in plans : DrainDone(p) \/ DrainFails(p)
  BY <1>6, MapStutter
<1> QED
  BY <1>1, <1>2, <1>3, <1>4, <1>5, <1>6 DEF Next, Agent

\* ship.py: "the same at-least-once contract" as the extractor's, while no new
\* file takes the path of one that is being drained.
THEOREM ShipperImplements == ASSUME ~CreateDuringPoll PROVE Spec => AtLeastOnce
<1>1. Spec => []IInv
  BY InvariantHolds
<1>2. Init => Pipeline!Init
  BY MapInit
<1>3. IInv /\ IInv' /\ [Next]_vars => [Pipeline!Next]_(Pipeline!vars)
  BY MapNext
<1> QED
  BY <1>1, <1>2, <1>3, PTL DEF Spec, AtLeastOnce, Pipeline!Spec
-----------------------------------------------------------------------------
\* For the shipper the contract's promise is NoLineSkipped.
THEOREM ContractSuffices == AtLeastOnce => []NoLineSkipped
<1>1. Pipeline!Init => Pipeline!Promise
  BY DEF Pipeline!Init, Pipeline!Promise
<1>2. Pipeline!Promise /\ [Pipeline!Next]_(Pipeline!vars) => Pipeline!Promise'
  <2> SUFFICES ASSUME Pipeline!Promise, [Pipeline!Next]_(Pipeline!vars)
               PROVE  Pipeline!Promise'
    OBVIOUS
  <2>1. CASE Pipeline!Change
    BY <2>1 DEF Pipeline!Promise, Pipeline!Change
  <2>2. CASE Pipeline!Take
    BY <2>2 DEF Pipeline!Promise, Pipeline!Take
  <2>3. CASE Pipeline!Publish
    BY <2>3 DEF Pipeline!Promise, Pipeline!Publish
  <2>4. CASE Pipeline!Checkpoint
    BY <2>4 DEF Pipeline!Promise, Pipeline!Checkpoint
  <2>5. CASE Pipeline!Abandon
    BY <2>5 DEF Pipeline!Promise, Pipeline!Abandon
  <2>6. CASE UNCHANGED Pipeline!vars
    BY <2>6 DEF Pipeline!Promise, Pipeline!vars
  <2> QED
    BY <2>1, <2>2, <2>3, <2>4, <2>5, <2>6 DEF Pipeline!Next
<1>3. Pipeline!Promise => NoLineSkipped
  BY DEF Pipeline!Promise, NoLineSkipped
<1> QED
  BY <1>1, <1>2, <1>3, PTL DEF AtLeastOnce, Pipeline!Spec
=============================================================================
