--------------------------- MODULE LogShip_proofs ---------------------------
(***************************************************************************)
(* Proofs about LogShip, for every value of its constants: while rotation  *)
(* keeps clear of a running drain, no line is skipped.                     *)
(***************************************************************************)
EXTENDS LogShip, TLAPS

USE LogShipAssumption

\* Keys: a fingerprint names one file, and is not the key of a path.
LEMMA KeyFacts ==
  /\ \A f \in Files : Fp(f) \in Key /\ ProvisionalKey(f) \in Key
  /\ ProvisionalKey(Live) \in Key
  /\ \A f, g : Fp(f) = Fp(g) => f = g
  /\ \A f, p : Fp(f).by = "fp" /\ Fp(f).of = f /\ ProvisionalKey(p).by = "path"
  /\ \A k \in Key : k.by = "fp" => k.of \in Files /\ k = Fp(k.of)
  BY DEF Fp, ProvisionalKey, Key

LEMMA PathFacts ==
  ASSUME NEW f \in Files
  PROVE  PathOf(f) \in Files \union {Live} /\ KeyOf(f) \in Key
  BY KeyFacts DEF PathOf, KeyOf

\* What is not a row is an offset.
LEMMA RowTyped ==
  ASSUME TypeOK, NEW k \in Key, offsets[k] # NoRow
  PROVE  offsets[k] \in 0..MaxLines
  BY DEF TypeOK

LEMMA StartTyped ==
  ASSUME TypeOK, NEW f \in Files
  PROVE  Start(f) \in 0..MaxLines
  BY PathFacts, RowTyped DEF Start

\* discover starts a fingerprinted file where its lines are uploaded.
LEMMA StartBacked ==
  ASSUME TypeOK, RowInv, NEW f \in Files, HasFp(f)
  PROVE  LinesOf(f, Start(f)) \subseteq Delivered
<1>1. KeyOf(f) = Fp(f)
  BY DEF KeyOf
<1>2. LinesOf(f, 0) = {}
  BY DEF LinesOf
<1> QED
  BY <1>1, <1>2 DEF Start, RowInv

LEMMA NoLineSkippedFromRows == TypeOK /\ RowInv => NoLineSkipped
  BY StartBacked DEF NoLineSkipped, Present

LEMMA InitCoreInv == Init => CoreInv
<1> SUFFICES ASSUME Init PROVE CoreInv
  OBVIOUS
<1>1. TypeOK
  <2>1. len \in [Files -> 0..MaxLines] /\ offsets \in [Key -> 0..MaxLines \union {NoRow}]
    BY DEF Init
  <2>2. where \in [Files -> {"unborn", "live", "archived", "gone"}]
    BY DEF Init
  <2> QED
    BY <2>1, <2>2 DEF Init, TypeOK
<1>2. RowInv
  BY KeyFacts DEF Init, RowInv
<1>3. PlanInv /\ NewOffInv
  BY DEF Init, PlanInv, NewOffInv
<1>4. StageInv
  BY DEF Init, StageInv
<1> QED
  BY <1>1, <1>2, <1>3, <1>4 DEF CoreInv

\* The application's and the clock's steps, and those of the poll that leave
\* its locals, the table and the bucket alone.
LEMMA EnvTypeOK ==
  ASSUME TypeOK, NEW f \in Files,
         AppendLine(f) \/ Rename(f) \/ Create(f) \/ Remove(f)
  PROVE  TypeOK' /\ \A g \in Files : len[g] <= len'[g]
<1>1. CASE AppendLine(f)
  <2>1. len' \in [Files -> 0..MaxLines] /\ \A g \in Files : len[g] <= len'[g]
    BY <1>1 DEF AppendLine, TypeOK
  <2>2. \A r \in shipped \union records : r.file \in Files /\ r.n \in Nat
    BY DEF TypeOK, Record
  <2>3. UNCHANGED <<where, table, shipped, pc, dry, locals, faults>>
    BY <1>1 DEF AppendLine
  <2>4. \A r \in shipped' \union records' : r.n <= len'[r.file]
    BY <2>1, <2>2, <2>3 DEF TypeOK, locals
  <2> QED
    BY <2>1, <2>3, <2>4 DEF TypeOK, table, locals
<1>2. CASE Rename(f) \/ Create(f) \/ Remove(f)
  BY <1>2 DEF Rename, Create, Remove, TypeOK, table, locals
<1> QED
  BY <1>1, <1>2

\* Rotation never puts another file where a plan still has to drain.
LEMMA EnvPlans ==
  ASSUME CoreInv, ~CreateDuringPoll, NEW f \in Files,
         AppendLine(f) \/ Rename(f) \/ Create(f) \/ Remove(f)
  PROVE  \A p \in plans : \A g \in Present' : PathOf(g)' = p.path => g = p.id
<1> SUFFICES ASSUME NEW p \in plans,
                    NEW g \in Files, where'[g] \in {"live", "archived"},
                    (IF where'[g] = "live" THEN Live ELSE g) = p.path
             PROVE  g = p.id
  BY DEF Present, PathOf
<1>1. /\ p.path \in {Live, p.id} /\ p.id \in Files
      /\ \A h \in Files : where[h] \in {"live", "archived"}
           /\ (IF where[h] = "live" THEN Live ELSE h) = p.path => h = p.id
  BY DEF CoreInv, PlanInv, Present, PathOf, TypeOK, Plan
<1>2. g # Live
  BY DEF Files, Live
<1>3. where \in [Files -> {"unborn", "live", "archived", "gone"}]
  BY DEF CoreInv, TypeOK
<1>4. CASE AppendLine(f)
  BY <1>1, <1>4 DEF AppendLine
<1>5. CASE Rename(f)
  BY <1>1, <1>2, <1>3, <1>5 DEF Rename
<1>6. CASE Create(f)
  BY <1>1, <1>2, <1>3, <1>6 DEF Create
<1>7. CASE Remove(f)
  BY <1>1, <1>2, <1>3, <1>7 DEF Remove
<1> QED
  BY <1>4, <1>5, <1>6, <1>7

LEMMA EnvCoreInv ==
  ASSUME CoreInv, ~CreateDuringPoll, NEW f \in Files,
         AppendLine(f) \/ Rename(f) \/ Create(f) \/ Remove(f)
  PROVE  CoreInv'
<1>1. UNCHANGED <<offsets, shipped, pc, plans, records, newOffs>>
  BY DEF AppendLine, Rename, Create, Remove, table, locals
<1>2. TypeOK' /\ \A g \in Files : len[g] <= len'[g]
  BY EnvTypeOK DEF CoreInv
<1>3. Delivered' = Delivered /\ Taken' = Taken
  BY <1>1 DEF Delivered, Taken
<1>4. \A g \in Files : HasFp(g) => HasFp(g)'
  BY <1>2 DEF HasFp, CoreInv, TypeOK
<1>5. RowInv'
  BY <1>1, <1>3, <1>4 DEF CoreInv, RowInv, LinesOf
<1>6. PlanInv'
  <2> SUFFICES ASSUME NEW p \in plans
               PROVE  /\ p.key.by = "fp" =>
                           /\ p.key = Fp(p.id) /\ HasFp(p.id)'
                           /\ LinesOf(p.id, p.at) \subseteq Delivered \union Taken
                      /\ \A g \in Present' : PathOf(g)' = p.path => g = p.id
                      /\ p.path \in {Live, p.id} /\ pc = "drain"
    BY <1>1, <1>3 DEF PlanInv, LinesOf, Fp
  <2>1. p.id \in Files
    BY DEF CoreInv, TypeOK, Plan
  <2> QED
    BY <1>4, <2>1, EnvPlans DEF CoreInv, PlanInv
<1>7. NewOffInv'
  <2>1. \A o \in newOffs : o.key.by = "fp" => o.key.of \in Files
    BY KeyFacts DEF CoreInv, TypeOK
  <2> QED
    BY <1>1, <1>3, <1>4, <2>1 DEF CoreInv, NewOffInv, LinesOf
<1>8. StageInv'
  <2>1. /\ where \in [Files -> {"unborn", "live", "archived", "gone"}]
        /\ len \in [Files -> 0..MaxLines]
    BY DEF CoreInv, TypeOK
  <2>2. /\ \A g, h \in Files : where[g] = "live" /\ where[h] = "live" => g = h
        /\ \A g \in Files : where[g] = "unborn" => len[g] = 0
    BY DEF CoreInv, StageInv
  <2>3. /\ \A g, h \in Files : where'[g] = "live" /\ where'[h] = "live" => g = h
        /\ \A g \in Files : where'[g] = "unborn" => len'[g] = 0
    BY <2>1, <2>2 DEF AppendLine, Rename, Create, Remove
  <2> QED
    BY <1>1, <1>3, <2>3 DEF CoreInv, StageInv
<1> QED
  BY <1>2, <1>5, <1>6, <1>7, <1>8 DEF CoreInv

---------------------------------------------------------------------------
\* A step that leaves the files alone keeps what StageInv says of them.
LEMMA SameFiles ==
  ASSUME StageInv, UNCHANGED disk,
         pc' \in {"verify", "commit", "gc"} => (Taken \subseteq Delivered)'
  PROVE  StageInv'
  BY DEF StageInv, disk

\* However a poll ends, only the table and the bucket outlive it.
LEMMA ReturnCoreInv ==
  ASSUME CoreInv, Return, UNCHANGED <<table, shipped>>, faults' \in Nat
  PROVE  CoreInv'
<1>1. UNCHANGED <<len, where, offsets, old, shipped, dry>>
  BY DEF Return, disk, table
<1>2. /\ pc' = "idle" /\ listed' = {} /\ plans' = {} /\ records' = {} /\ newOffs' = {}
  BY DEF Return
<1>3. TypeOK'
  BY <1>1, <1>2 DEF CoreInv, TypeOK
<1>4. RowInv'
  BY <1>1 DEF CoreInv, RowInv, HasFp, LinesOf, Delivered
<1>5. PlanInv' /\ NewOffInv'
  BY <1>2 DEF PlanInv, NewOffInv
<1>6. StageInv'
  BY <1>1, <1>2, SameFiles DEF CoreInv, disk
<1> QED
  BY <1>3, <1>4, <1>5, <1>6 DEF CoreInv

\* The clock, and the steps that only move the poll on.
LEMMA MoveCoreInv ==
  ASSUME CoreInv,
         Age \/ FinishDrain \/ Confirm \/ \E d \in DryRuns : StartPoll(d)
  PROVE  CoreInv'
<1>1. UNCHANGED <<len, where, offsets, shipped, plans, records, newOffs, faults>>
  BY DEF Age, FinishDrain, Confirm, StartPoll, disk, table, locals
<1>2. TypeOK'
  <2>1. CASE Age
    BY <2>1 DEF Age, disk, locals, CoreInv, TypeOK
  <2>2. CASE FinishDrain \/ Confirm
    BY <2>2 DEF FinishDrain, Confirm, disk, table, locals, CoreInv, TypeOK
  <2>3. ASSUME NEW d \in DryRuns, StartPoll(d) PROVE TypeOK'
    <3>1. {PathOf(f) : f \in Present} \subseteq Files \union {Live} /\ d \in BOOLEAN
      BY PathFacts DEF Present
    <3> QED
      BY <1>1, <2>3, <3>1 DEF StartPoll, disk, table, CoreInv, TypeOK
  <2> QED
    BY <2>1, <2>2, <2>3
<1>3. Delivered' = Delivered /\ Taken' = Taken
  BY <1>1 DEF Delivered, Taken
<1>4. RowInv' /\ NewOffInv'
  BY <1>1, <1>3 DEF CoreInv, RowInv, NewOffInv, HasFp, LinesOf
<1>5. plans # {} => pc' = "drain"
  BY DEF CoreInv, PlanInv, Age, FinishDrain, Confirm, StartPoll, Drained
<1>6. PlanInv'
  BY <1>1, <1>3, <1>5 DEF CoreInv, PlanInv, HasFp, LinesOf, Present, PathOf, Fp
<1>7. StageInv'
  <2>1. pc' \in {"verify", "commit", "gc"} => pc \in {"verify", "commit", "gc"}
    BY DEF Age, FinishDrain, Confirm, StartPoll
  <2> QED
    BY <1>1, <1>3, <2>1 DEF CoreInv, StageInv
<1> QED
  BY <1>2, <1>4, <1>6, <1>7 DEF CoreInv

\* discover: two files never share a path, so the plan's path shows its file.
LEMMA DiscoverCoreInv ==
  ASSUME CoreInv, Discover
  PROVE  CoreInv'
<1> DEFINE planOf(f) == [id |-> f, key |-> KeyOf(f), path |-> PathOf(f), at |-> Start(f)]
<1>1. /\ plans' = {planOf(f) : f \in {g \in Present : PathOf(g) \in listed}}
      /\ pc' = "drain" /\ listed' = {}
      /\ UNCHANGED <<len, where, offsets, old, shipped, dry, records, newOffs, faults>>
  BY DEF Discover, disk, table
<1>2. plans' \subseteq Plan
  <2>1. \A f \in Present : planOf(f) \in Plan
    BY PathFacts, StartTyped DEF CoreInv, Plan, Present
  <2> QED
    BY <1>1, <2>1
<1>3. TypeOK'
  BY <1>1, <1>2 DEF CoreInv, TypeOK
<1>4. Delivered' = Delivered /\ Taken' = Taken
  BY <1>1 DEF Delivered, Taken
<1>5. RowInv' /\ NewOffInv'
  BY <1>1, <1>4 DEF CoreInv, RowInv, NewOffInv, HasFp, LinesOf
<1>6. StageInv'
  BY <1>1, SameFiles DEF CoreInv, disk
<1>7. ASSUME NEW f \in Present, KeyOf(f).by = "fp"
      PROVE  KeyOf(f) = Fp(f) /\ HasFp(f) /\ LinesOf(f, Start(f)) \subseteq Delivered
  <2>1. KeyOf(f) = Fp(f) /\ HasFp(f)
    BY <1>7, KeyFacts DEF KeyOf
  <2> QED
    BY <2>1, StartBacked DEF CoreInv, Present
<1>8. \A f, g \in Present : PathOf(f) = PathOf(g) => f = g
  BY DEF CoreInv, StageInv, Present, PathOf, Files, Live
<1>9. PlanInv'
  <2> SUFFICES ASSUME NEW f \in Present
               PROVE  /\ KeyOf(f).by = "fp" =>
                           /\ KeyOf(f) = Fp(f) /\ HasFp(f)
                           /\ LinesOf(f, Start(f)) \subseteq Delivered \union Taken
                      /\ \A g \in Present : PathOf(g) = PathOf(f) => g = f
                      /\ PathOf(f) \in {Live, f}
    BY <1>1, <1>4 DEF PlanInv, HasFp, LinesOf, Present, PathOf, Fp
  <2> QED
    BY <1>7, <1>8 DEF PathOf
<1> QED
  BY <1>3, <1>5, <1>6, <1>9 DEF CoreInv

\* One tail_file call: the new records continue where the plan stood.
LEMMA DrainChunkCoreInv ==
  ASSUME CoreInv, NEW p \in plans, DrainChunk(p)
  PROVE  CoreInv'
<1>1. PICK f \in Present, e \in Ends(p) :
        /\ PathOf(f) = p.path
        /\ records' = records \union
             {[file |-> f, n |-> i, name |-> p.path, file_offset |-> e] : i \in p.at + 1 .. e}
        /\ plans' = (plans \ {p}) \union {[p EXCEPT !.at = e]}
  BY DEF DrainChunk
<1>2. UNCHANGED <<len, where, offsets, old, shipped, pc, dry, listed, newOffs, faults>>
  BY DEF DrainChunk, disk, table
<1>3. /\ p \in Plan /\ p.id \in Files /\ p.at \in 0..MaxLines
      /\ p.key \in Key /\ p.path \in Files \union {Live}
      /\ f \in Files /\ len[f] \in 0..MaxLines
  BY DEF CoreInv, TypeOK, Plan, Present
<1>4. \A g, h \in Present : PathOf(g) = PathOf(h) => g = h
  BY DEF CoreInv, StageInv, Present, PathOf, Files, Live
<1>5. e \in Nat /\ p.at < e /\ e <= len[f] /\ e \in 1..MaxLines
  <2>1. e \in p.at + 1 .. p.at + Window
    BY DEF Ends
  <2>2. e <= len[f]
    BY <1>1, <1>4 DEF Ends
  <2> QED
    BY <1>3, <2>1, <2>2
<1> DEFINE q == [p EXCEPT !.at = e]
           new == {[file |-> f, n |-> i, name |-> p.path, file_offset |-> e] : i \in p.at + 1 .. e}
<1>6. /\ q \in Plan /\ q.id = p.id /\ q.key = p.key /\ q.path = p.path /\ q.at = e
  BY <1>3, <1>5 DEF Plan
<1>7. new \subseteq Record /\ \A r \in new : r.n <= len[r.file]
  BY <1>3, <1>5 DEF Record
<1>8. TypeOK'
  <2>1. records' \subseteq Record /\ plans' \subseteq Plan
    BY <1>1, <1>6, <1>7 DEF CoreInv, TypeOK
  <2>2. \A r \in shipped' \union records' : r.n <= len'[r.file]
    BY <1>1, <1>2, <1>7 DEF CoreInv, TypeOK
  <2> QED
    BY <1>2, <2>1, <2>2 DEF CoreInv, TypeOK
<1>9. Delivered' = Delivered /\ Taken \subseteq Taken'
  BY <1>1, <1>2 DEF Delivered, Taken
<1>10. RowInv'
  BY <1>2, <1>9 DEF CoreInv, RowInv, HasFp, LinesOf
<1>11. NewOffInv'
  BY <1>2, <1>9 DEF CoreInv, NewOffInv, HasFp, LinesOf
<1>12. StageInv'
  BY <1>2, SameFiles DEF CoreInv, disk, DrainChunk, Turn
<1>13. ASSUME p.key.by = "fp", f = p.id, LinesOf(p.id, p.at) \subseteq Delivered \union Taken
       PROVE  LinesOf(p.id, e) \subseteq Delivered' \union Taken'
  <2> SUFFICES ASSUME NEW i \in 1..e
               PROVE  [file |-> p.id, n |-> i] \in Delivered' \union Taken'
    BY DEF LinesOf
  <2>1. CASE i <= p.at
    BY <1>3, <1>9, <1>13, <2>1 DEF LinesOf
  <2>2. CASE i > p.at
    <3>1. [file |-> f, n |-> i, name |-> p.path, file_offset |-> e] \in records'
      BY <1>1, <1>3, <1>5, <2>2
    <3> QED
      BY <1>13, <3>1 DEF Taken, LineOf
  <2> QED
    BY <1>3, <2>1, <2>2
<1>14. PlanInv'
  <2>1. ASSUME NEW o \in plans
        PROVE  /\ o.key.by = "fp" =>
                    /\ o.key = Fp(o.id) /\ HasFp(o.id)'
                    /\ LinesOf(o.id, o.at) \subseteq Delivered' \union Taken'
               /\ \A g \in Present' : PathOf(g)' = o.path => g = o.id
               /\ o.path \in {Live, o.id} /\ pc' = "drain"
    BY <1>2, <1>9 DEF CoreInv, PlanInv, HasFp, Present, PathOf
  <2>2. /\ q.key.by = "fp" =>
             /\ q.key = Fp(q.id) /\ HasFp(q.id)'
             /\ LinesOf(q.id, q.at) \subseteq Delivered' \union Taken'
        /\ \A g \in Present' : PathOf(g)' = q.path => g = q.id
        /\ q.path \in {Live, q.id} /\ pc' = "drain"
    <3>1. q.key.by = "fp" => f = p.id /\ LinesOf(p.id, p.at) \subseteq Delivered \union Taken
      BY <1>1, <1>6 DEF CoreInv, PlanInv
    <3> HIDE DEF q
    <3> QED
      BY <1>6, <1>13, <2>1, <3>1
  <2>3. plans' \subseteq plans \union {q}
    BY <1>1
  <2> HIDE DEF q
  <2> QED
    BY <2>1, <2>2, <2>3 DEF PlanInv, LinesOf, Fp
<1> QED
  BY <1>8, <1>10, <1>11, <1>12, <1>14 DEF CoreInv

LEMMA DrainEndCoreInv ==
  ASSUME CoreInv, NEW p \in plans, DrainDone(p) \/ DrainFails(p)
  PROVE  CoreInv'
<1>1. /\ plans' = plans \ {p} /\ newOffs' = newOffs \union {[key |-> p.key, off |-> p.at]}
      /\ UNCHANGED <<len, where, offsets, old, shipped, pc, dry, listed, records>>
  BY DEF DrainDone, DrainFails, EndDrain, disk, table
<1>0. faults' \in Nat
  BY DEF DrainDone, DrainFails, Fault, CoreInv, TypeOK
<1>2. p \in Plan /\ p.key \in Key /\ p.at \in 0..MaxLines
  BY DEF CoreInv, TypeOK, Plan
<1>3. TypeOK'
  BY <1>0, <1>1, <1>2 DEF CoreInv, TypeOK
<1>4. Delivered' = Delivered /\ Taken' = Taken
  BY <1>1 DEF Delivered, Taken
<1>5. RowInv'
  BY <1>1, <1>4 DEF CoreInv, RowInv, HasFp, LinesOf
<1>6. PlanInv'
  BY <1>1, <1>4 DEF CoreInv, PlanInv, HasFp, LinesOf, Present, PathOf, Fp
<1>7. NewOffInv'
  <2>1. p.key.by = "fp" => /\ p.key.of = p.id /\ HasFp(p.id)
                           /\ LinesOf(p.id, p.at) \subseteq Delivered \union Taken
    BY KeyFacts DEF CoreInv, PlanInv
  <2>2. \A o \in newOffs' : o.key.by = "fp" =>
          HasFp(o.key.of) /\ LinesOf(o.key.of, o.off) \subseteq Delivered \union Taken
    BY <1>1, <2>1 DEF CoreInv, NewOffInv
  <2> QED
    BY <1>1, <1>4, <2>2 DEF NewOffInv, HasFp, LinesOf
<1>8. StageInv'
  BY <1>1, <1>4, SameFiles DEF CoreInv, disk, DrainDone, DrainFails, Turn
<1> QED
  BY <1>3, <1>5, <1>6, <1>7, <1>8 DEF CoreInv

LEMMA PutCoreInv ==
  ASSUME CoreInv, PutObject
  PROVE  CoreInv'
<1>1. /\ shipped' = shipped \union records /\ pc' = "verify"
      /\ UNCHANGED <<len, where, offsets, old, dry, listed, plans, records, newOffs, faults>>
  BY DEF PutObject, disk, table, locals
<1>2. TypeOK'
  BY <1>1 DEF CoreInv, TypeOK
<1>3. Delivered' = Delivered \union Taken /\ Taken' = Taken
  BY <1>1 DEF Delivered, Taken
<1>4. RowInv' /\ NewOffInv'
  BY <1>1, <1>3 DEF CoreInv, RowInv, NewOffInv, HasFp, LinesOf
<1>5. PlanInv'
  BY <1>1 DEF CoreInv, PlanInv, PutObject
<1>6. StageInv'
  BY <1>1, <1>3, SameFiles DEF CoreInv, disk
<1> QED
  BY <1>2, <1>4, <1>5, <1>6 DEF CoreInv

\* The row a commit leaves under a key: one of the poll's, or the old one.
LEMMA CommitRow ==
  ASSUME Commit, NEW k \in Key
  PROVE  \/ \E o \in newOffs : o.key = k /\ offsets'[k] = o.off
         \/ offsets'[k] = offsets[k]
<1>1. offsets'[k] = IF \E o \in newOffs : o.key = k
                    THEN (CHOOSE o \in newOffs : o.key = k).off ELSE offsets[k]
  BY DEF Commit
<1>2. CASE \E o \in newOffs : o.key = k
  <2> DEFINE c == CHOOSE o \in newOffs : o.key = k
  <2>1. c \in newOffs /\ c.key = k
    BY <1>2
  <2> QED
    BY <1>1, <1>2, <2>1
<1> QED
  BY <1>1, <1>2

\* What a commit covers is in the bucket by then.
LEMMA CommitCoreInv ==
  ASSUME CoreInv, Commit
  PROVE  CoreInv'
<1>1. /\ pc = "commit" /\ pc' = "gc" /\ old' \subseteq old
      /\ UNCHANGED <<len, where, shipped, dry, listed, plans, records, newOffs, faults>>
  BY DEF Commit, disk, locals
<1>2. Delivered' = Delivered /\ Taken' = Taken /\ Taken \subseteq Delivered
  BY <1>1 DEF Delivered, Taken, CoreInv, StageInv
<1>3. offsets' \in [Key -> 0..MaxLines \union {NoRow}]
  <2>1. \A k \in Key : offsets'[k] \in 0..MaxLines \union {NoRow}
    BY CommitRow DEF CoreInv, TypeOK
  <2>2. offsets' = [k \in Key |-> offsets'[k]]
    BY DEF Commit
  <2> QED
    BY <2>1, <2>2
<1>4. TypeOK'
  BY <1>1, <1>3 DEF CoreInv, TypeOK
<1>5. RowInv'
  <2> SUFFICES ASSUME NEW f \in Files, offsets'[Fp(f)] # NoRow
               PROVE  HasFp(f) /\ LinesOf(f, offsets'[Fp(f)]) \subseteq Delivered
    BY <1>1, <1>2 DEF RowInv, HasFp, LinesOf, Fp
  <2>1. CASE offsets'[Fp(f)] = offsets[Fp(f)]
    BY <2>1 DEF CoreInv, RowInv
  <2>2. CASE \E o \in newOffs : o.key = Fp(f) /\ offsets'[Fp(f)] = o.off
    BY <1>2, <2>2, KeyFacts DEF CoreInv, NewOffInv
  <2> QED
    BY <2>1, <2>2, CommitRow, KeyFacts
<1>6. PlanInv'
  BY <1>1 DEF CoreInv, PlanInv
<1>7. NewOffInv'
  BY <1>1, <1>2 DEF CoreInv, NewOffInv, HasFp, LinesOf
<1>8. StageInv'
  BY <1>1, <1>2, SameFiles DEF CoreInv, disk
<1> QED
  BY <1>4, <1>5, <1>6, <1>7, <1>8 DEF CoreInv

LEMMA CollectCoreInv ==
  ASSUME CoreInv, NEW k \in Key, Collect(k)
  PROVE  CoreInv'
<1>1. /\ pc = "gc" /\ offsets' = [offsets EXCEPT ![k] = NoRow] /\ old' = old \ {k}
      /\ UNCHANGED <<len, where, shipped, pc, dry, listed, plans, records, newOffs, faults>>
  BY DEF Collect, disk, locals
<1>2. TypeOK'
  BY <1>1 DEF CoreInv, TypeOK
<1>3. Delivered' = Delivered /\ Taken' = Taken
  BY <1>1 DEF Delivered, Taken
<1>4. RowInv'
  <2>1. \A f \in Files : offsets'[Fp(f)] # NoRow => offsets'[Fp(f)] = offsets[Fp(f)]
    BY <1>1, KeyFacts DEF CoreInv, TypeOK
  <2> QED
    BY <1>1, <1>3, <2>1 DEF CoreInv, RowInv, HasFp, LinesOf, Fp
<1>5. PlanInv' /\ NewOffInv'
  BY <1>1, <1>3 DEF CoreInv, PlanInv, NewOffInv, HasFp, LinesOf
<1>6. StageInv'
  BY <1>1, <1>3 DEF CoreInv, StageInv
<1> QED
  BY <1>2, <1>4, <1>5, <1>6 DEF CoreInv

\* A path that is skipped changes nothing the invariant speaks of.
LEMMA OverlookCoreInv ==
  ASSUME CoreInv, NEW path \in listed, Overlook(path)
  PROVE  CoreInv'
<1>1. /\ UNCHANGED <<len, where, offsets, old, shipped, pc, dry, plans, records, newOffs>>
      /\ listed' = listed \ {path} /\ faults' \in Nat
  BY DEF Overlook, Fault, disk, table, CoreInv, TypeOK
<1>2. Delivered' = Delivered /\ Taken' = Taken
  BY <1>1 DEF Delivered, Taken
<1>3. TypeOK'
  BY <1>1 DEF CoreInv, TypeOK
<1>4. RowInv' /\ NewOffInv' /\ StageInv'
  BY <1>1, <1>2 DEF CoreInv, RowInv, NewOffInv, StageInv, HasFp, LinesOf
<1>5. PlanInv'
  BY <1>1, <1>2 DEF CoreInv, PlanInv, HasFp, LinesOf, Present, PathOf
<1> QED
  BY <1>3, <1>4, <1>5 DEF CoreInv

LEMMA NextCoreInv == CoreInv /\ ~CreateDuringPoll /\ [Next]_vars => CoreInv'
<1> SUFFICES ASSUME CoreInv, ~CreateDuringPoll, [Next]_vars PROVE CoreInv'
  OBVIOUS
<1>1. CASE Application
  BY <1>1, EnvCoreInv DEF Application
<1>2. CASE Age \/ FinishDrain \/ Confirm \/ \E d \in DryRuns : StartPoll(d)
  BY <1>2, MoveCoreInv
<1>3. CASE Discover
  BY <1>3, DiscoverCoreInv
<1>4. CASE \E p \in plans : DrainChunk(p) \/ DrainDone(p) \/ DrainFails(p)
  BY <1>4, DrainChunkCoreInv, DrainEndCoreInv
<1>5. CASE FinishEmpty \/ FinishDry \/ FinishPoll
  <2>1. Return /\ UNCHANGED <<table, shipped, faults>>
    BY <1>5 DEF FinishEmpty, FinishDry, FinishPoll
  <2> QED
    BY <2>1, ReturnCoreInv DEF CoreInv, TypeOK
<1>6. CASE Interrupt
  <2>1. Return /\ UNCHANGED <<table, shipped>> /\ faults' = faults + 1
    BY <1>6 DEF Interrupt, Fault
  <2>2. faults' \in Nat
    BY <2>1 DEF CoreInv, TypeOK
  <2> QED
    BY <2>1, <2>2, ReturnCoreInv
<1>7. CASE PutObject
  BY <1>7, PutCoreInv
<1>8. CASE Commit
  BY <1>8, CommitCoreInv
<1>9. CASE \E k \in Key : Collect(k)
  BY <1>9, CollectCoreInv
<1>10. CASE UNCHANGED vars
  <2>1. UNCHANGED <<len, where, offsets, old, shipped, pc, dry, listed, plans, records, newOffs, faults>>
    BY <1>10 DEF vars
  <2>2. TypeOK' /\ Delivered' = Delivered /\ Taken' = Taken
    BY <2>1 DEF CoreInv, TypeOK, Delivered, Taken
  <2>3. RowInv' /\ NewOffInv' /\ PlanInv'
    BY <2>1, <2>2 DEF CoreInv, RowInv, NewOffInv, PlanInv, HasFp, LinesOf, Present, PathOf, Fp
  <2>4. StageInv'
    BY <2>1, <2>2 DEF CoreInv, StageInv
  <2> QED
    BY <2>2, <2>3, <2>4 DEF CoreInv
<1>11. CASE \E path \in listed : Overlook(path)
  BY <1>11, OverlookCoreInv
<1> QED
  BY <1>1, <1>2, <1>3, <1>4, <1>5, <1>6, <1>7, <1>8, <1>9, <1>10, <1>11 DEF Next, Agent

---------------------------------------------------------------------------
\* Where the rows stay and the poll takes nothing up, it stays beyond them.
LEMMA SameAhead ==
  ASSUME AheadInv, UNCHANGED offsets,
         plans' \subseteq plans, newOffs' \subseteq newOffs, records' \subseteq records,
         pc = "gc" => pc' = "gc" \/ (newOffs' = {} /\ records' = {})
  PROVE  AheadInv'
  BY DEF AheadInv, NotReshipped, Fp

\* A stored offset is not past the end of its file.
LEMMA RowWithinFile ==
  ASSUME CoreInv, NEW f \in Files, offsets[Fp(f)] # NoRow
  PROVE  HasFp(f) /\ offsets[Fp(f)] \in 0..MaxLines /\ offsets[Fp(f)] <= len[f]
<1>1. HasFp(f) /\ LinesOf(f, offsets[Fp(f)]) \subseteq Delivered
  BY DEF CoreInv, RowInv
<1>2. offsets[Fp(f)] \in 0..MaxLines /\ len[f] \in Nat
  BY RowTyped, KeyFacts DEF CoreInv, TypeOK
<1>3. CASE offsets[Fp(f)] = 0
  BY <1>1, <1>2, <1>3
<1>4. CASE offsets[Fp(f)] > 0
  <2>1. [file |-> f, n |-> offsets[Fp(f)]] \in Delivered
    BY <1>1, <1>2, <1>4 DEF LinesOf
  <2>2. PICK r \in shipped : LineOf(r) = [file |-> f, n |-> offsets[Fp(f)]]
    BY <2>1 DEF Delivered
  <2>3. r.file = f /\ r.n = offsets[Fp(f)]
    BY <2>2 DEF LineOf
  <2> QED
    BY <1>1, <1>2, <2>3 DEF CoreInv, TypeOK
<1> QED
  BY <1>2, <1>3, <1>4

LEMMA DiscoverAhead ==
  ASSUME CoreInv, AheadInv, Discover
  PROVE  AheadInv'
<1>1. /\ plans' = {[id |-> f, key |-> KeyOf(f), path |-> PathOf(f), at |-> Start(f)] :
                     f \in {g \in Present : PathOf(g) \in listed}}
      /\ pc = "discover" /\ pc' = "drain" /\ UNCHANGED <<offsets, records, newOffs>>
  BY DEF Discover, table
<1>2. ASSUME NEW f \in Present, offsets[Fp(f)] # NoRow
      PROVE  KeyOf(f) = Fp(f) /\ Start(f) = offsets[Fp(f)]
  BY <1>2, RowWithinFile DEF Present, KeyOf, Start, CoreInv, TypeOK
<1>3. \A p \in plans' : offsets[Fp(p.id)] # NoRow =>
        p.key = Fp(p.id) /\ offsets[Fp(p.id)] <= p.at
  <2> SUFFICES ASSUME NEW f \in Present, offsets[Fp(f)] # NoRow
               PROVE  KeyOf(f) = Fp(f) /\ offsets[Fp(f)] <= Start(f)
    BY <1>1
  <2>1. offsets[Fp(f)] \in 0..MaxLines
    BY RowWithinFile DEF Present
  <2> QED
    BY <1>2, <2>1
<1> QED
  BY <1>1, <1>3 DEF AheadInv, NotReshipped, Fp

\* A drained chunk begins where the plan stands, which is beyond the row.
LEMMA DrainChunkAhead ==
  ASSUME CoreInv, AheadInv, NEW p \in plans, DrainChunk(p)
  PROVE  AheadInv'
<1>1. PICK f \in Present, e \in Ends(p) :
        /\ PathOf(f) = p.path
        /\ records' = records \union
             {[file |-> f, n |-> i, name |-> p.path, file_offset |-> e] : i \in p.at + 1 .. e}
        /\ plans' = (plans \ {p}) \union {[p EXCEPT !.at = e]}
  BY DEF DrainChunk
<1>2. UNCHANGED <<offsets, pc, newOffs>> /\ pc = "drain"
  BY DEF DrainChunk, Turn, table
<1>3. p \in Plan /\ p.id \in Files /\ p.at \in 0..MaxLines /\ f = p.id
  BY <1>1 DEF CoreInv, TypeOK, Plan, PlanInv
<1>4. e \in Nat /\ p.at < e
  BY <1>3 DEF Ends
<1>5. offsets[Fp(p.id)] # NoRow =>
        p.key = Fp(p.id) /\ offsets[Fp(p.id)] <= p.at /\ offsets[Fp(p.id)] \in 0..MaxLines
  BY <1>3, RowWithinFile DEF AheadInv
<1>6. \A r \in records' : offsets[Fp(r.file)] # NoRow => r.n > offsets[Fp(r.file)]
  <2>1. \A r \in records : offsets[Fp(r.file)] # NoRow => r.n > offsets[Fp(r.file)]
    BY <1>2 DEF AheadInv, NotReshipped
  <2>2. \A i \in p.at + 1 .. e : offsets[Fp(f)] # NoRow => i > offsets[Fp(f)]
    BY <1>3, <1>4, <1>5
  <2> QED
    BY <1>1, <2>1, <2>2
<1>7. \A q \in plans' : offsets[Fp(q.id)] # NoRow =>
        q.key = Fp(q.id) /\ offsets[Fp(q.id)] <= q.at
  <2> DEFINE q == [p EXCEPT !.at = e]
  <2>1. q.id = p.id /\ q.key = p.key /\ q.at = e
    BY <1>3 DEF Plan
  <2>2. offsets[Fp(q.id)] # NoRow => q.key = Fp(q.id) /\ offsets[Fp(q.id)] <= q.at
    <3> HIDE DEF q
    <3> QED
      BY <1>3, <1>4, <1>5, <2>1
  <2>3. plans' \subseteq plans \union {q}
    BY <1>1
  <2> HIDE DEF q
  <2> QED
    BY <2>2, <2>3 DEF AheadInv
<1> QED
  BY <1>2, <1>6, <1>7 DEF AheadInv, NotReshipped, Fp

LEMMA DrainEndAhead ==
  ASSUME CoreInv, AheadInv, NEW p \in plans, DrainDone(p) \/ DrainFails(p)
  PROVE  AheadInv'
<1>1. /\ plans' = plans \ {p} /\ newOffs' = newOffs \union {[key |-> p.key, off |-> p.at]}
      /\ UNCHANGED <<offsets, records, pc>> /\ pc = "drain"
  BY DEF DrainDone, DrainFails, EndDrain, Turn, table
<1>2. p.key.by = "fp" /\ offsets[p.key] # NoRow => offsets[p.key] <= p.at
  BY DEF CoreInv, PlanInv, AheadInv
<1>3. \A o \in newOffs' : o.key.by = "fp" /\ offsets[o.key] # NoRow => offsets[o.key] <= o.off
  BY <1>1, <1>2 DEF AheadInv
<1> QED
  BY <1>1, <1>3 DEF AheadInv, NotReshipped, Fp

LEMMA NextAhead == CoreInv /\ AheadInv /\ [Next]_vars => AheadInv'
<1> SUFFICES ASSUME CoreInv, AheadInv, [Next]_vars PROVE AheadInv'
  OBVIOUS
<1>1. CASE Application \/ UNCHANGED vars
  <2>1. UNCHANGED <<offsets, plans, newOffs, records, pc>>
    BY <1>1 DEF Application, AppendLine, Rename, Create, Remove, table, locals, vars
  <2> QED
    BY <2>1, SameAhead
<1>2. CASE \/ Age \/ FinishDrain \/ Confirm \/ PutObject \/ \E d \in DryRuns : StartPoll(d)
           \/ \E path \in listed : Overlook(path)
  <2>1. UNCHANGED <<offsets, plans, newOffs, records>> /\ pc # "gc"
    BY <1>2 DEF Overlook, Age, FinishDrain, Drained, Confirm, PutObject, StartPoll, table, locals
  <2> QED
    BY <2>1, SameAhead
<1>3. CASE FinishEmpty \/ FinishDry \/ FinishPoll \/ Interrupt
  <2>1. UNCHANGED offsets /\ plans' = {} /\ newOffs' = {} /\ records' = {}
    BY <1>3 DEF FinishEmpty, FinishDry, FinishPoll, Interrupt, Return, table
  <2> QED
    BY <2>1, SameAhead
<1>4. CASE Discover
  BY <1>4, DiscoverAhead
<1>5. CASE \E p \in plans : DrainChunk(p) \/ DrainDone(p) \/ DrainFails(p)
  BY <1>5, DrainChunkAhead, DrainEndAhead
<1>6. CASE Commit \/ \E k \in Key : Collect(k)
  <2>1. pc # "drain" /\ pc' = "gc" /\ plans' = plans
    BY <1>6 DEF Commit, Collect, locals
  <2>2. plans' = {}
    BY <2>1 DEF CoreInv, PlanInv
  <2> QED
    BY <2>1, <2>2 DEF AheadInv, NotReshipped
<1> QED
  BY <1>1, <1>2, <1>3, <1>4, <1>5, <1>6 DEF Next, Agent

---------------------------------------------------------------------------
\* The invariant the runs check holds while rotation keeps clear of the drain.
THEOREM InvariantHolds == ASSUME ~CreateDuringPoll PROVE Spec => []IInv
<1>1. Init => CoreInv /\ AheadInv
  BY InitCoreInv DEF Init, AheadInv, NotReshipped
<1>2. (CoreInv /\ AheadInv) /\ [Next]_vars => (CoreInv /\ AheadInv)'
  BY NextCoreInv, NextAhead
<1>3. CoreInv /\ AheadInv => IInv
  BY NoLineSkippedFromRows DEF CoreInv, IInv
<1> QED
  BY <1>1, <1>2, <1>3, PTL DEF Spec

\* No line of a file that has a fingerprint is ever passed over: discover,
\* drain, upload, commit and gc together, whatever the rotation, the growth
\* of the files, the failures and the crashes.
THEOREM NeverSkips == ASSUME ~CreateDuringPoll PROVE Spec => []NoLineSkipped
<1>1. IInv => NoLineSkipped
  BY DEF IInv
<1> QED
  BY <1>1, InvariantHolds, PTL

\* A line once committed under its file's fingerprint is not uploaded again,
\* unless the row is collected.
THEOREM NeverReships == ASSUME ~CreateDuringPoll PROVE Spec => []NotReshipped
<1>1. IInv => NotReshipped
  BY DEF IInv, AheadInv
<1> QED
  BY <1>1, InvariantHolds, PTL

\* No commit moves a stored offset back.
THEOREM OffsetsOnlyAdvance == ASSUME ~CreateDuringPoll PROVE Spec => OffsetsAdvance
<1> DEFINE A == \A f \in Files : NoRow \notin {offsets[Fp(f)], offsets'[Fp(f)]}
                                  => offsets[Fp(f)] <= offsets'[Fp(f)]
<1>1. ASSUME IInv, [Next]_vars, NEW f \in Files,
             offsets[Fp(f)] # NoRow, offsets'[Fp(f)] # NoRow
      PROVE  offsets[Fp(f)] <= offsets'[Fp(f)]
  <2>1. offsets[Fp(f)] \in 0..MaxLines
    BY <1>1, RowWithinFile DEF IInv
  <2>2. CASE UNCHANGED offsets
    BY <2>1, <2>2
  <2>3. CASE Commit
    <3>1. pc # "gc" /\ Fp(f) \in Key
      BY <2>3, KeyFacts DEF Commit
    <3>2. CASE \E o \in newOffs : o.key = Fp(f) /\ offsets'[Fp(f)] = o.off
      BY <1>1, <3>1, <3>2, KeyFacts DEF IInv, AheadInv
    <3> QED
      BY <2>1, <2>3, <3>1, <3>2, CommitRow
  <2>4. CASE \E k \in Key : Collect(k)
    <3>1. PICK k \in Key : Collect(k)
      BY <2>4
    <3>2. offsets'[Fp(f)] = offsets[Fp(f)]
      BY <1>1, <3>1, KeyFacts DEF Collect, IInv, CoreInv, TypeOK
    <3> QED
      BY <2>1, <3>2
  <2>5. UNCHANGED offsets \/ Commit \/ \E k \in Key : Collect(k)
    BY <1>1 DEF Next, Agent, Application, AppendLine, Rename, Create, Remove, Age, StartPoll,
      Discover, Overlook, DrainChunk, DrainDone, DrainFails, EndDrain, FinishEmpty, FinishDrain, FinishDry, PutObject,
      Confirm, FinishPoll, Interrupt, table, vars
  <2> QED
    BY <2>2, <2>3, <2>4, <2>5
<1>2. IInv /\ [Next]_vars => [A]_vars
  BY <1>1
<1> QED
  BY <1>2, InvariantHolds, PTL DEF Spec, OffsetsAdvance

\* Behind the drain's position a line that is not in reach of a read has a line
\* too long for one before it.
LEMMA EndsReach ==
  ASSUME TypeOK, NEW p \in plans, Ends(p) = {},
         NEW f \in Present, PathOf(f) = p.path,
         NEW i \in 1 .. len[f], p.at < i
  PROVE  LinesOf(f, i) \intersect Long # {}
<1>1. p.at \in Nat /\ f \in Files /\ len[f] \in Nat
  BY DEF TypeOK, Plan, Present
<1>2. p.at + 1 \in p.at + 1 .. p.at + Window /\ p.at + 1 <= len[f]
  BY <1>1
<1>3. PICK j \in p.at + 1 .. p.at + 1 : [file |-> f, n |-> j] \in Long
  BY <1>1, <1>2 DEF Ends
<1>4. j \in 1 .. i
  BY <1>1, <1>3
<1> QED
  BY <1>3, <1>4 DEF LinesOf

\* A drain comes to the end of its file: no line that a read can take in is
\* left for the next poll.
THEOREM DrainReachesEnd == ASSUME ~CreateDuringPoll PROVE Spec => DrainCatchesUp
<1> DEFINE A == \A p \in plans, f \in Present :
                  DrainDone(p) /\ p.key.by = "fp" /\ PathOf(f) = p.path =>
                    \A l \in LinesOf(f, len[f]) :
                      LinesOf(f, l.n) \intersect Long = {} => l \in Delivered \union Taken
<1>1. ASSUME IInv, NEW p \in plans, NEW f \in Present,
             DrainDone(p), p.key.by = "fp", PathOf(f) = p.path,
             NEW l \in LinesOf(f, len[f]), LinesOf(f, l.n) \intersect Long = {}
      PROVE  l \in Delivered \union Taken
  <2>1. f = p.id /\ LinesOf(f, p.at) \subseteq Delivered \union Taken /\ TypeOK
    BY <1>1 DEF IInv, CoreInv, PlanInv
  <2>2. p.at \in Nat /\ l.n \in 1 .. len[f] /\ l = [file |-> f, n |-> l.n] /\ len[f] \in Nat
    BY <2>1 DEF TypeOK, Plan, Present, LinesOf
  <2>3. Ends(p) = {}
    BY <1>1 DEF DrainDone
  <2>4. l.n <= p.at
    BY <1>1, <2>1, <2>2, <2>3, EndsReach
  <2>5. l \in LinesOf(f, p.at)
    BY <2>2, <2>4 DEF LinesOf
  <2> QED
    BY <2>1, <2>5
<1>2. IInv => [A]_vars
  BY <1>1
<1>3. Spec => []IInv
  BY InvariantHolds
<1> QED
  BY <1>2, <1>3, PTL DEF DrainCatchesUp
=============================================================================
