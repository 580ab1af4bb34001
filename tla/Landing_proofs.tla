--------------------------- MODULE Landing_proofs ---------------------------
(***************************************************************************)
(* Proofs about Landing, for any hosts, items, versions and runs, whether  *)
(* runs overlap or not: while no two start in one second, nothing that was *)
(* committed is lost on the way to the raw table; and whatever the seconds *)
(* are, of two extractions of an item that hosts take turns at the later   *)
(* one has the newer version.  What the clean table owes to that holds but *)
(* for an item whose latest extraction shipped it in two versions.         *)
(***************************************************************************)
EXTENDS Landing, FiniteSetTheorems, WellFoundedInduction, TLAPS

USE LandingAssumption
USE DEF vars, source, run, s3, tables

\* The objects that wait for the pipe and the raw table together gain the
\* rows of a run when it stores its object, and nothing else.
LEMMA LandedGrows ==
  ASSUME TypeOK, RunsApart, NEW h \in Hosts, Put(h)
  PROVE  Landed' \subseteq Landed \union rows[h]
<1>1. sec[h] \in Second
  BY DEF Put, RunsApart, TypeOK, Second
<1>2. queue' \subseteq queue \union {sec[h]} /\ raw' = raw
  BY <1>1 DEF Put, KeyOf
<1>3. bucket'[sec[h]] = rows[h] /\ \A s \in queue : s # sec[h] => bucket'[s] = bucket[s]
  BY <1>1 DEF Put, KeyOf, TypeOK
<1> QED
  BY <1>2, <1>3 DEF Landed, Waiting

\* Where no other object has the key of the run, they lose nothing.
LEMMA LandedAfterPut ==
  ASSUME TypeOK, RunsApart, KeysFresh, NEW h \in Hosts, Put(h)
  PROVE  Landed' = Landed \union rows[h]
<1>1. sec[h] \in Second /\ sec[h] \notin queue \union loaded
  BY DEF Put, RunsApart, KeysFresh, TypeOK, Second
<1>2. queue' = queue \union {sec[h]} /\ raw' = raw
  BY <1>1 DEF Put, KeyOf
<1>3. bucket'[sec[h]] = rows[h] /\ \A s \in queue : bucket'[s] = bucket[s]
  BY <1>1 DEF Put, KeyOf, TypeOK
<1> QED
  BY <1>2, <1>3 DEF Landed, Waiting

LEMMA LandedAfterLoad ==
  ASSUME NEW s \in Second, Load(s)
  PROVE  Landed' = Landed
  BY DEF Load, Landed, Waiting

LEMMA LandedOtherwise ==
  ASSUME UNCHANGED <<bucket, queue, raw>>
  PROVE  Landed' = Landed
  BY DEF Landed, Waiting

LEMMA LandedTyped == TypeOK => Landed \subseteq Row
  BY DEF TypeOK, Landed, Waiting

\* A set of versions has a newest one.
LEMMA NewestVersion ==
  ASSUME NEW N, N \subseteq 0..MaxVersion, N # {}
  PROVE  \E m \in N : \A n \in N : n <= m
<1> DEFINE T == {n .. MaxVersion : n \in N}
<1>1. T \subseteq FiniteSubsetsOf(Nat) /\ T # {}
  <2>1. ASSUME NEW n \in N PROVE n .. MaxVersion \in FiniteSubsetsOf(Nat)
    <3>1. IsFiniteSet(n .. MaxVersion)
      BY FS_Interval
    <3>2. n .. MaxVersion \in SUBSET Nat
      OBVIOUS
    <3> QED
      BY <3>1, <3>2 DEF FiniteSubsetsOf
  <2> QED
    BY <2>1
<1>2. IsWellFoundedOn(StrictSubsetOrdering(Nat), FiniteSubsetsOf(Nat))
  BY FS_StrictSubsetOrderingWellFounded
<1> HIDE DEF T
<1>3. \E x \in T : \A y \in T : ~(<<y, x>> \in StrictSubsetOrdering(Nat))
  BY <1>1, <1>2, WFMin
<1>4. PICK m \in N : \A y \in T : ~(<<y, m .. MaxVersion>> \in StrictSubsetOrdering(Nat))
  BY <1>3 DEF T
<1>5. ASSUME NEW n \in N, m < n PROVE FALSE
  <2>1. /\ n .. MaxVersion \in T /\ n .. MaxVersion \subseteq m .. MaxVersion
        /\ m \in m .. MaxVersion /\ m \notin n .. MaxVersion
    BY <1>5 DEF T
  <2>2. /\ n .. MaxVersion # m .. MaxVersion
        /\ n .. MaxVersion \in SUBSET Nat /\ m .. MaxVersion \in SUBSET Nat
    BY <1>5, <2>1
  <2>3. <<n .. MaxVersion, m .. MaxVersion>> \in StrictSubsetOrdering(Nat)
    BY <2>1, <2>2 DEF StrictSubsetOrdering
  <2> QED
    BY <1>4, <2>1, <2>3
<1> QED
  BY <1>4, <1>5

\* What a run commits of an item is a version it has read, or the one its host
\* had committed before.
LEMMA ReachedIs ==
  ASSUME TypeOK, NEW h \in Hosts, NEW i \in Items
  PROVE  /\ Reached(h, i) \in 0..MaxVersion
         /\ \/ Reached(h, i) = mark[h][i]
            \/ \E r \in rows[h] : r.item = i /\ r.version = Reached(h, i)
<1> DEFINE read == {r.version : r \in {q \in rows[h] : q.item = i}}
<1>1. read \subseteq 0..MaxVersion /\ mark[h][i] \in 0..MaxVersion
  BY DEF TypeOK, Row, Version
<1>2. Reached(h, i) = IF read = {} THEN mark[h][i]
                      ELSE CHOOSE n \in read : \A m \in read : m <= n
  BY DEF Reached
<1>3. ASSUME NEW n \in read PROVE \E r \in rows[h] : r.item = i /\ r.version = n
  OBVIOUS
<1> HIDE DEF read
<1>4. read # {} => \E n \in read : \A m \in read : m <= n
  BY <1>1, NewestVersion
<1>5. read # {} => Reached(h, i) \in read
  BY <1>2, <1>4
<1> QED
  BY <1>1, <1>2, <1>3, <1>5

\* Every step keeps the types.
LEMMA TypeStep ==
  ASSUME TypeOK, RunsApart, [Next]_vars
  PROVE  TypeOK'
<1>1. CASE UNCHANGED vars
  BY <1>1 DEF TypeOK, Second, RunsApart
<1>2. ASSUME NEW i \in Items, Update(i) PROVE TypeOK'
  BY <1>2 DEF Update, TypeOK, Second, RunsApart
<1>3. ASSUME NEW h \in Hosts, Start(h) PROVE TypeOK'
  <2>1. starts + 1 \in 0..MaxRuns /\ second + 1 \in 0..MaxRuns
    BY <1>3 DEF Start, TypeOK, RunsApart
  <2>2. starts' \in 0..MaxRuns /\ second' \in 0..MaxRuns
    BY <1>3, <2>1 DEF Start, TypeOK
  <2>3. phase' \in [Hosts -> {"idle", "reading", "stored"}]
    BY <1>3 DEF Start, TypeOK
  <2>4. at' \in [Hosts -> 0..MaxRuns] /\ sec' \in [Hosts -> 0..MaxRuns]
    BY <1>3, <2>2 DEF Start, TypeOK
  <2>5. Newer(h) \in SUBSET Items
    BY DEF Newer
  <2>6. todo' = [todo EXCEPT ![h] = Newer(h)]
    BY <1>3 DEF Start
  <2>8. todo \in [Hosts -> SUBSET Items]
    BY DEF TypeOK
  <2>9. todo' \in [Hosts -> SUBSET Items]
    BY <2>5, <2>6, <2>8
  <2> QED
    BY <1>3, <2>2, <2>3, <2>4, <2>9 DEF Start, TypeOK
<1>4. ASSUME NEW h \in Hosts, Read(h) PROVE TypeOK'
  <2>1. PICK i \in Existing(h) :
          rows' = [rows EXCEPT ![h] = @ \union
                     {[item |-> i, version |-> version[i], at |-> ExtractedAt(h)]}]
    BY <1>4 DEF Read
  <2>2. i \in Items
    BY DEF Existing
  <2>3. version[i] \in Version
    BY <2>2 DEF TypeOK, Existing, Version
  <2>4. ExtractedAt(h) \in 1..MaxRuns
    BY <1>4 DEF Read, RunsApart, ExtractedAt, TypeOK
  <2>5. rows' \in [Hosts -> SUBSET Row]
    BY <2>1, <2>2, <2>3, <2>4 DEF TypeOK, Row
  <2>6. todo' \in [Hosts -> SUBSET Items]
    BY <1>4 DEF Read, TypeOK
  <2> QED
    BY <1>4, <2>5, <2>6 DEF Read, TypeOK
<1>5. ASSUME NEW h \in Hosts, Put(h) PROVE TypeOK'
  <2>1. sec[h] \in Second
    BY <1>5 DEF Put, RunsApart, TypeOK, Second
  <2>2. bucket' \in [Second -> SUBSET Row]
    BY <1>5, <2>1 DEF Put, KeyOf, TypeOK
  <2>3. queue' \subseteq Second
    BY <1>5, <2>1 DEF Put, KeyOf, TypeOK
  <2> QED
    BY <1>5, <2>2, <2>3 DEF Put, TypeOK
<1>6. ASSUME NEW h \in Hosts, Commit(h) PROVE TypeOK'
  <2>1. ASSUME NEW i \in Items PROVE Reached(h, i) \in 0..MaxVersion
    BY ReachedIs
  <2>2. mark' \in [Hosts -> [Items -> 0..MaxVersion]]
    BY <1>6, <2>1 DEF Commit, TypeOK
  <2> QED
    BY <1>6, <2>2 DEF Commit, Idle, TypeOK
<1>7. ASSUME NEW h \in Hosts, FinishEmpty(h) PROVE TypeOK'
  BY <1>7 DEF FinishEmpty, Idle, TypeOK, Second, RunsApart
<1>8. ASSUME NEW h \in Hosts, Fail(h) PROVE TypeOK'
  BY <1>8 DEF Fail, Idle, TypeOK, Second, RunsApart
<1>9. ASSUME NEW s \in Second, Load(s) PROVE TypeOK'
  BY <1>9 DEF Load, TypeOK, Second, RunsApart
<1>10. CASE Stage
  BY <1>10 DEF Stage, TypeOK, Second, RunsApart
<1>11. CASE Merge
  <2>1. ASSUME NEW i \in Items, \E r \in staged : r.item = i
        PROVE  (CHOOSE r \in staged : r.item = i).version \in 0..MaxVersion
    BY <2>1 DEF TypeOK, Row, Version
  <2>2. target' \in [Items -> 0..MaxVersion]
    BY <1>11, <2>1 DEF Merge, TypeOK
  <2> QED
    BY <1>11, <2>2 DEF Merge, TypeOK
<1> QED
  BY <1>1, <1>2, <1>3, <1>4, <1>5, <1>6, <1>7, <1>8, <1>9, <1>10, <1>11 DEF
     Next, Agent

\* Runs have starts of their own, and hosts keep to their turns.
LEMMA RunsStep ==
  ASSUME TypeOK, RunsApart, [Next]_vars
  PROVE  RunsApart'
<1>1. CASE UNCHANGED vars
  BY <1>1 DEF RunsApart, TypeOK, Second
<1>2. ASSUME NEW i \in Items, Update(i) PROVE RunsApart'
  BY <1>2 DEF Update, RunsApart, TypeOK, Second
<1>3. ASSUME NEW h \in Hosts, Start(h) PROVE RunsApart'
  BY <1>3 DEF Start, RunsApart, TypeOK, Second
<1>4. ASSUME NEW h \in Hosts, Read(h) PROVE RunsApart'
  <2>1. PICK i \in Existing(h) :
          /\ todo' = [todo EXCEPT ![h] = @ \ {i}]
          /\ rows' = [rows EXCEPT ![h] = @ \union
                        {[item |-> i, version |-> version[i], at |-> ExtractedAt(h)]}]
    BY <1>4 DEF Read
  <2>2. phase[h] # "idle" /\ i \in Sees[h]
    BY <1>4 DEF Read, Existing
  <2>3. \A g \in Hosts : \A r \in rows'[g] : r \in rows[g] \/ (g = h /\ r.item = i)
    BY <2>1 DEF TypeOK
  <2>4. \A g \in Hosts : phase[g] = "idle" => todo'[g] = {} /\ rows'[g] = {}
    BY <2>1, <2>2 DEF RunsApart, TypeOK
  <2>5. \A g \in Hosts : phase[g] # "idle" => \A r \in rows'[g] : r.item \in Sees[g]
    BY <2>2, <2>3 DEF RunsApart
  <2>6. UNCHANGED <<phase, at, sec, starts, second, solo>>
    BY <1>4 DEF Read
  <2> QED
    BY <2>4, <2>5, <2>6 DEF RunsApart
<1>5. ASSUME NEW h \in Hosts, Put(h) PROVE RunsApart'
  BY <1>5 DEF Put, KeyOf, RunsApart, TypeOK, Second
<1>6. ASSUME NEW h \in Hosts, Commit(h) PROVE RunsApart'
  BY <1>6 DEF Commit, Idle, RunsApart, TypeOK, Second
<1>7. ASSUME NEW h \in Hosts, FinishEmpty(h) PROVE RunsApart'
  BY <1>7 DEF FinishEmpty, Idle, RunsApart, TypeOK, Second
<1>8. ASSUME NEW h \in Hosts, Fail(h) PROVE RunsApart'
  BY <1>8 DEF Fail, Idle, RunsApart, TypeOK, Second
<1>9. ASSUME NEW s \in Second, Load(s) PROVE RunsApart'
  BY <1>9 DEF Load, RunsApart, TypeOK, Second
<1>10. CASE Stage
  BY <1>10 DEF Stage, RunsApart, TypeOK, Second
<1>11. CASE Merge
  BY <1>11 DEF Merge, RunsApart, TypeOK, Second
<1> QED
  BY <1>1, <1>2, <1>3, <1>4, <1>5, <1>6, <1>7, <1>8, <1>9, <1>10, <1>11 DEF
     Next, Agent

\* Each run has a key of its own.
LEMMA KeysStep ==
  ASSUME TypeOK, RunsApart, KeysFresh, SecondsApart, [Next]_vars
  PROVE  KeysFresh'
<1>1. CASE UNCHANGED vars
  BY <1>1 DEF RunsApart, KeysFresh, TypeOK, Second
<1>2. ASSUME NEW i \in Items, Update(i) PROVE KeysFresh'
  BY <1>2 DEF Update, RunsApart, KeysFresh, TypeOK, Second
<1>3. ASSUME NEW h \in Hosts, Start(h) PROVE KeysFresh'
  BY <1>3 DEF Start, RunsApart, KeysFresh, TypeOK, Second
<1>4. ASSUME NEW h \in Hosts, Read(h) PROVE KeysFresh'
  BY <1>4 DEF Read, ExtractedAt, RunsApart, KeysFresh, TypeOK, Second
<1>5. ASSUME NEW h \in Hosts, Put(h) PROVE KeysFresh'
  BY <1>5 DEF Put, KeyOf, RunsApart, KeysFresh, TypeOK, Second
<1>6. ASSUME NEW h \in Hosts, Commit(h) PROVE KeysFresh'
  BY <1>6 DEF Commit, Idle, RunsApart, KeysFresh, TypeOK, Second
<1>7. ASSUME NEW h \in Hosts, FinishEmpty(h) PROVE KeysFresh'
  BY <1>7 DEF FinishEmpty, Idle, RunsApart, KeysFresh, TypeOK, Second
<1>8. ASSUME NEW h \in Hosts, Fail(h) PROVE KeysFresh'
  BY <1>8 DEF Fail, Idle, RunsApart, KeysFresh, TypeOK, Second
<1>9. ASSUME NEW s \in Second, Load(s) PROVE KeysFresh'
  BY <1>9 DEF Load, RunsApart, KeysFresh, TypeOK, Second
<1>10. CASE Stage
  BY <1>10 DEF Stage, RunsApart, KeysFresh, TypeOK, Second
<1>11. CASE Merge
  BY <1>11 DEF Merge, RunsApart, KeysFresh, TypeOK, Second
<1> QED
  BY <1>1, <1>2, <1>3, <1>4, <1>5, <1>6, <1>7, <1>8, <1>9, <1>10, <1>11 DEF
     Next, Agent

\* Rows are as new as the source when they were read.
LEMMA RowsStep ==
  ASSUME TypeOK, RunsApart, RowsCurrent, [Next]_vars
  PROVE  RowsCurrent'
<1>1. CASE UNCHANGED vars
  BY LandedTyped, LandedOtherwise, <1>1 DEF RunsApart, RowsCurrent, TypeOK, Row, Version
<1>2. ASSUME NEW i \in Items, Update(i) PROVE RowsCurrent'
  BY LandedTyped, LandedOtherwise, <1>2 DEF Update, RunsApart, RowsCurrent, TypeOK, Row, Version
<1>3. ASSUME NEW h \in Hosts, Start(h) PROVE RowsCurrent'
  BY LandedTyped, LandedOtherwise, <1>3 DEF Start, RunsApart, RowsCurrent, TypeOK, Row, Version
<1>4. ASSUME NEW h \in Hosts, Read(h) PROVE RowsCurrent'
  <2>1. PICK i \in Existing(h) :
          rows' = [rows EXCEPT ![h] = @ \union
                     {[item |-> i, version |-> version[i], at |-> ExtractedAt(h)]}]
    BY <1>4 DEF Read
  <2>2. /\ UNCHANGED <<phase, at, version, starts, solo>> /\ Landed' = Landed
        /\ Landed \subseteq Row /\ i \in Items
    BY <1>4, LandedTyped, LandedOtherwise DEF Read, Existing
  <2>3. version[i] <= version[i]
    BY <2>2 DEF TypeOK
  <2>4. \A g \in Hosts : \A r \in rows'[g] :
          r \in rows[g] \/ (g = h /\ r.item = i /\ r.version = version[i] /\ r.at = at[h])
    BY <2>1 DEF ExtractedAt, TypeOK
  <2>5. \A g \in Hosts : \A r \in rows'[g] : r.version <= version[r.item] /\ r.at = at[g]
    BY <2>3, <2>4 DEF RowsCurrent
  <2>6. \A g \in Hosts : \A r \in rows'[g] : r.item \in solo =>
          \A q \in Landed : q.item = r.item /\ q.at # r.at => q.version <= r.version
    BY <2>4 DEF RowsCurrent
  <2> QED
    BY <2>2, <2>5, <2>6 DEF RowsCurrent
<1>5. ASSUME NEW h \in Hosts, Put(h) PROVE RowsCurrent'
  <2>1. Landed' \subseteq Landed \union rows[h] /\ rows[h] \subseteq Row
    BY <1>5, LandedGrows DEF TypeOK
  <2>2. /\ version' = version /\ starts' = starts /\ rows' = rows /\ at' = at
        /\ solo' = solo
    BY <1>5 DEF Put
  <2>3. \A g \in Hosts : phase'[g] = "reading" => phase[g] = "reading" /\ g # h
    BY <1>5 DEF Put, TypeOK
  <2>4. phase[h] # "idle" /\ at[h] <= starts
    BY <1>5 DEF Put, RunsApart, TypeOK
  <2>5. \A r \in rows[h] :
          r.version <= version[r.item] /\ r.at = at[h] /\ r.item \in Sees[h]
    BY <2>4 DEF RowsCurrent, RunsApart
  <2>6. ASSUME NEW r \in Landed' PROVE r.version <= version[r.item] /\ r.at <= starts
    BY <2>1, <2>4, <2>5 DEF RowsCurrent
  <2>7. ASSUME NEW r \in Landed', NEW g \in Hosts, phase'[g] = "reading",
               r.item \in Sees[g] \intersect solo
        PROVE  r.at < at[g]
    <3>1. phase[g] = "reading" /\ g # h
      BY <2>3, <2>7
    <3>2. r \notin rows[h]
      BY <2>4, <2>5, <2>7, <3>1 DEF RunsApart
    <3> QED
      BY <2>1, <2>7, <3>1, <3>2 DEF RowsCurrent
  <2>8. ASSUME NEW g \in Hosts, NEW r \in rows[g], r.item \in solo,
               NEW q \in Landed', q.item = r.item, q.at # r.at
        PROVE  q.version <= r.version
    <3>1. CASE q \in Landed
      BY <2>8, <3>1 DEF RowsCurrent
    <3>2. CASE q \in rows[h]
      <4>1. phase[g] # "idle" /\ r.item \in Sees[g]
        BY <2>8 DEF RunsApart
      <4>2. g = h
        BY <2>4, <2>5, <2>8, <3>2, <4>1 DEF RunsApart
      <4> QED
        BY <2>5, <2>8, <3>2, <4>2
    <3> QED
      BY <2>1, <3>1, <3>2
  <2>9. ASSUME NEW g \in Hosts, NEW r \in rows[g]
        PROVE  r.version <= version[r.item] /\ r.at = at[g]
    BY DEF RowsCurrent
  <2> QED
    BY <2>2, <2>6, <2>7, <2>8, <2>9 DEF RowsCurrent
<1>6. ASSUME NEW h \in Hosts, Commit(h) PROVE RowsCurrent'
  BY LandedTyped, LandedOtherwise, <1>6 DEF Commit, Idle, RunsApart, RowsCurrent, TypeOK, Row, Version
<1>7. ASSUME NEW h \in Hosts, FinishEmpty(h) PROVE RowsCurrent'
  BY LandedTyped, LandedOtherwise, <1>7 DEF FinishEmpty, Idle, RunsApart, RowsCurrent, TypeOK, Row, Version
<1>8. ASSUME NEW h \in Hosts, Fail(h) PROVE RowsCurrent'
  BY LandedTyped, LandedOtherwise, <1>8 DEF Fail, Idle, RunsApart, RowsCurrent, TypeOK, Row, Version
<1>9. ASSUME NEW s \in Second, Load(s) PROVE RowsCurrent'
  BY LandedTyped, LandedAfterLoad, <1>9 DEF Load, RunsApart, RowsCurrent, TypeOK, Row, Version
<1>10. CASE Stage
  BY LandedTyped, LandedOtherwise, <1>10 DEF Stage, RunsApart, RowsCurrent, TypeOK, Row, Version
<1>11. CASE Merge
  BY LandedTyped, LandedOtherwise, <1>11 DEF Merge, RunsApart, RowsCurrent, TypeOK, Row, Version
<1> QED
  BY <1>1, <1>2, <1>3, <1>4, <1>5, <1>6, <1>7, <1>8, <1>9, <1>10, <1>11 DEF
     Next, Agent

\* What a run commits has landed.
LEMMA StoredStep ==
  ASSUME TypeOK, RunsApart, KeysFresh, StoredLanded, [Next]_vars
  PROVE  StoredLanded'
<1>1. CASE UNCHANGED vars
  BY LandedOtherwise, <1>1 DEF StoredLanded, TypeOK
<1>2. ASSUME NEW i \in Items, Update(i) PROVE StoredLanded'
  BY LandedOtherwise, <1>2 DEF Update, StoredLanded, TypeOK
<1>3. ASSUME NEW h \in Hosts, Start(h) PROVE StoredLanded'
  BY LandedOtherwise, <1>3 DEF Start, StoredLanded, TypeOK
<1>4. ASSUME NEW h \in Hosts, Read(h) PROVE StoredLanded'
  BY LandedOtherwise, <1>4 DEF Read, ExtractedAt, StoredLanded, TypeOK
<1>5. ASSUME NEW h \in Hosts, Put(h) PROVE StoredLanded'
  BY LandedAfterPut, <1>5 DEF Put, KeyOf, StoredLanded, TypeOK
<1>6. ASSUME NEW h \in Hosts, Commit(h) PROVE StoredLanded'
  BY LandedOtherwise, <1>6 DEF Commit, Idle, StoredLanded, TypeOK
<1>7. ASSUME NEW h \in Hosts, FinishEmpty(h) PROVE StoredLanded'
  BY LandedOtherwise, <1>7 DEF FinishEmpty, Idle, StoredLanded, TypeOK
<1>8. ASSUME NEW h \in Hosts, Fail(h) PROVE StoredLanded'
  BY LandedOtherwise, <1>8 DEF Fail, Idle, StoredLanded, TypeOK
<1>9. ASSUME NEW s \in Second, Load(s) PROVE StoredLanded'
  BY LandedAfterLoad, <1>9 DEF Load, StoredLanded, TypeOK
<1>10. CASE Stage
  BY LandedOtherwise, <1>10 DEF Stage, StoredLanded, TypeOK
<1>11. CASE Merge
  BY LandedOtherwise, <1>11 DEF Merge, StoredLanded, TypeOK
<1> QED
  BY <1>1, <1>2, <1>3, <1>4, <1>5, <1>6, <1>7, <1>8, <1>9, <1>10, <1>11 DEF
     Next, Agent

\* The rows that back a host's commits stay.
LEMMA LostStep ==
  ASSUME TypeOK, RunsApart, KeysFresh, StoredLanded, NothingLost, [Next]_vars
  PROVE  NothingLost'
<1>1. CASE UNCHANGED vars
  BY LandedTyped, LandedOtherwise, <1>1 DEF NothingLost, StoredLanded, TypeOK, Row, Version
<1>2. ASSUME NEW i \in Items, Update(i) PROVE NothingLost'
  BY LandedTyped, LandedOtherwise, <1>2 DEF Update, NothingLost, StoredLanded, TypeOK, Row, Version
<1>3. ASSUME NEW h \in Hosts, Start(h) PROVE NothingLost'
  BY LandedTyped, LandedOtherwise, <1>3 DEF Start, NothingLost, StoredLanded, TypeOK, Row, Version
<1>4. ASSUME NEW h \in Hosts, Read(h) PROVE NothingLost'
  BY LandedTyped, LandedOtherwise, <1>4 DEF Read, ExtractedAt, NothingLost, StoredLanded, TypeOK, Row, Version
<1>5. ASSUME NEW h \in Hosts, Put(h) PROVE NothingLost'
  BY LandedTyped, LandedAfterPut, <1>5 DEF Put, KeyOf, NothingLost, StoredLanded, TypeOK, Row, Version
<1>6. ASSUME NEW h \in Hosts, Commit(h) PROVE NothingLost'
  <2>1. /\ rows[h] \subseteq Landed /\ Landed' = Landed /\ Landed \subseteq Row
        /\ mark' = [mark EXCEPT ![h] = [i \in Items |-> Reached(h, i)]]
    BY <1>6, LandedTyped, LandedOtherwise DEF Commit, StoredLanded
  <2> SUFFICES ASSUME NEW g \in Hosts, NEW i \in Items, mark'[g][i] > 0
               PROVE  \E r \in Landed : r.item = i /\ r.version >= mark'[g][i]
    BY <2>1 DEF NothingLost
  <2>2. CASE mark'[g][i] = mark[g][i]
    BY <2>2 DEF NothingLost
  <2>3. CASE mark'[g][i] # mark[g][i]
    <3>1. g = h /\ mark'[g][i] = Reached(h, i)
      BY <2>1, <2>3 DEF TypeOK
    <3>2. PICK r \in rows[h] : r.item = i /\ r.version = Reached(h, i)
      BY <2>3, <3>1, ReachedIs
    <3>3. Reached(h, i) >= Reached(h, i)
      BY ReachedIs
    <3> QED
      BY <2>1, <3>1, <3>2, <3>3
  <2> QED
    BY <2>2, <2>3
<1>7. ASSUME NEW h \in Hosts, FinishEmpty(h) PROVE NothingLost'
  BY LandedTyped, LandedOtherwise, <1>7 DEF FinishEmpty, Idle, NothingLost, StoredLanded, TypeOK, Row, Version
<1>8. ASSUME NEW h \in Hosts, Fail(h) PROVE NothingLost'
  BY LandedTyped, LandedOtherwise, <1>8 DEF Fail, Idle, NothingLost, StoredLanded, TypeOK, Row, Version
<1>9. ASSUME NEW s \in Second, Load(s) PROVE NothingLost'
  BY LandedTyped, LandedAfterLoad, <1>9 DEF Load, NothingLost, StoredLanded, TypeOK, Row, Version
<1>10. CASE Stage
  BY LandedTyped, LandedOtherwise, <1>10 DEF Stage, NothingLost, StoredLanded, TypeOK, Row, Version
<1>11. CASE Merge
  BY LandedTyped, LandedOtherwise, <1>11 DEF Merge, NothingLost, StoredLanded, TypeOK, Row, Version
<1> QED
  BY <1>1, <1>2, <1>3, <1>4, <1>5, <1>6, <1>7, <1>8, <1>9, <1>10, <1>11 DEF
     Next, Agent

\* A run's rows are the latest and the newest of their items.
LEMMA LatestStep ==
  ASSUME TypeOK, RunsApart, RowsCurrent, LatestIsNewest, [Next]_vars
  PROVE  LatestIsNewest'
<1>1. CASE UNCHANGED vars
  BY LandedTyped, LandedOtherwise, <1>1 DEF LatestIsNewest, RowsCurrent, TypeOK, Row, Version
<1>2. ASSUME NEW i \in Items, Update(i) PROVE LatestIsNewest'
  BY LandedTyped, LandedOtherwise, <1>2 DEF Update, LatestIsNewest, RowsCurrent, TypeOK, Row, Version
<1>3. ASSUME NEW h \in Hosts, Start(h) PROVE LatestIsNewest'
  BY LandedTyped, LandedOtherwise, <1>3 DEF Start, LatestIsNewest, RowsCurrent, TypeOK, Row, Version
<1>4. ASSUME NEW h \in Hosts, Read(h) PROVE LatestIsNewest'
  BY LandedTyped, LandedOtherwise, <1>4 DEF Read, ExtractedAt, LatestIsNewest, RowsCurrent, TypeOK, Row, Version
<1>5. ASSUME NEW h \in Hosts, Put(h) PROVE LatestIsNewest'
  <2>1. Landed' \subseteq Landed \union rows[h] /\ rows[h] \subseteq Row
    BY <1>5, LandedGrows DEF TypeOK
  <2>2. phase[h] = "reading" /\ solo' = solo /\ at[h] \in Nat
    BY <1>5 DEF Put, TypeOK
  <2>3. \A r \in rows[h] : r.at = at[h] /\ r.item \in Sees[h]
    BY <2>2 DEF RowsCurrent, RunsApart
  <2>4. \A q \in Landed : q.item \in Sees[h] \intersect solo => q.at < at[h]
    BY <2>2 DEF RowsCurrent
  <2>5. \A r \in rows[h] : r.item \in solo =>
          \A q \in Landed : q.item = r.item /\ q.at # r.at => q.version <= r.version
    BY DEF RowsCurrent
  <2>7. \A r \in Landed' : r.at \in Nat /\ r.version \in Nat
    BY <2>1, LandedTyped DEF Row, Version
  <2>8. ASSUME NEW r \in Landed', NEW q \in Landed', r.item = q.item, r.item \in solo
        PROVE  r.at > q.at => r.version >= q.version
    <3>1. CASE r \in Landed /\ q \in Landed
      BY <2>8, <3>1 DEF LatestIsNewest
    <3>2. CASE r \in rows[h] /\ q \in rows[h]
      BY <2>3, <2>8, <3>2, <2>2
    <3>3. CASE r \in rows[h] /\ q \in Landed
      BY <2>2, <2>8, <3>3, <2>3, <2>4, <2>5, <2>7
    <3>4. CASE r \in Landed /\ q \in rows[h]
      BY <2>2, <2>8, <3>4, <2>3, <2>4, <2>5, <2>7
    <3> QED
      BY <2>1, <3>1, <3>2, <3>3, <3>4
  <2> QED
    BY <2>2, <2>8 DEF LatestIsNewest
<1>6. ASSUME NEW h \in Hosts, Commit(h) PROVE LatestIsNewest'
  BY LandedTyped, LandedOtherwise, <1>6 DEF Commit, Idle, LatestIsNewest, RowsCurrent, TypeOK, Row, Version
<1>7. ASSUME NEW h \in Hosts, FinishEmpty(h) PROVE LatestIsNewest'
  BY LandedTyped, LandedOtherwise, <1>7 DEF FinishEmpty, Idle, LatestIsNewest, RowsCurrent, TypeOK, Row, Version
<1>8. ASSUME NEW h \in Hosts, Fail(h) PROVE LatestIsNewest'
  BY LandedTyped, LandedOtherwise, <1>8 DEF Fail, Idle, LatestIsNewest, RowsCurrent, TypeOK, Row, Version
<1>9. ASSUME NEW s \in Second, Load(s) PROVE LatestIsNewest'
  BY LandedTyped, LandedAfterLoad, <1>9 DEF Load, LatestIsNewest, RowsCurrent, TypeOK, Row, Version
<1>10. CASE Stage
  BY LandedTyped, LandedOtherwise, <1>10 DEF Stage, LatestIsNewest, RowsCurrent, TypeOK, Row, Version
<1>11. CASE Merge
  BY LandedTyped, LandedOtherwise, <1>11 DEF Merge, LatestIsNewest, RowsCurrent, TypeOK, Row, Version
<1> QED
  BY <1>1, <1>2, <1>3, <1>4, <1>5, <1>6, <1>7, <1>8, <1>9, <1>10, <1>11 DEF
     Next, Agent

\* What was merged came from a row extracted no later than the one that is
\* staged now: the staged rows are the latest of their items, and the raw table
\* only grows.
LEMMA StagedStep ==
  ASSUME TypeOK, StagedCurrent, [Next]_vars
  PROVE  StagedCurrent'
<1>1. CASE UNCHANGED <<staged, target, raw>>
  BY <1>1 DEF StagedCurrent
<1>2. ASSUME NEW n \in Second, Load(n) PROVE StagedCurrent'
  BY <1>2 DEF Load, StagedCurrent
<1>3. CASE Stage
  <2>1. /\ target' = target /\ raw' = raw
        /\ staged' \subseteq raw /\ \A r \in staged' : Latest(r)
        /\ \A r, s \in staged' : r.item = s.item => r = s
        /\ \A r \in raw : \E s \in staged' : s.item = r.item
    BY <1>3 DEF Stage
  <2>2. ASSUME NEW i \in Items, target[i] # 0
        PROVE  \E s \in staged', r \in raw :
                 s.item = i /\ r.item = i /\ r.version = target[i] /\ r.at <= s.at
    <3>1. PICK r \in raw : r.item = i /\ r.version = target[i]
      BY <2>2 DEF StagedCurrent
    <3>2. PICK s \in staged' : s.item = i
      BY <2>1, <3>1
    <3>3. r.at <= s.at
      BY <2>1, <3>1, <3>2 DEF Latest
    <3> QED
      BY <3>1, <3>2, <3>3
  <2> QED
    BY <2>1, <2>2 DEF StagedCurrent
<1>4. CASE Merge
  <2>1. /\ staged' = staged /\ raw' = raw /\ staged \subseteq raw /\ raw \subseteq Row
    BY <1>4 DEF Merge, TypeOK
  <2>2. ASSUME NEW i \in Items, target'[i] # 0
        PROVE  \E s \in staged, r \in raw :
                 s.item = i /\ r.item = i /\ r.version = target'[i] /\ r.at <= s.at
    <3>1. CASE \E s \in staged : s.item = i
      <4>1. PICK s \in staged : s = CHOOSE r \in staged : r.item = i
        BY <3>1
      <4>2. s.item = i /\ target'[i] = s.version
        BY <1>4, <3>1, <4>1 DEF Merge
      <4>3. s \in raw /\ s.at <= s.at
        BY <2>1 DEF Row
      <4> QED
        BY <4>2, <4>3
    <3>2. CASE ~\E s \in staged : s.item = i
      <4>1. target'[i] = target[i]
        BY <1>4, <3>2 DEF Merge
      <4> QED
        BY <2>2, <3>2, <4>1 DEF StagedCurrent
    <3> QED
      BY <3>1, <3>2
  <2> QED
    BY <2>1, <2>2 DEF StagedCurrent
<1> QED
  BY <1>1, <1>2, <1>3, <1>4 DEF Next, Update, Start, Agent, Read, Put, Commit, FinishEmpty,
     Fail

LEMMA InitIInv == Init => IInv
<1> SUFFICES ASSUME Init PROVE IInv
  OBVIOUS
<1>1. Landed = {}
  BY DEF Init, Landed, Waiting
<1>2. TypeOK
  BY DEF Init, TypeOK
<1>3. RunsApart /\ KeysFresh /\ StoredLanded
  BY DEF Init, RunsApart, KeysFresh, StoredLanded
<1>4. RowsCurrent /\ NothingLost /\ LatestIsNewest
  BY <1>1 DEF Init, RowsCurrent, NothingLost, LatestIsNewest
<1>5. StagedCurrent
  BY DEF Init, StagedCurrent
<1> QED
  BY <1>2, <1>3, <1>4, <1>5 DEF IInv

LEMMA StepIInv == IInv /\ [Next]_vars => IInv'
<1> SUFFICES ASSUME IInv, [Next]_vars PROVE IInv'
  OBVIOUS
<1>1. /\ TypeOK /\ RunsApart
      /\ RowsCurrent /\ LatestIsNewest /\ StagedCurrent
  BY DEF IInv
<1>2. TypeOK' /\ RunsApart'
  BY <1>1, TypeStep, RunsStep
<1>3. RowsCurrent' /\ LatestIsNewest' /\ StagedCurrent'
  BY <1>1, RowsStep, LatestStep, StagedStep
<1>4. SecondsApart => KeysFresh' /\ StoredLanded' /\ NothingLost'
  BY <1>1, KeysStep, StoredStep, LostStep DEF IInv
<1> QED
  BY <1>2, <1>3, <1>4 DEF IInv

\* What the runs check holds for any number of hosts, items and runs, however
\* the runs overlap.
THEOREM InvariantHolds == Spec => []IInv
  BY InitIInv, StepIInv, PTL DEF Spec

\* What a host's watermark or offset says it has shipped is in the raw table,
\* or in an object of its own that the pipe will load: no run puts its object
\* over that of another, even when the two overlap.
THEOREM CommittedLands == ASSUME SecondsApart PROVE Spec => []NothingLost
<1>1. IInv => NothingLost
  BY DEF IInv
<1> QED
  BY <1>1, InvariantHolds, PTL

\* Of two runs that shipped an item which no two extract at the same time, the
\* one with the greater _extracted_at has the newer version, or the same one;
\* ORDER BY _extracted_at DESC goes by that.
THEOREM LatestExtractionIsNewest == Spec => []LatestIsNewest
<1>1. IInv => LatestIsNewest
  BY DEF IInv
<1> QED
  BY <1>1, InvariantHolds, PTL

\* Between the Merge and what the hosts have committed: once the pipe has
\* loaded all and the tables were made, nothing committed is missing from the
\* clean table, and it is there in an older version only if the latest run that
\* shipped it came across two.
THEOREM SettledIsComplete == ASSUME SecondsApart PROVE Spec => []SettledComplete
<1>1. ASSUME IInv PROVE SettledComplete
  <2> SUFFICES ASSUME Settled, NEW h \in Hosts, NEW i \in solo
               PROVE  target[i] >= mark[h][i] \/ Torn(i)
    BY DEF SettledComplete
  <2>1. /\ i \in Items /\ mark[h][i] \in Nat /\ target[i] \in Nat
        /\ raw \subseteq Row /\ staged \subseteq raw
    BY <1>1 DEF IInv, TypeOK
  <2>2. CASE mark[h][i] = 0
    BY <2>1, <2>2
  <2>3. CASE mark[h][i] > 0
    <3>1. Landed = raw
      BY DEF Settled, Landed, Waiting
    <3>2. PICK r \in raw : r.item = i /\ r.version >= mark[h][i]
      BY <1>1, <2>1, <2>3, <3>1 DEF IInv, NothingLost
    <3>3. PICK s \in staged : s.item = i /\ Latest(s)
      BY <3>2 DEF Settled
    <3>4. /\ s \in raw /\ r.version \in Nat /\ s.version \in Nat
          /\ r.at \in Nat /\ s.at \in Nat
      BY <2>1, <3>2, <3>3 DEF Row, Version
    <3>5. r.at <= s.at
      BY <3>2, <3>3 DEF Latest
    <3>6. CASE r.at = s.at /\ r.version # s.version
      BY <3>2, <3>3, <3>6 DEF Torn
    <3>7. CASE r.at < s.at \/ r.version = s.version
      <4>1. s.version >= r.version
        BY <1>1, <3>1, <3>2, <3>3, <3>4, <3>7 DEF IInv, LatestIsNewest
      <4>2. target[i] = s.version
        BY <3>3 DEF Settled
      <4> QED
        BY <2>1, <3>2, <3>4, <4>1, <4>2
    <3> QED
      BY <3>4, <3>5, <3>6, <3>7
  <2> QED
    BY <2>1, <2>2, <2>3
<1> QED
  BY <1>1, InvariantHolds, PTL

\* In whatever order the pipe loads, and whenever the MERGE runs, it puts an
\* older version over a newer one of an item hosts take turns at only between
\* two that the latest run has shipped.
THEOREM MergeNeverGoesBack == Spec => TargetNeverBack
<1>1. ASSUME IInv, [Next]_vars, NEW i \in solo PROVE target'[i] >= target[i] \/ Torn(i)
  <2>1. /\ target \in [Items -> Nat] /\ staged \subseteq raw /\ raw \subseteq Row
        /\ i \in Items
    BY <1>1 DEF IInv, TypeOK
  <2>2. CASE target[i] = 0
    <3>1. target'[i] \in Nat
      BY <1>1, TypeStep DEF IInv, TypeOK
    <3> QED
      BY <2>1, <2>2, <3>1
  <2>3. CASE Merge /\ target[i] # 0
    <3>1. PICK s \in staged, r \in raw :
            s.item = i /\ r.item = i /\ r.version = target[i] /\ r.at <= s.at
      BY <1>1, <2>1, <2>3 DEF IInv, StagedCurrent
    <3>2. \A q \in staged : q.item = i => q = s
      BY <1>1, <3>1 DEF IInv, StagedCurrent
    <3>3. target'[i] = s.version
      BY <2>1, <2>3, <3>1, <3>2 DEF Merge
    <3>4. /\ s \in raw /\ r.version \in Nat /\ s.version \in Nat
          /\ r.at \in Nat /\ s.at \in Nat
      BY <2>1 DEF Row, Version
    <3>5. CASE r.at = s.at /\ r.version # s.version
      BY <3>1, <3>5 DEF Torn
    <3>6. CASE r.at < s.at \/ r.version = s.version
      BY <1>1, <3>1, <3>3, <3>4, <3>6 DEF IInv, LatestIsNewest, Landed
    <3> QED
      BY <3>1, <3>4, <3>5, <3>6
  <2>4. CASE ~Merge
    <3>1. target' = target
      BY <1>1, <2>4 DEF Next, Update, Start, Agent, Read, Put, Commit, FinishEmpty,
         Fail, Load, Stage
    <3> QED
      BY <2>1, <3>1
  <2> QED
    BY <2>2, <2>3, <2>4
<1>2. IInv /\ [Next]_vars => [\A i \in solo : target'[i] >= target[i] \/ Torn(i)]_target
  BY <1>1
<1> QED
  BY <1>2, InvariantHolds, PTL DEF Spec, TargetNeverBack
=============================================================================
