-------------------------- MODULE LineReader_proofs --------------------------
(***************************************************************************)
(* Tailer implements LineReader: a byte written adds whole lines behind    *)
(* those that are there or none, a commit hands on the next lines, and no  *)
(* other step is seen.                                                     *)
(***************************************************************************)
EXTENDS Tailer_proofs

USE TailerAssumption
USE DEF vars, source, poll

\* A byte completes at most the line it ends; the lines before it stay.
LEMMA ByteAddsLines ==
  ASSUME TypeOK, NEW b \in Byte, Write(b),
         NEW s \in Nat, NEW e \in Nat, e = Len(bytes)
  PROVE  /\ LinesOf(s, e) \subseteq LinesOf(s, e + 1)'
         /\ \A k \in LinesOf(s, e), l \in LinesOf(s, e + 1)' :
              l \notin LinesOf(s, e) => k.to < l.from
<1> DEFINE U == Units(s, e)
           N == Newlines(s, e)
           U1 == Units(s, e + 1)'
           N1 == Newlines(s, e + 1)'
<1>1. width \in {1, 2} /\ width' = width
  BY DEF TypeOK, Write
<1>2. /\ \A o : o \in U <=> o \in Int /\ s <= o /\ o <= e - width /\ OnGrid(s, o)
      /\ \A o : o \in U1 <=> o \in Int /\ s <= o /\ o <= (e + 1) - width /\ OnGrid(s, o)
  <2>1. \A o : o \in U <=> o \in Int /\ s <= o /\ o <= e - width /\ OnGrid(s, o)
    BY <1>1, UnitsGrid
  <2>2. U1 = {o \in s .. (e + 1) - width : (o - s) % width = 0}
    BY <1>1 DEF Units
  <2> QED
    BY <1>1, <2>1, <2>2 DEF OnGrid
<1>3. U \subseteq U1 /\ \A o \in U1, u \in U1 : o < u => o \in U
  BY <1>1, <1>2
<1>4. /\ Units(s, e)' = U /\ Newlines(s, e)' = N
      /\ \A o \in U : IsUnit(o, CR)' <=> IsUnit(o, CR)
  BY UnitsStay
<1>5. /\ \A o : o \in N1 <=> o \in U1 /\ IsUnit(o, LF)'
      /\ \A o : o \in N <=> o \in U /\ IsUnit(o, LF)'
      /\ N \subseteq U
  BY <1>4 DEF Newlines
<1>6. \A l : l \in LinesOf(s, e) <=> IsLine(l, s, e)
  BY <1>1, LinesAreLines
<1>7. ASSUME NEW l
      PROVE  l \in LinesOf(s, e + 1)' <=>
               /\ l \in [from : s .. e + 1, to : s .. e + 1]
               /\ l.from < l.to /\ l.to - width \in U1
               /\ l.from = s \/ l.from - width \in N1
               /\ ~IsUnit(l.to - width, CR)'
               /\ \A o \in N1 : ~(l.from <= o /\ o < l.to)
               /\ \E n \in N1 : /\ l.to <= n
                                /\ \A o \in U1 : l.to <= o /\ o < n => IsUnit(o, CR)'
  <2>1. e + 1 \in Nat /\ width' \in {1, 2}
    BY <1>1
  <2> QED
    BY <1>1, <2>1, LinesAreLinesNext DEF IsLine
<1>8. \A o \in Int : IsUnit(o, LF)' => ~IsUnit(o, CR)'
  BY DEF IsUnit, LF, CR
<1> HIDE DEF U, N, U1, N1
<1>9. ASSUME NEW l, IsLine(l, s, e) PROVE l \in LinesOf(s, e + 1)'
  <2>1. /\ l \in [from : s .. e, to : s .. e] /\ l.from < l.to /\ l.to - width \in U
        /\ l.from = s \/ l.from - width \in N
        /\ ~IsUnit(l.to - width, CR)
        /\ \A o \in N : ~(l.from <= o /\ o < l.to)
    BY <1>9 DEF IsLine, U, N
  <2>2. PICK n \in N : l.to <= n /\ \A o \in U : l.to <= o /\ o < n => IsUnit(o, CR)
    BY <1>9 DEF IsLine, U, N
  <2>3. n \in Int /\ n \in U1 /\ n \in N1
    BY <1>2, <1>3, <1>5, <2>2
  <2>4. \A o \in U1 : l.to <= o /\ o < n => IsUnit(o, CR)'
    BY <1>3, <1>4, <2>2, <2>3 DEF U
  <2>5. \A o \in N1 : ~(l.from <= o /\ o < l.to)
    BY <1>2, <1>3, <1>5, <2>1, <2>2, <2>3
  <2>6. ~IsUnit(l.to - width, CR)'
    BY <1>1, <1>4, <2>1 DEF U
  <2>7. l \in [from : s .. e + 1, to : s .. e + 1]
    BY <2>1
  <2> QED
    BY <1>3, <1>5, <1>7, <2>1, <2>2, <2>3, <2>4, <2>5, <2>6, <2>7
<1>10. ASSUME NEW l, l \in LinesOf(s, e + 1)', l \notin LinesOf(s, e),
              NEW k, IsLine(k, s, e)
       PROVE  k.to < l.from
  <2>1. /\ l \in [from : s .. e + 1, to : s .. e + 1] /\ l.from < l.to
        /\ l.to - width \in U1 /\ (l.from = s \/ l.from - width \in N1)
        /\ ~IsUnit(l.to - width, CR)'
        /\ \A o \in N1 : ~(l.from <= o /\ o < l.to)
    BY <1>7, <1>10
  <2>2. PICK n \in N1 : l.to <= n /\ \A o \in U1 : l.to <= o /\ o < n => IsUnit(o, CR)'
    BY <1>7, <1>10
  <2>3. PICK m \in N : k.to <= m
    BY <1>10 DEF IsLine, N
  <2>4. /\ m \in Int /\ n \in Int /\ m \in U /\ m \in N1 /\ n \in U1 /\ m <= e - width
        /\ k.to \in Int /\ l.from \in Int /\ l.to \in Int
    BY <1>2, <1>3, <1>5, <1>10, <2>1, <2>2, <2>3 DEF IsLine
  <2>5. CASE n \in N
    <3>1. /\ n <= e - width /\ l.to \in s .. e /\ l.from \in s .. e
          /\ l.to - width \in Int /\ l.to - width < n
      BY <1>1, <1>2, <1>5, <2>1, <2>2, <2>4, <2>5
    <3>2. l.to - width \in U
      <4>1. l.to - width \in U1
        BY <1>7, <1>10
      <4>2. l.to - width < n /\ n \in U1
        BY <2>4, <3>1
      <4> QED
        BY ONLY <1>3, <4>1, <4>2
    <3>3. l.from = s \/ l.from - width \in N
      BY <1>1, <1>2, <1>3, <1>5, <2>1, <2>4, <3>1
    <3>4. ~IsUnit(l.to - width, CR)
      BY <1>1, <1>4, <2>1, <3>2 DEF U
    <3>5. \A o \in N : ~(l.from <= o /\ o < l.to)
      BY <1>3, <1>5, <2>1
    <3>6. \A o \in U : l.to <= o /\ o < n => IsUnit(o, CR)
      BY <1>3, <1>4, <2>2 DEF U
    <3>7. IsLine(l, s, e)
      BY <2>1, <2>2, <2>5, <3>1, <3>2, <3>3, <3>4, <3>5, <3>6 DEF IsLine, U, N
    <3> QED
      BY <1>6, <1>10, <3>7
  <2>6. CASE n \notin N
    <3>1. m < n
      <4>1. n \notin U
        BY <1>5, <2>2, <2>6
      <4> QED
        BY <1>1, <1>2, <2>4, <4>1
    <3>2. ~(l.to <= m)
      BY <1>3, <1>5, <1>8, <2>2, <2>4, <3>1
    <3>3. m < l.from
      BY <2>1, <2>4, <3>2
    <3> QED
      BY <2>3, <2>4, <3>3
  <2> QED
    BY <2>5, <2>6
<1> QED
  BY <1>6, <1>9, <1>10

LEMMA MapWrite ==
  ASSUME TypeOK, NEW b \in Byte, Write(b)
  PROVE  Reader!Grow
<1>1. Begin \in Nat /\ Len(bytes) \in Nat
  <2>1. CASE width = 1
    BY <2>1 DEF Begin, TypeOK
  <2>2. CASE width = 2
    BY <2>2 DEF Begin, TypeOK
  <2> QED
    BY <2>1, <2>2 DEF TypeOK
<1>2. PICK s \in Nat, e \in Nat : s = Begin /\ e = Len(bytes)
  BY <1>1
<1>3. Begin' = s /\ Len(bytes)' = e + 1 /\ shipped' = shipped
  BY <1>2 DEF Write, Begin, TypeOK
<1>4. LinesOf(Begin, Len(bytes))' = LinesOf(s, e + 1)'
  BY <1>3
<1>5. LinesOf(s, e + 1)' \subseteq Reader!Line
  <2>1. width' \in {1, 2} /\ e + 1 \in Nat
    BY <1>1, <1>2 DEF Write, TypeOK
  <2> QED
    BY <2>1, LinesAreLinesNext DEF IsLine, Reader!Line
<1>6. LinesOf(Begin, Len(bytes)) = LinesOf(s, e)
  BY <1>2
<1>7. /\ LinesOf(s, e) \subseteq LinesOf(s, e + 1)'
      /\ \A k \in LinesOf(s, e), l \in LinesOf(s, e + 1)' :
           l \notin LinesOf(s, e) => k.to < l.from
  BY <1>2, ByteAddsLines
<1> QED
  BY <1>3, <1>4, <1>5, <1>6, <1>7 DEF Reader!Grow

\* Without a write the lines are the same.
LEMMA SameLines ==
  ASSUME UNCHANGED <<source, bytes>>
  PROVE  LinesOf(Begin, Len(bytes))' = LinesOf(Begin, Len(bytes))
  BY LinesFixed DEF Begin

LEMMA MapCommit ==
  ASSUME IInv, Commit
  PROVE  Reader!HandOn
<1>1. /\ TypeOK /\ at \in Nat /\ Boundary(at) /\ shipped' = LinesBelow(at)
      /\ shipped \subseteq shipped' /\ UNCHANGED <<source, bytes>>
  BY DEF IInv, SplitOnce, Commit, TypeOK
<1>2. /\ Aligned(at) \in Nat
      /\ LinesOf(Begin, Len(bytes)) = LinesBelow(at) \union LinesOf(Aligned(at), Len(bytes))
      /\ \A l \in LinesBelow(at) : l.to <= Aligned(at)
  BY <1>1, RestOfFile
<1>3. Len(bytes) \in Nat /\ Begin \in Nat
  BY <1>1, RestOfFile DEF TypeOK
<1>4. ASSUME NEW l \in shipped', NEW k \in LinesOf(Begin, Len(bytes)), k.from < l.from
      PROVE  k \in shipped'
  <2>1. /\ k.from \in Int /\ l.from \in Int /\ l.to \in Int /\ l.from < l.to
        /\ l.to <= Aligned(at)
    BY <1>1, <1>2, <1>3, <1>4, LineInside DEF TypeOK
  <2>2. \A j \in LinesOf(Aligned(at), Len(bytes)) : j.from >= Aligned(at)
    BY <1>1, <1>2, <1>3, LineInside DEF TypeOK
  <2>3. k \notin LinesOf(Aligned(at), Len(bytes))
    BY <1>2, <1>4, <2>1, <2>2
  <2> QED
    BY <1>1, <1>2, <2>3
<1>5. LinesOf(Begin, Len(bytes))' = LinesOf(Begin, Len(bytes))
  BY <1>1, SameLines
<1> QED
  BY <1>1, <1>2, <1>4, <1>5 DEF Reader!HandOn

LEMMA MapNext ==
  ASSUME IInv, [Next]_vars
  PROVE  [Reader!Next]_(Reader!vars)
<1>1. ASSUME NEW b \in Byte, Write(b) PROVE Reader!Next
  BY <1>1, MapWrite DEF IInv, Reader!Next
<1>2. CASE Commit
  BY <1>2, MapCommit DEF Reader!Next
<1>3. CASE UNCHANGED <<source, bytes, shipped>>
  BY <1>3, SameLines DEF Reader!vars
<1> QED
  BY <1>1, <1>2, <1>3 DEF Next, Agent, StartPoll, TailLines, TailNothing, ReadFails,
     FinishEmpty, Interrupt

\* Byte by byte, the tailer reads as LineReader does, for every file, window
\* and encoding.
THEOREM TailerImplements == Spec => ReadsInOrder
<1>1. Init => Reader!Init
  <2> SUFFICES ASSUME Init PROVE LinesOf(Begin, Len(bytes)) = {} /\ shipped = {}
    BY DEF Reader!Init
  <2>1. width \in {1, 2} /\ first \in Nat /\ Len(bytes) = first
    BY DEF Init
  <2>2. Begin \in Nat /\ first <= Begin
    <3>1. CASE width = 1
      BY <2>1, <3>1 DEF Begin
    <3>2. CASE width = 2
      BY <2>1, <3>2 DEF Begin
    <3> QED
      BY <2>1, <3>1, <3>2
  <2>3. \A l \in LinesOf(Begin, Len(bytes)) : FALSE
    BY <2>1, <2>2, LinesAreLines DEF IsLine, Units
  <2> QED
    BY <2>3 DEF Init
<1> QED
  BY <1>1, MapNext, SplitOnceHolds, PTL DEF Spec, ReadsInOrder, Reader!Spec

\* For the tailer the promise says that no complete line before a shipped one
\* is missing from what was shipped.
NoLineBetween ==
  /\ shipped \subseteq LinesOf(Begin, Len(bytes))
  /\ \A l \in shipped, k \in LinesOf(Begin, Len(bytes)) : k.from < l.from => k \in shipped

\* The contract is enough for that.
THEOREM ReaderSuffices == ReadsInOrder => []NoLineBetween
<1>1. Reader!Init => Reader!TypeOK /\ Reader!Promise
  BY DEF Reader!Init, Reader!TypeOK, Reader!Promise
<1>2. /\ Reader!TypeOK /\ Reader!Promise
      /\ [Reader!Next]_(Reader!vars)
      => Reader!TypeOK' /\ Reader!Promise'
  <2> SUFFICES ASSUME Reader!TypeOK, Reader!Promise, [Reader!Next]_(Reader!vars)
               PROVE  Reader!TypeOK' /\ Reader!Promise'
    OBVIOUS
  <2>1. CASE Reader!Grow
    <3>1. /\ LinesOf(Begin, Len(bytes)) \subseteq LinesOf(Begin, Len(bytes))'
          /\ LinesOf(Begin, Len(bytes))' \subseteq Reader!Line
          /\ shipped' = shipped /\ shipped \subseteq LinesOf(Begin, Len(bytes))
      BY <2>1 DEF Reader!TypeOK, Reader!Grow
    <3>2. ASSUME NEW l \in shipped, NEW k \in LinesOf(Begin, Len(bytes))', k.from < l.from
          PROVE  k \in shipped
      <4>1. k.from \in Nat /\ l.from \in Nat /\ l.to \in Nat /\ l.from < l.to
        BY <3>1 DEF Reader!Line
      <4>2. k \in LinesOf(Begin, Len(bytes))
        BY <2>1, <3>1, <3>2, <4>1 DEF Reader!Grow
      <4> QED
        BY <3>2, <4>2 DEF Reader!Promise
    <3> QED
      BY <3>1, <3>2 DEF Reader!TypeOK, Reader!Promise
  <2>2. CASE Reader!HandOn
    BY <2>2 DEF Reader!TypeOK, Reader!Promise, Reader!HandOn
  <2>3. CASE UNCHANGED Reader!vars
    BY <2>3 DEF Reader!TypeOK, Reader!Promise, Reader!vars
  <2> QED
    BY <2>1, <2>2, <2>3 DEF Reader!Next
<1>3. Reader!TypeOK /\ Reader!Promise => NoLineBetween
  BY DEF Reader!TypeOK, Reader!Promise, NoLineBetween
<1> QED
  BY <1>1, <1>2, <1>3, PTL DEF ReadsInOrder, Reader!Spec
=============================================================================
