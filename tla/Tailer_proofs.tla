---------------------------- MODULE Tailer_proofs ----------------------------
(***************************************************************************)
(* Proofs about Tailer, for every file, window and encoding: whatever a    *)
(* poll cuts into windows and whatever is half written when it reads, the  *)
(* committed lines are those of the file split once.                       *)
(***************************************************************************)
EXTENDS Tailer, FiniteSetTheorems, TLAPS

USE TailerAssumption
USE DEF vars, source, poll

\* Offsets that are whole code units apart.
OnGrid(a, o) == (o - a) % width = 0

LEMMA GridBase ==
  ASSUME width \in {1, 2}, NEW a \in Int, NEW o \in Int
  PROVE  /\ OnGrid(a, a)
         /\ OnGrid(a, o) <=> OnGrid(a, o - width)
<1>1. CASE width = 1
  BY <1>1 DEF OnGrid
<1>2. CASE width = 2
  BY <1>2 DEF OnGrid
<1> QED
  BY <1>1, <1>2

LEMMA GridShift ==
  ASSUME width \in {1, 2}, NEW a \in Int, NEW b \in Int, NEW o \in Int, OnGrid(a, b)
  PROVE  /\ OnGrid(a, o) <=> OnGrid(b, o)
         /\ OnGrid(a, o) /\ o < b => o <= b - width
         /\ OnGrid(a, o) /\ b < o => b <= o - width
<1>1. CASE width = 1
  BY <1>1 DEF OnGrid
<1>2. CASE width = 2
  BY <1>2 DEF OnGrid
<1> QED
  BY <1>1, <1>2

LEMMA UnitsGrid ==
  ASSUME width \in {1, 2}, NEW s \in Nat, NEW e \in Nat, NEW o
  PROVE  o \in Units(s, e) <=> o \in Int /\ s <= o /\ o <= e - width /\ OnGrid(s, o)
  BY DEF Units, OnGrid

\* What a line of [s, e) is, in terms of the grid.
IsLine(l, s, e) ==
  /\ l \in [from : s .. e, to : s .. e]
  /\ l.from < l.to /\ l.to - width \in Units(s, e)
  /\ l.from = s \/ l.from - width \in Newlines(s, e)
  /\ ~IsUnit(l.to - width, CR)
  /\ \A o \in Newlines(s, e) : ~(l.from <= o /\ o < l.to)
  /\ \E n \in Newlines(s, e) :
       /\ l.to <= n
       /\ \A o \in Units(s, e) : l.to <= o /\ o < n => IsUnit(o, CR)

LEMMA LinesAreLines ==
  ASSUME width \in {1, 2}, NEW s \in Nat, NEW e \in Nat, NEW l
  PROVE  l \in LinesOf(s, e) <=> IsLine(l, s, e)
<1>1. /\ \A o \in Units(s, e) : o \in Int /\ s <= o /\ o + width <= e
      /\ Newlines(s, e) \subseteq Units(s, e)
  BY UnitsGrid DEF Newlines
<1> DEFINE F == {s} \union {n + width : n \in Newlines(s, e)}
           T == {o + width : o \in Units(s, e)}
<1>2. \A f : f \in F <=> f \in Int /\ (f = s \/ f - width \in Newlines(s, e))
  BY <1>1
<1>3. \A t : t \in T <=> t \in Int /\ t - width \in Units(s, e)
  BY <1>1
<1>4. /\ \A f \in F : f <= e \/ f = s
      /\ \A f \in F : s <= f
      /\ \A t \in T : s <= t /\ t <= e
  BY <1>1
<1>5. l \in LinesOf(s, e) <=>
        /\ l \in [from : F, to : T]
        /\ l.from < l.to /\ ~IsUnit(l.to - width, CR)
        /\ \A o \in Newlines(s, e) : ~(l.from <= o /\ o < l.to)
        /\ \E n \in Newlines(s, e) :
             /\ l.to <= n
             /\ \A o \in Units(s, e) : l.to <= o /\ o < n => IsUnit(o, CR)
  BY DEF LinesOf
<1> HIDE DEF F, T
<1>6. ASSUME l \in [from : F, to : T], l.from < l.to PROVE l \in [from : s .. e, to : s .. e]
  BY <1>2, <1>3, <1>4, <1>6
<1>7. ASSUME l \in [from : s .. e, to : s .. e]
      PROVE  l \in [from : F, to : T] <=>
               /\ l.from = s \/ l.from - width \in Newlines(s, e)
               /\ l.to - width \in Units(s, e)
  BY <1>2, <1>3, <1>7
<1> QED
  BY <1>5, <1>6, <1>7 DEF IsLine

LEMMA LinesAreLinesNext ==
  ASSUME NEW s \in Nat, NEW e \in Nat, NEW l
  PROVE  (width \in {1, 2} => (l \in LinesOf(s, e) <=> IsLine(l, s, e)))'
<1>1. width \in {1, 2} => (l \in LinesOf(s, e) <=> IsLine(l, s, e))
  BY LinesAreLines
<1> QED
  BY <1>1, PTL

LEMMA LineInside ==
  ASSUME width \in {1, 2}, NEW s \in Nat, NEW e \in Nat, NEW l \in LinesOf(s, e)
  PROVE  l.from \in Nat /\ l.to \in Nat /\ s <= l.from /\ l.from < l.to /\ l.to <= e
<1>1. IsLine(l, s, e)
  BY LinesAreLines
<1> QED
  BY <1>1 DEF IsLine

LEMMA LinesFixed ==
  ASSUME UNCHANGED <<source, bytes>>, NEW s, NEW e
  PROVE  LinesOf(s, e)' = LinesOf(s, e)
<1>1. width' = width /\ bytes' = bytes
  OBVIOUS
<1>2. Units(s, e)' = Units(s, e)
  BY <1>1 DEF Units
<1>3. \A o, c : IsUnit(o, c)' <=> IsUnit(o, c)
  BY <1>1 DEF IsUnit
<1>4. Newlines(s, e)' = Newlines(s, e)
  BY <1>2, <1>3 DEF Newlines
<1>5. /\ {n + width : n \in Newlines(s, e)}' = {n + width : n \in Newlines(s, e)}
      /\ {o + width : o \in Units(s, e)}' = {o + width : o \in Units(s, e)}
  BY <1>1, <1>2, <1>4, Zenon
<1> QED
  BY <1>1, <1>2, <1>3, <1>4, <1>5 DEF LinesOf

\* Lines do not reach over a newline: to split [a, c) is to split [a, b) and
\* [b, c), if a newline ends at b.
LEMMA Additive ==
  ASSUME width \in {1, 2}, NEW a \in Nat, NEW b \in Nat, NEW c \in Nat,
         b - width \in Newlines(a, b), b <= c
  PROVE  LinesOf(a, c) = LinesOf(a, b) \union LinesOf(b, c)
<1>1. /\ a <= b - width /\ OnGrid(a, b) /\ IsUnit(b - width, LF)
      /\ b - width \in Int /\ OnGrid(a, b - width)
  BY UnitsGrid, GridBase DEF Newlines
<1>2. Units(a, b) \subseteq Units(a, c) /\ Units(b, c) \subseteq Units(a, c)
  BY <1>1, UnitsGrid, GridShift
<1>3. \A o \in Units(a, c) : /\ o <= b - width => o \in Units(a, b)
                             /\ b <= o => o \in Units(b, c)
                             /\ o <= b - width \/ b <= o
  BY <1>1, UnitsGrid, GridShift
<1>4. \A o \in Units(a, b) : o <= b - width
  BY UnitsGrid
<1>5. \A o \in Units(b, c) : o >= b
  BY UnitsGrid
<1>6. b - width \in Newlines(a, c)
  BY <1>1, <1>2 DEF Newlines
<1>7. ASSUME NEW l, IsLine(l, a, c) PROVE IsLine(l, a, b) \/ IsLine(l, b, c)
  <2>1. /\ l.from \in Int /\ l.to \in Int /\ OnGrid(a, l.from) /\ OnGrid(a, l.to)
        /\ a <= l.from /\ l.from < l.to /\ l.to <= c /\ l = [from |-> l.from, to |-> l.to]
    BY <1>7, UnitsGrid, GridBase DEF IsLine, Newlines
  <2>2. PICK n \in Newlines(a, c) :
           /\ l.to <= n
           /\ \A o \in Units(a, c) : l.to <= o /\ o < n => IsUnit(o, CR)
    BY <1>7 DEF IsLine
  <2>3. CASE l.from < b
    <3>1. l.from <= b - width
      BY <1>1, <2>1, <2>3, GridShift
    <3>2. l.to <= b - width
      BY <1>6, <1>7, <3>1, <2>1, <1>1 DEF IsLine
    <3>3. n <= b - width
      BY <1>1, <1>6, <2>1, <2>2, <3>2, UnitsGrid DEF Newlines, IsUnit, LF, CR
    <3>4. n \in Newlines(a, b)
      BY <3>3, <1>3, <2>2 DEF Newlines
    <3>5. l.to - width \in Units(a, b)
      BY <1>1, <1>3, <1>7, <2>1, <3>2 DEF IsLine
    <3>6. l.from = a \/ l.from - width \in Newlines(a, b)
      BY <1>1, <1>3, <1>7, <2>1, <3>1 DEF IsLine, Newlines
    <3>7. \A o \in Newlines(a, b) : ~(l.from <= o /\ o < l.to)
      BY <1>2, <1>7 DEF IsLine, Newlines
    <3>8. l \in [from : a .. b, to : a .. b]
      BY <1>1, <2>1, <3>1, <3>2
    <3>9. IsLine(l, a, b)
      BY <1>2, <1>7, <2>1, <2>2, <3>4, <3>5, <3>6, <3>7, <3>8 DEF IsLine
    <3> QED
      BY <3>9
  <2>4. CASE b <= l.from
    <3>1. b <= l.to - width
      BY <1>1, <2>1, <2>4, GridShift
    <3>2. l.to - width \in Units(b, c)
      BY <1>3, <1>7, <3>1 DEF IsLine
    <3>3. l.from = b \/ l.from - width \in Newlines(b, c)
      <4>1. CASE l.from = b
        BY <4>1
      <4>2. CASE b < l.from
        <5>1. b <= l.from - width
          BY <1>1, <2>1, <4>2, GridShift
        <5>2. l.from - width \in Newlines(a, c)
          BY <1>1, <1>7, <4>2 DEF IsLine
        <5> QED
          BY <1>3, <5>1, <5>2 DEF Newlines
      <4> QED
        BY <2>1, <2>4, <4>1, <4>2
    <3>4. n \in Newlines(b, c)
      BY <1>3, <2>1, <2>2, <2>4, UnitsGrid DEF Newlines
    <3>5. \A o \in Newlines(b, c) : ~(l.from <= o /\ o < l.to)
      BY <1>2, <1>7 DEF IsLine, Newlines
    <3>6. l \in [from : b .. c, to : b .. c]
      BY <2>1, <2>4
    <3>7. IsLine(l, b, c)
      BY <1>2, <1>7, <2>1, <2>2, <3>2, <3>3, <3>4, <3>5, <3>6 DEF IsLine
    <3> QED
      BY <3>7
  <2> QED
    BY <2>1, <2>3, <2>4
<1>8. ASSUME NEW l, IsLine(l, a, b) PROVE IsLine(l, a, c)
  <2>1. PICK n \in Newlines(a, b) :
           /\ l.to <= n
           /\ \A o \in Units(a, b) : l.to <= o /\ o < n => IsUnit(o, CR)
    BY <1>8 DEF IsLine
  <2>2. /\ l.from \in Int /\ l.to \in Int /\ l \in [from : a .. c, to : a .. c]
    BY <1>8 DEF IsLine
  <2>3. n \in Int /\ n <= b - width /\ n \in Newlines(a, c)
    BY <1>2, <2>1, UnitsGrid DEF Newlines
  <2>4. \A o \in Units(a, c) : l.to <= o /\ o < n => IsUnit(o, CR)
    BY <1>1, <1>3, <2>1, <2>3, UnitsGrid
  <2>5. \A o \in Newlines(a, c) : ~(l.from <= o /\ o < l.to)
    BY <1>1, <1>3, <1>8, <2>1, <2>2, <2>3, UnitsGrid DEF IsLine, Newlines
  <2> QED
    BY <1>2, <1>8, <2>1, <2>2, <2>3, <2>4, <2>5 DEF IsLine, Newlines
<1>9. ASSUME NEW l, IsLine(l, b, c) PROVE IsLine(l, a, c)
  <2>1. PICK n \in Newlines(b, c) :
           /\ l.to <= n
           /\ \A o \in Units(b, c) : l.to <= o /\ o < n => IsUnit(o, CR)
    BY <1>9 DEF IsLine
  <2>2. /\ l.from \in Int /\ l.to \in Int /\ b <= l.from /\ b <= l.to
        /\ l \in [from : a .. c, to : a .. c]
    BY <1>1, <1>9 DEF IsLine
  <2>3. n \in Newlines(a, c)
    BY <1>2, <2>1 DEF Newlines
  <2>4. \A o \in Units(a, c) : l.to <= o /\ o < n => IsUnit(o, CR)
    BY <1>3, <2>1, <2>2, UnitsGrid
  <2>5. \A o \in Newlines(a, c) : ~(l.from <= o /\ o < l.to)
    BY <1>3, <1>9, <2>2, UnitsGrid DEF IsLine, Newlines
  <2>6. l.from - width \in Newlines(a, c)
    BY <1>2, <1>6, <1>9 DEF IsLine, Newlines
  <2> QED
    BY <1>2, <1>9, <2>1, <2>2, <2>3, <2>4, <2>5, <2>6 DEF IsLine
<1> QED
  BY <1>7, <1>8, <1>9, LinesAreLines

\* What the application writes changes nothing below the old end of the file.
LEMMA UnitsStay ==
  ASSUME TypeOK, NEW b \in Byte, Write(b), NEW s \in Nat, NEW e \in Nat, e <= Len(bytes)
  PROVE  /\ Units(s, e)' = Units(s, e) /\ Newlines(s, e)' = Newlines(s, e)
         /\ \A o \in Units(s, e) : IsUnit(o, CR)' <=> IsUnit(o, CR)
<1>1. width' = width /\ bytes' = Append(bytes, b) /\ bytes \in Seq(Byte)
  BY DEF Write, TypeOK
<1>2. \A i \in 1 .. Len(bytes) : bytes'[i] = bytes[i]
  BY <1>1
<1>3. ASSUME NEW o \in Units(s, e)
      PROVE  bytes'[o + 1] = bytes[o + 1] /\ (width = 2 => bytes'[o + 2] = bytes[o + 2])
  <2>1. o \in Int /\ 0 <= o /\ o <= e - width /\ width \in {1, 2} /\ Len(bytes) \in Nat
    BY UnitsGrid, <1>1 DEF TypeOK
  <2>2. o + 1 \in 1 .. Len(bytes) /\ (width = 2 => o + 2 \in 1 .. Len(bytes))
    BY <2>1
  <2> QED
    BY <1>2, <2>2
<1>4. Units(s, e)' = Units(s, e)
  BY <1>1 DEF Units
<1>5. \A o \in Units(s, e) : /\ IsUnit(o, CR)' <=> IsUnit(o, CR)
                             /\ IsUnit(o, LF)' <=> IsUnit(o, LF)
  BY <1>1, <1>3 DEF IsUnit, LF, CR
<1> QED
  BY <1>4, <1>5 DEF Newlines

LEMMA LinesStay ==
  ASSUME TypeOK, NEW b \in Byte, Write(b), NEW s \in Nat, NEW e \in Nat, e <= Len(bytes)
  PROVE  LinesOf(s, e)' = LinesOf(s, e)
<1>1. width' = width
  BY DEF Write
<1>2. /\ Units(s, e)' = Units(s, e) /\ Newlines(s, e)' = Newlines(s, e)
      /\ \A o \in Units(s, e) : IsUnit(o, CR)' <=> IsUnit(o, CR)
  BY UnitsStay
<1> DEFINE T == {o + width : o \in Units(s, e)}
<1>3. /\ {n + width : n \in Newlines(s, e)}' = {n + width : n \in Newlines(s, e)}
      /\ T' = T
  BY <1>1, <1>2, Zenon
<1>4. \A t \in T : IsUnit(t - width, CR)' <=> IsUnit(t - width, CR)
  <2>1. width \in {1, 2} /\ \A o \in Units(s, e) : o \in Int
    BY UnitsGrid DEF TypeOK
  <2> QED
    BY <1>1, <1>2, <2>1
<1> QED
  BY <1>1, <1>2, <1>3, <1>4 DEF LinesOf

LEMMA BoundaryTyped ==
  ASSUME TypeOK, NEW o \in Nat, Boundary(o), o # first
  PROVE  /\ o - width \in Newlines(Begin, o) /\ o <= Len(bytes) /\ Begin < o
         /\ Aligned(o) = o /\ Begin \in Nat /\ first <= Begin
<1>1. Begin \in Nat /\ first <= Begin /\ (width = 2 => Begin % 2 = 0)
  <2>1. CASE width = 1
    BY <2>1 DEF Begin, TypeOK
  <2>2. CASE width = 2
    BY <2>2 DEF Begin, TypeOK
  <2> QED
    BY <2>1, <2>2 DEF TypeOK
<1>2. o <= Len(bytes) /\ o - width \in Newlines(Begin, Len(bytes)) /\ Len(bytes) \in Nat
  BY DEF Boundary, TypeOK
<1>3. o - width \in Newlines(Begin, o) /\ Begin < o
  BY <1>1, <1>2, UnitsGrid DEF Newlines, TypeOK
<1>4. OnGrid(Begin, o)
  BY <1>1, <1>3, UnitsGrid, GridBase DEF Newlines, TypeOK
<1>5. Aligned(o) = o
  BY <1>1, <1>4 DEF Aligned, OnGrid
<1> QED
  BY <1>1, <1>2, <1>3, <1>5

\* A chunk's end is a boundary, and its lines continue those below its start.
LEMMA ChunkAdds ==
  ASSUME TypeOK, NEW o \in Nat, Boundary(o), NEW e \in ConsumedEnds(Aligned(o))
  PROVE  /\ e \in Nat /\ o < e /\ Boundary(e)
         /\ LinesBelow(e) = LinesBelow(o) \union LinesOf(Aligned(o), e)
<1>1. Begin \in Nat /\ first <= Begin /\ Aligned(first) = Begin
  <2>1. CASE width = 1
    BY <2>1 DEF Begin, Aligned, TypeOK
  <2>2. CASE width = 2
    BY <2>2 DEF Begin, Aligned, TypeOK
  <2> QED
    BY <2>1, <2>2 DEF TypeOK
<1> DEFINE s == Aligned(o)
<1>2. s \in Nat /\ o <= s
  BY DEF Aligned
<1>3. WindowEnd(s) \in Nat /\ WindowEnd(s) <= Len(bytes) /\ Len(bytes) \in Nat
  BY <1>2 DEF WindowEnd, Least, TypeOK
<1>4. e - width \in Newlines(s, WindowEnd(s)) /\ e \in Int
  BY <1>2, <1>3, UnitsGrid DEF ConsumedEnds, LineEnds, Newlines, TypeOK
<1>5. s <= e - width /\ e <= WindowEnd(s) /\ OnGrid(s, e - width) /\ IsUnit(e - width, LF)
  BY <1>2, <1>3, <1>4, UnitsGrid DEF Newlines, TypeOK
<1>6. e \in Nat /\ o < e /\ e <= Len(bytes) /\ s < e
  BY <1>2, <1>3, <1>4, <1>5 DEF TypeOK
<1>7. CASE o = first
  <2>1. s = Begin /\ e # first /\ first < e
    BY <1>1, <1>2, <1>6, <1>7
  <2>2. Boundary(e)
    BY <1>3, <1>4, <1>5, <1>6, <2>1, <1>1, UnitsGrid DEF Boundary, Newlines, TypeOK
  <2>3. LinesBelow(o) = {} /\ LinesBelow(e) = LinesOf(Begin, e)
    BY <1>7, <2>1 DEF LinesBelow
  <2> QED
    BY <1>6, <2>1, <2>2, <2>3
<1>8. CASE o # first
  <2>1. /\ o - width \in Newlines(Begin, o) /\ Begin < o /\ s = o
    BY <1>8, BoundaryTyped
  <2>2. OnGrid(Begin, o)
    BY <1>1, <2>1, UnitsGrid, GridBase DEF Newlines, TypeOK
  <2>3. OnGrid(Begin, e - width)
    BY <1>1, <1>4, <1>5, <2>1, <2>2, GridShift DEF TypeOK
  <2>4. Boundary(e)
    BY <1>1, <1>3, <1>4, <1>5, <1>6, <2>1, <2>3, UnitsGrid DEF Boundary, Newlines, TypeOK
  <2>5. LinesBelow(o) = LinesOf(Begin, o) /\ LinesBelow(e) = LinesOf(Begin, e)
    BY <1>1, <1>6, <1>8, <2>1 DEF LinesBelow
  <2>6. LinesOf(Begin, e) = LinesOf(Begin, o) \union LinesOf(o, e)
    BY <1>1, <1>6, <2>1, Additive DEF TypeOK
  <2> QED
    BY <1>6, <2>1, <2>4, <2>5, <2>6
<1> QED
  BY <1>7, <1>8

LEMMA WriteKeeps ==
  ASSUME TypeOK, NEW b \in Byte, Write(b), NEW o \in Nat, Boundary(o)
  PROVE  Boundary(o)' /\ LinesBelow(o)' = LinesBelow(o)
<1>1. width' = width /\ first' = first /\ Begin' = Begin
  BY DEF Write, Begin
<1>2. CASE o = first
  BY <1>1, <1>2 DEF Boundary, LinesBelow
<1>3. CASE o # first
  <2>1. /\ o - width \in Newlines(Begin, o) /\ o <= Len(bytes) /\ Begin \in Nat
    BY <1>3, BoundaryTyped
  <2>2. LinesOf(Begin, o)' = LinesOf(Begin, o)
    <3>1. LinesOf(Begin, o)' = LinesOf(Begin, o)
      BY <1>1, <2>1, LinesStay
    <3> QED
      BY <3>1
  <2>3. Newlines(Begin, o)' = Newlines(Begin, o)
    BY <1>1, <2>1, UnitsStay
  <2>4. Len(bytes)' = Len(bytes) + 1 /\ Len(bytes) \in Nat
    BY DEF Write, TypeOK
  <2>5. o <= Len(bytes)' /\ o - width \in Newlines(Begin, Len(bytes))'
    BY <1>1, <2>1, <2>3, <2>4 DEF Newlines, Units, TypeOK
  <2> QED
    BY <1>1, <1>3, <2>2, <2>5 DEF Boundary, LinesBelow
<1> QED
  BY <1>2, <1>3

LEMMA ChunkLinesTyped ==
  ASSUME width \in {1, 2}, NEW s \in Nat, NEW e \in Nat
  PROVE  LinesOf(s, e) \subseteq Line
  BY LinesAreLines DEF IsLine, Line

LEMMA InitIInv == Init => IInv
<1> SUFFICES ASSUME Init PROVE IInv
  OBVIOUS
<1>1. width \in {1, 2} /\ window \in Nat \ {0} /\ first \in Nat
  BY DEF Init
<1>2. bytes \in Seq(Byte)
  BY <1>1 DEF Init
<1>3. TypeOK
  BY <1>1, <1>2 DEF Init, TypeOK
<1>4. SplitOnce
  BY DEF Init, SplitOnce, Boundary, LinesBelow
<1> QED
  BY <1>3, <1>4 DEF IInv

LEMMA StepIInv == IInv /\ [Next]_vars => IInv'
<1> SUFFICES ASSUME IInv, [Next]_vars PROVE IInv'
  OBVIOUS
<1> USE DEF IInv
<1>1. ASSUME UNCHANGED <<source, bytes>>
      PROVE  /\ \A o : Boundary(o)' <=> Boundary(o)
             /\ \A o : LinesBelow(o)' = LinesBelow(o)
  BY <1>1, LinesFixed DEF Boundary, LinesBelow, Newlines, Units, IsUnit, Begin
<1>2. CASE UNCHANGED vars
  BY <1>1, <1>2 DEF TypeOK, SplitOnce
<1>3. ASSUME NEW b \in Byte, Write(b) PROVE IInv'
  <2>1. TypeOK'
    BY <1>3 DEF Write, TypeOK
  <2>2. UNCHANGED <<stored, pc, at, records, shipped>> /\ stored \in Nat /\ at \in Nat
    BY <1>3 DEF Write, TypeOK
  <2>3. Boundary(stored)' /\ LinesBelow(stored)' = LinesBelow(stored)
    BY <1>3, <2>2, WriteKeeps DEF SplitOnce
  <2>4. pc # "idle" => Boundary(at)' /\ LinesBelow(at)' = LinesBelow(at)
    BY <1>3, <2>2, WriteKeeps DEF SplitOnce
  <2> QED
    BY <2>1, <2>2, <2>3, <2>4 DEF SplitOnce
<1>4. CASE StartPoll
  BY <1>1, <1>4 DEF StartPoll, TypeOK, SplitOnce
<1>5. CASE TailLines
  <2>1. PICK e \in ConsumedEnds(Aligned(at)) :
          /\ records' = records \union LinesOf(Aligned(at), e)
          /\ at' = e
    BY <1>5 DEF TailLines
  <2>2. /\ e \in Nat /\ Boundary(e)
        /\ LinesBelow(e) = LinesBelow(at) \union LinesOf(Aligned(at), e)
    BY <1>5, ChunkAdds DEF TailLines, SplitOnce, TypeOK
  <2>3. Aligned(at) \in Nat
    BY DEF Aligned, TypeOK
  <2>4. TypeOK'
    BY <1>5, <2>1, <2>2, <2>3, ChunkLinesTyped DEF TailLines, TypeOK
  <2>5. SplitOnce'
    BY <1>1, <1>5, <2>1, <2>2 DEF TailLines, SplitOnce
  <2> QED
    BY <2>4, <2>5
<1>6. CASE TailNothing
  BY <1>1, <1>6 DEF TailNothing, TypeOK, SplitOnce
<1>7. CASE ReadFails
  BY <1>1, <1>7 DEF ReadFails, TypeOK, SplitOnce
<1>8. CASE FinishEmpty
  BY <1>1, <1>8 DEF FinishEmpty, Return, TypeOK, SplitOnce
<1>9. CASE Commit
  BY <1>1, <1>9 DEF Commit, Return, TypeOK, SplitOnce
<1>10. CASE Interrupt
  BY <1>1, <1>10 DEF Interrupt, Return, TypeOK, SplitOnce
<1> QED
  BY <1>2, <1>3, <1>4, <1>5, <1>6, <1>7, <1>8, <1>9, <1>10 DEF Next, Agent

\* Windows, half-written lines, odd offsets at the start and polls that break
\* off do not show: what is committed is the file split once.
THEOREM SplitOnceHolds == Spec => []IInv
<1> QED
  BY InitIInv, StepIInv, PTL DEF Spec

\* Sets of offsets have a least and a greatest member.
LEMMA LeastOffset ==
  ASSUME NEW N, N \subseteq Nat, N # {}
  PROVE  \E m \in N : \A n \in N : m <= n
<1> DEFINE T == {0 .. n : n \in N}
<1>1. T \subseteq FiniteSubsetsOf(Nat) /\ T # {}
  <2>1. ASSUME NEW n \in N PROVE 0 .. n \in FiniteSubsetsOf(Nat)
    <3>1. IsFiniteSet(0 .. n)
      BY FS_Interval
    <3>2. 0 .. n \in SUBSET Nat
      OBVIOUS
    <3> QED
      BY <3>1, <3>2 DEF FiniteSubsetsOf
  <2> QED
    BY <2>1
<1>2. IsWellFoundedOn(StrictSubsetOrdering(Nat), FiniteSubsetsOf(Nat))
  BY FS_StrictSubsetOrderingWellFounded
<1> HIDE DEF T
<1>3. \E x \in T : \A y \in T : ~(<<y, x>> \in StrictSubsetOrdering(Nat))
  BY <1>1, <1>2, WFMin
<1>4. PICK m \in N : \A y \in T : ~(<<y, 0 .. m>> \in StrictSubsetOrdering(Nat))
  BY <1>3 DEF T
<1>5. ASSUME NEW n \in N, n < m PROVE FALSE
  <2>1. 0 .. n \in T /\ 0 .. n \subseteq 0 .. m /\ m \in 0 .. m /\ m \notin 0 .. n
    BY <1>5 DEF T
  <2>2. 0 .. n # 0 .. m /\ 0 .. n \in SUBSET Nat /\ 0 .. m \in SUBSET Nat
    BY <1>5, <2>1
  <2>3. <<0 .. n, 0 .. m>> \in StrictSubsetOrdering(Nat)
    BY <2>1, <2>2 DEF StrictSubsetOrdering
  <2> QED
    BY <1>4, <2>1, <2>3
<1> QED
  BY <1>4, <1>5

LEMMA GreatestOffset ==
  ASSUME NEW e \in Nat, NEW N, N \subseteq 0 .. e, N # {}
  PROVE  \E m \in N : \A n \in N : n <= m
<1> DEFINE M == {e - n : n \in N}
<1>1. M \subseteq Nat /\ M # {}
  OBVIOUS
<1>2. PICK k \in M : \A j \in M : k <= j
  BY <1>1, LeastOffset
<1>3. PICK m \in N : k = e - m
  BY <1>2
<1>4. ASSUME NEW n \in N PROVE n <= m
  <2>1. e - n \in M
    OBVIOUS
  <2>2. e - m <= e - n
    BY <1>2, <1>3, <2>1
  <2>3. n \in Int /\ m \in Int
    OBVIOUS
  <2> QED
    BY <2>2, <2>3
<1> QED
  BY <1>4

\* A unit that does not end a line of [s, e) is in a line.
LEMMA UnitInLine ==
  ASSUME width \in {1, 2}, NEW s \in Nat, NEW e \in Nat, e - width \in Newlines(s, e),
         NEW o \in Units(s, e),
         ~\E n \in Newlines(s, e) :
            o <= n /\ \A u \in Units(s, e) : o <= u /\ u < n => IsUnit(u, CR)
  PROVE  \E l : IsLine(l, s, e) /\ l.from <= o /\ o < l.to
<1>1. \A u \in Units(s, e) : /\ u \in Nat /\ s <= u /\ u <= e - width /\ OnGrid(s, u)
                             /\ u \in 0 .. e
  BY UnitsGrid
<1>2. \A u, v \in Units(s, e) : u < v => u + width <= v
  BY <1>1, GridShift
<1>3. Newlines(s, e) \subseteq Units(s, e)
  BY DEF Newlines
<1>4. PICK n \in Newlines(s, e) :
         o <= n /\ \A m \in Newlines(s, e) : o <= m => n <= m
  <2> DEFINE N == {m \in Newlines(s, e) : o <= m}
  <2>1. N \subseteq Nat /\ N # {}
    BY <1>1, <1>3
  <2>2. \E m \in N : \A k \in N : m <= k
    BY <2>1, LeastOffset
  <2> QED
    BY <2>2
<1>5. PICK u \in Units(s, e) :
         /\ o <= u /\ u < n /\ ~IsUnit(u, CR)
         /\ \A v \in Units(s, e) : u < v /\ v < n => IsUnit(v, CR)
  <2> DEFINE U == {v \in Units(s, e) : o <= v /\ v < n /\ ~IsUnit(v, CR)}
  <2>1. U \subseteq 0 .. e /\ U # {}
    BY <1>1, <1>4
  <2>2. \E v \in U : \A w \in U : w <= v
    BY <2>1, GreatestOffset
  <2>3. PICK v \in U : \A w \in U : w <= v
    BY <2>2
  <2>4. \A w \in Units(s, e) : v < w /\ w < n => IsUnit(w, CR)
    BY <1>1, <1>3, <2>3
  <2> QED
    BY <2>3, <2>4
<1>6. \E f \in Nat : /\ s <= f /\ f <= o
                     /\ f = s \/ f - width \in Newlines(s, e)
                     /\ \A m \in Newlines(s, e) : m < o => m < f
  <2> DEFINE P == {m \in Newlines(s, e) : m < o}
  <2>1. CASE P = {}
    BY <1>1, <2>1
  <2>2. CASE P # {}
    <3>1. P \subseteq 0 .. e
      BY <1>1, <1>3
    <3>2. \E p \in P : \A m \in P : m <= p
      BY <2>2, <3>1, GreatestOffset
    <3>3. PICK p \in P : \A m \in P : m <= p
      BY <3>2
    <3>4. /\ p + width \in Nat /\ s <= p + width /\ p + width <= o
          /\ (p + width) - width \in Newlines(s, e)
      BY <1>1, <1>2, <1>3, <3>3
    <3>5. \A m \in Newlines(s, e) : m < o => m < p + width
      BY <1>1, <1>3, <3>3
    <3> QED
      BY <3>4, <3>5
  <2> QED
    BY <2>1, <2>2
<1>7. PICK f \in Nat : /\ s <= f /\ f <= o
                       /\ f = s \/ f - width \in Newlines(s, e)
                       /\ \A m \in Newlines(s, e) : m < o => m < f
  BY <1>6
<1> DEFINE l == [from |-> f, to |-> u + width]
<1>8. u + width <= n /\ n <= e - width /\ u \in Nat /\ n \in Nat /\ o \in Nat
  BY <1>1, <1>2, <1>3, <1>4, <1>5
<1>9. l \in [from : s .. e, to : s .. e] /\ l.from < l.to
  BY <1>1, <1>5, <1>7, <1>8
<1>10. \A m \in Newlines(s, e) : ~(l.from <= m /\ m < l.to)
  BY <1>1, <1>3, <1>4, <1>7, <1>8
<1>11. \A v \in Units(s, e) : l.to <= v /\ v < n => IsUnit(v, CR)
  BY <1>1, <1>5, <1>8
<1>12. l.to - width = u
  BY <1>8
<1>13. IsLine(l, s, e)
  BY <1>5, <1>7, <1>8, <1>9, <1>10, <1>11, <1>12 DEF IsLine
<1> QED
  BY <1>1, <1>5, <1>7, <1>8, <1>13

\* Two lines that share a unit are one.
LEMMA LinesDisjoint ==
  ASSUME width \in {1, 2}, NEW s \in Nat, NEW e \in Nat, NEW o \in Int,
         NEW k, IsLine(k, s, e), k.from <= o, o < k.to,
         NEW l, IsLine(l, s, e), l.from <= o, o < l.to
  PROVE  ~(k.from < l.from) /\ ~(k.to < l.to)
<1>1. ASSUME NEW x, IsLine(x, s, e)
      PROVE  /\ x.from \in Nat /\ x.to \in Nat /\ OnGrid(s, x.from) /\ OnGrid(s, x.to)
             /\ s <= x.from
  BY <1>1, UnitsGrid, GridBase DEF IsLine, Newlines
<1>2. ASSUME k.from < l.from PROVE FALSE
  <2>1. l.from - width \in Newlines(s, e) /\ k.from <= l.from - width
    <3>1. l.from - width \in Newlines(s, e)
      BY <1>1, <1>2 DEF IsLine
    <3>2. k.from <= l.from - width
      BY <1>1, <1>2, GridShift
    <3> QED
      BY <3>1, <3>2
  <2>2. l.from - width < k.to
    BY <1>1
  <2> QED
    BY <2>1, <2>2 DEF IsLine
<1>3. ASSUME k.to < l.to PROVE FALSE
  <2>1. PICK n \in Newlines(s, e) :
           k.to <= n /\ \A u \in Units(s, e) : k.to <= u /\ u < n => IsUnit(u, CR)
    BY DEF IsLine
  <2>2. n \in Nat /\ ~(l.from <= n /\ n < l.to)
    BY <2>1, UnitsGrid DEF IsLine, Newlines
  <2>3. k.to <= l.to - width /\ l.to - width < n
    BY <1>1, <1>3, <2>1, <2>2, GridShift
  <2> QED
    BY <2>1, <2>3 DEF IsLine
<1> QED
  BY <1>2, <1>3

\* Every piece of text below the stored offset is in one shipped line, and a
\* shipped line is a whole one.
THEOREM WholeLinesHolds == Spec => []WholeLines
<1>1. IInv => WholeLines
  <2> SUFFICES ASSUME IInv, stored > first PROVE WholeLines
    BY DEF WholeLines
  <2>1. /\ width \in {1, 2} /\ stored \in Nat /\ Begin \in Nat
        /\ stored - width \in Newlines(Begin, stored)
        /\ shipped = LinesOf(Begin, stored)
    BY BoundaryTyped DEF IInv, SplitOnce, LinesBelow, TypeOK
  <2>2. \A l : l \in shipped <=> IsLine(l, Begin, stored)
    BY <2>1, LinesAreLines
  <2>3. ASSUME NEW o \in Units(Begin, stored), ~EndsLine(o)
        PROVE  \E l \in shipped : /\ l.from <= o /\ o < l.to
                                  /\ \A k \in shipped : k.from <= o /\ o < k.to => k = l
    <3>1. o \in Int
      BY <2>1, UnitsGrid
    <3>2. PICK l : IsLine(l, Begin, stored) /\ l.from <= o /\ o < l.to
      <4>1. ~\E n \in Newlines(Begin, stored) :
               o <= n /\ \A u \in Units(Begin, stored) : o <= u /\ u < n => IsUnit(u, CR)
        BY <2>3 DEF EndsLine
      <4> QED
        BY <2>1, <4>1, UnitInLine
    <3>3. ASSUME NEW k \in shipped, k.from <= o, o < k.to PROVE k = l
      <4>1. IsLine(k, Begin, stored)
        BY <2>2
      <4>2. ~(k.from < l.from) /\ ~(k.to < l.to) /\ ~(l.from < k.from) /\ ~(l.to < k.to)
        BY <2>1, <3>1, <3>2, <3>3, <4>1, LinesDisjoint
      <4>3. /\ k \in [from : Nat, to : Nat] /\ l \in [from : Nat, to : Nat]
        BY <2>1, <3>2, <4>1 DEF IsLine
      <4>4. k.from = l.from /\ k.to = l.to
        BY <4>2, <4>3
      <4> QED
        BY <4>3, <4>4
    <3> QED
      BY <2>2, <3>2, <3>3
  <2>4. ASSUME NEW l \in shipped
        PROVE  /\ EndsLine(l.to) /\ ~EndsLine(l.to - width)
               /\ \A o \in Newlines(Begin, stored) : ~(l.from <= o /\ o < l.to)
    <3>1. IsLine(l, Begin, stored)
      BY <2>2
    <3>2. EndsLine(l.to) /\ \A o \in Newlines(Begin, stored) : ~(l.from <= o /\ o < l.to)
      BY <3>1 DEF IsLine, EndsLine
    <3>3. /\ l.from \in Nat /\ l.to \in Nat /\ OnGrid(Begin, l.from) /\ OnGrid(Begin, l.to)
          /\ l.from < l.to /\ l.to - width \in Units(Begin, stored) /\ ~IsUnit(l.to - width, CR)
      BY <2>1, <3>1, UnitsGrid, GridBase DEF IsLine, Newlines
    <3>4. l.from <= l.to - width
      <4>1. /\ l.from \in Int /\ l.to \in Int /\ Begin \in Int
            /\ OnGrid(Begin, l.from) /\ OnGrid(Begin, l.to) /\ l.from < l.to
        BY <2>1, <3>3
      <4>2. OnGrid(Begin, l.from) /\ l.from < l.to => l.from <= l.to - width
        BY ONLY <2>1, <4>1, GridShift
      <4> QED
        BY <4>1, <4>2
    <3>5. ASSUME NEW n \in Newlines(Begin, stored), l.to - width <= n,
                 \A u \in Units(Begin, stored) : l.to - width <= u /\ u < n => IsUnit(u, CR)
          PROVE  FALSE
      <4>1. n \in Int
        BY <2>1, UnitsGrid DEF Newlines
      <4>2. n = l.to - width
        BY <2>1, <3>3, <3>5, <4>1
      <4> QED
        BY <2>1, <3>2, <3>3, <3>4, <4>2
    <3> QED
      BY <3>2, <3>5 DEF EndsLine
  <2> QED
    BY <2>3, <2>4 DEF WholeLines
<1> QED
  BY <1>1, SplitOnceHolds, PTL

\* tailer.py: the guard against an odd end of a chunk is "unreachable".
LEMMA GuardUnreachable ==
  ASSUME TypeOK, NEW o \in Nat, NEW e \in LineEnds(Aligned(o)), width = 2
  PROVE  e % 2 = 0
<1>1. Aligned(o) \in Nat /\ Aligned(o) % 2 = 0
  BY DEF Aligned
<1>2. PICK n \in Newlines(Aligned(o), WindowEnd(Aligned(o))) : e = n + 2
  BY DEF LineEnds
<1>3. n \in Int /\ (n - Aligned(o)) % 2 = 0
  BY <1>1, <1>2 DEF Newlines, Units, WindowEnd, Least, TypeOK
<1> QED
  BY <1>1, <1>2, <1>3

\* tailer.py: an offset of a two-byte encoding that a poll has stored is even.
EvenOffsets == stored # first => stored % width = 0

\* Once a poll has stored an offset, no later one has to be realigned.
THEOREM OffsetsEven == Spec => []EvenOffsets
<1>1. IInv => EvenOffsets
  <2> SUFFICES ASSUME IInv, stored # first PROVE stored % width = 0
    BY DEF EvenOffsets
  <2>1. Aligned(stored) = stored /\ width \in {1, 2} /\ stored \in Nat
    BY BoundaryTyped DEF IInv, SplitOnce, TypeOK
  <2>2. CASE width = 1
    BY <2>1, <2>2
  <2>3. CASE width = 2
    BY <2>1, <2>3 DEF Aligned
  <2> QED
    BY <2>1, <2>2, <2>3
<1> QED
  BY <1>1, SplitOnceHolds, PTL

\* drain_file's guard against a chunk that does not advance never bites: a
\* drain comes to its end.
DrainAdvances == [][TailLines => at < at' /\ at' <= Len(bytes)]_vars

\* Each chunk of a drain ends behind the one before and within the file.
THEOREM DrainTerminates == Spec => DrainAdvances
<1>1. IInv /\ [Next]_vars => [TailLines => at < at' /\ at' <= Len(bytes)]_vars
  <2> SUFFICES ASSUME IInv, TailLines PROVE at < at' /\ at' <= Len(bytes)
    OBVIOUS
  <2>1. PICK e \in ConsumedEnds(Aligned(at)) : at' = e
    BY DEF TailLines
  <2>2. at \in Nat /\ Boundary(at) /\ TypeOK
    BY DEF IInv, SplitOnce, TailLines, TypeOK
  <2>3. e \in Nat /\ at < e /\ Boundary(e)
    BY <2>2, ChunkAdds
  <2>4. e # first
    BY <2>2, <2>3, BoundaryTyped DEF TypeOK, Boundary
  <2> QED
    BY <2>1, <2>3, <2>4 DEF Boundary
<1> QED
  BY <1>1, SplitOnceHolds, PTL DEF Spec, DrainAdvances

\* What is left of the file behind a boundary.
LEMMA RestOfFile ==
  ASSUME TypeOK, NEW o \in Nat, Boundary(o)
  PROVE  /\ Aligned(o) \in Nat /\ Begin \in Nat /\ Begin <= Aligned(o)
         /\ OnGrid(Begin, Aligned(o))
         /\ LinesOf(Begin, Len(bytes)) = LinesBelow(o) \union LinesOf(Aligned(o), Len(bytes))
         /\ \A l \in LinesBelow(o) : l.to <= Aligned(o)
<1>1. width \in {1, 2} /\ Len(bytes) \in Nat
  BY DEF TypeOK
<1>2. CASE o = first
  <2>1. Aligned(o) = Begin /\ Begin \in Nat
    <3>1. CASE width = 1
      BY <1>2, <3>1 DEF Begin, Aligned, TypeOK
    <3>2. CASE width = 2
      BY <1>2, <3>2 DEF Begin, Aligned, TypeOK
    <3> QED
      BY <1>1, <3>1, <3>2
  <2>2. OnGrid(Begin, Begin)
    BY <1>1, <2>1, GridBase
  <2> QED
    BY <1>2, <2>1, <2>2 DEF LinesBelow
<1>3. CASE o # first
  <2>1. /\ o - width \in Newlines(Begin, o) /\ o <= Len(bytes) /\ Begin < o
        /\ Aligned(o) = o /\ Begin \in Nat
    BY <1>3, BoundaryTyped
  <2>2. LinesOf(Begin, Len(bytes)) = LinesOf(Begin, o) \union LinesOf(o, Len(bytes))
    BY <1>1, <2>1, Additive
  <2>3. OnGrid(Begin, o)
    BY <1>1, <2>1, UnitsGrid, GridBase DEF Newlines
  <2>4. \A l \in LinesOf(Begin, o) : l.to <= o
    BY <1>1, <2>1, LineInside
  <2> QED
    BY <1>3, <2>1, <2>2, <2>3, <2>4 DEF LinesBelow
<1> QED
  BY <1>2, <1>3

\* Of lines there is a first.
LEMMA FirstLine ==
  ASSUME width \in {1, 2}, NEW s \in Nat, NEW e \in Nat, LinesOf(s, e) # {}
  PROVE  \E l \in LinesOf(s, e) : \A k \in LinesOf(s, e) : l.from <= k.from
<1> DEFINE F == {l.from : l \in LinesOf(s, e)}
<1>1. F \subseteq Nat /\ F # {}
  BY LineInside
<1>2. \E m \in F : \A n \in F : m <= n
  BY <1>1, LeastOffset
<1> QED
  BY <1>2

\* A window that holds a newline gives a chunk with every line up to there.
LEMMA WindowGives ==
  ASSUME TypeOK, NEW o \in Nat, NEW n \in Newlines(Aligned(o), Len(bytes)),
         n + width <= Aligned(o) + window,
         NEW l \in LinesOf(Aligned(o), Len(bytes)), l.to <= n
  PROVE  \E e \in ConsumedEnds(Aligned(o)) : l \in LinesOf(Aligned(o), e)
<1> DEFINE s == Aligned(o)
<1>1. s \in Nat /\ width \in {1, 2} /\ Len(bytes) \in Nat /\ window \in Nat
  BY DEF Aligned, TypeOK
<1>2. /\ WindowEnd(s) \in Nat /\ WindowEnd(s) <= Len(bytes)
      /\ \A m \in Nat : m <= s + window /\ m <= Len(bytes) => m <= WindowEnd(s)
  BY <1>1 DEF WindowEnd, Least
<1> HIDE DEF s
<1>3. n \in Int /\ s <= n /\ n + width <= Len(bytes) /\ OnGrid(s, n) /\ IsUnit(n, LF)
  BY <1>1, UnitsGrid DEF Newlines, s
<1>4. n + width <= WindowEnd(s)
  BY <1>1, <1>2, <1>3 DEF s
<1>5. n \in Newlines(s, WindowEnd(s))
  BY <1>1, <1>2, <1>3, <1>4, UnitsGrid DEF Newlines
<1>6. n + width \in LineEnds(s)
  BY <1>5 DEF LineEnds
<1>7. LineEnds(s) \subseteq 0 .. WindowEnd(s)
  <2>1. ASSUME NEW d \in LineEnds(s) PROVE d \in 0 .. WindowEnd(s)
    <3>1. PICK m \in Newlines(s, WindowEnd(s)) : d = m + width
      BY DEF LineEnds
    <3>2. m \in Int /\ s <= m /\ m <= WindowEnd(s) - width
      BY <1>1, <1>2, <3>1, UnitsGrid DEF Newlines
    <3> QED
      BY <1>1, <1>2, <3>1, <3>2
  <2> QED
    BY <2>1
<1>8. PICK e \in LineEnds(s) : \A d \in LineEnds(s) : d <= e
  BY <1>2, <1>6, <1>7, GreatestOffset
<1>9. width = 2 => e % 2 = 0
  BY <1>8, GuardUnreachable DEF s
<1>10. e \in ConsumedEnds(s)
  BY <1>8, <1>9 DEF ConsumedEnds
<1>11. e \in Nat /\ n + width <= e /\ e <= Len(bytes)
  BY <1>1, <1>2, <1>6, <1>7, <1>8
<1>12. e - width \in Newlines(s, e)
  <2>1. PICK m \in Newlines(s, WindowEnd(s)) : e = m + width
    BY <1>8 DEF LineEnds
  <2>2. m \in Int /\ s <= m /\ OnGrid(s, m) /\ IsUnit(m, LF)
    BY <1>1, <1>2, <2>1, UnitsGrid DEF Newlines
  <2>3. e - width = m
    BY <1>1, <2>1, <2>2
  <2> QED
    BY <1>1, <1>11, <2>2, <2>3, UnitsGrid DEF Newlines
<1>13. LinesOf(s, Len(bytes)) = LinesOf(s, e) \union LinesOf(e, Len(bytes))
  BY <1>1, <1>11, <1>12, Additive
<1>14. l \notin LinesOf(e, Len(bytes))
  <2>1. ASSUME l \in LinesOf(e, Len(bytes)) PROVE FALSE
    <3>1. l.from \in Int /\ l.to \in Int /\ e <= l.from /\ l.from < l.to
      BY <1>1, <1>11, <2>1, LineInside
    <3> QED
      BY <1>1, <1>3, <1>11, <3>1
  <2> QED
    BY <2>1
<1> QED
  BY <1>10, <1>13, <1>14 DEF s

\* A poll that stops reading has left no complete line behind that fits into
\* its windows.
THEOREM DrainLeavesNothing == Spec => DrainComplete
<1>1. ASSUME IInv, TailNothing, Fits
      PROVE  shipped \union records = LinesOf(Begin, Len(bytes))
  <2>1. TypeOK /\ at \in Nat /\ Boundary(at) /\ shipped \union records = LinesBelow(at)
    BY <1>1 DEF IInv, SplitOnce, TailNothing, TypeOK
  <2> DEFINE s == Aligned(at)
             end == Len(bytes)
  <2>2. /\ s \in Nat /\ Begin \in Nat /\ Begin <= s /\ OnGrid(Begin, s)
        /\ LinesOf(Begin, end) = LinesBelow(at) \union LinesOf(s, end)
        /\ \A l \in LinesBelow(at) : l.to <= s
    BY <2>1, RestOfFile
  <2>3. width \in {1, 2} /\ end \in Nat /\ window \in Nat
    BY <2>1 DEF TypeOK
  <2>4. ASSUME LinesOf(s, end) # {} PROVE FALSE
    <3>1. PICK l \in LinesOf(s, end) : \A k \in LinesOf(s, end) : l.from <= k.from
      BY <2>2, <2>3, <2>4, FirstLine
    <3>2. PICK n \in Newlines(Begin, end) :
             /\ l.to <= n
             /\ \/ n + width <= Begin + window
                \/ \E k \in LinesOf(Begin, end) : k.from < l.from /\ n + width <= k.to + window
      BY <1>1, <2>2, <3>1 DEF Fits
    <3>3. l.from \in Nat /\ l.to \in Nat /\ s <= l.from /\ l.from < l.to
      BY <2>2, <2>3, <3>1, LineInside
    <3>4. n \in Nat /\ s <= n /\ n <= end - width /\ OnGrid(Begin, n) /\ IsUnit(n, LF)
      BY <2>2, <2>3, <3>2, <3>3, UnitsGrid DEF Newlines
    <3>5. n \in Newlines(s, end)
      BY <2>2, <2>3, <3>4, UnitsGrid, GridShift DEF Newlines
    <3>6. n + width <= s + window
      <4>1. CASE n + width <= Begin + window
        BY <2>2, <2>3, <3>4, <4>1
      <4>2. ASSUME NEW k \in LinesOf(Begin, end), k.from < l.from, n + width <= k.to + window
            PROVE  n + width <= s + window
        <5>1. k.from \in Nat /\ k.to \in Nat
          BY <2>2, <2>3, <4>2, LineInside
        <5>2. k \notin LinesOf(s, end)
          BY <3>1, <3>3, <4>2, <5>1
        <5>3. k.to <= s
          BY <2>2, <5>2
        <5> QED
          BY <2>2, <2>3, <3>4, <4>2, <5>1, <5>3
      <4> QED
        BY <3>2, <4>1, <4>2
    <3>7. \E e \in ConsumedEnds(s) : l \in LinesOf(s, e)
      BY <2>1, <3>1, <3>2, <3>5, <3>6, WindowGives
    <3> QED
      BY <1>1, <3>7 DEF TailNothing
  <2> QED
    BY <2>1, <2>2, <2>4
<1>2. IInv /\ [Next]_vars =>
        [TailNothing /\ Fits => shipped \union records = LinesOf(Begin, Len(bytes))]_vars
  BY <1>1
<1> QED
  BY <1>2, SplitOnceHolds, PTL DEF Spec, DrainComplete
=============================================================================
