------------------------------- MODULE Tailer -------------------------------
(***************************************************************************)
(* Bytes, windows and lines: tail_file and drain_file (logs/tailer.py)     *)
(* with the offset that ship_source (logs/ship.py) stores, on one file     *)
(* that the application extends a byte at a time while it is read.         *)
(*                                                                         *)
(* Offsets count bytes from 0.  A line is the interval of the bytes of its *)
(* text: [from, to) without the newline and the CRs before it.  What       *)
(* LogShip shows of files, rotation and uploads is left out; there a poll  *)
(* reads whole lines.                                                      *)
(*                                                                         *)
(* The encodings are those of _NEWLINE_PATTERNS, and others that are one   *)
(* byte wide.  A wider encoding that is not in the table (utf-16,          *)
(* utf-16-be, utf-32) is searched for a one-byte newline and yet decoded   *)
(* as what it is: it is outside this module.                               *)
(***************************************************************************)
EXTENDS Integers, Sequences

CONSTANTS
  Sources,    \* sources, with the offset the table has for the file at first
  Other,      \* bytes that are neither LF, CR nor zero
  MaxLen,     \* bound: bytes of the file
  MaxFaults   \* bound: polls and reads that fail

LF == 10
CR == 13
Byte == {0, LF, CR} \union Other

ASSUME TailerAssumption ==
  /\ Sources \subseteq [width : {1, 2}, window : Nat \ {0}, first : Nat]
  /\ MaxLen \in Nat /\ MaxFaults \in Nat

VARIABLES
  width,    \* bytes in a code unit: 2 in UTF-16LE, 1 in UTF-8, ASCII, Latin-1
  window,   \* max_bytes_per_poll
  first,    \* the offset stored at first
  bytes,    \* the file
  stored,   \* its offset in file_offsets
  pc,       \* where the poll stands; "idle" between polls
  at,       \* offset of drain_file
  records,  \* lines of the chunks drained so far
  shipped,  \* lines that were uploaded and committed
  faults    \* faults so far

source == <<width, window, first>>
poll == <<pc, at, records>>
vars == <<width, window, first, bytes, stored, pc, at, records, shipped, faults>>

Least(a, b) == IF a < b THEN a ELSE b

\* Is the code unit at offset o this control character?
IsUnit(o, c) == bytes[o + 1] = c /\ (width = 2 => bytes[o + 2] = 0)

\* Offsets of the whole code units that decoding [s, e) from s gives.
Units(s, e) == {o \in s .. e - width : (o - s) % width = 0}
Newlines(s, e) == {o \in Units(s, e) : IsUnit(o, LF)}

\* Fault: an odd offset is moved back.
AlignedBack(start) == IF width = 2 /\ start % 2 # 0 THEN start - 1 ELSE start

\* An odd offset into a two-byte encoding is moved forward, never back.
Aligned(start) == IF width = 2 /\ start % 2 # 0 THEN start + 1 ELSE start

\* raw, one f.read(max_bytes), ends here.
WindowEnd(s) == Least(s + window, Len(bytes))

\* Fault: the window's last byte counts as consumed.
WholeWindow(s) == {WindowEnd(s)}

\* Fault: rfind takes the last match of the pattern wherever it lies.
UnalignedEnds(s) ==
  {o + width : o \in {p \in s .. WindowEnd(s) - width : IsUnit(p, LF)}}

\* Ends of the complete lines in the window: a match of the pattern that
\* straddles two code units is no newline.
LineEnds(s) == {o + width : o \in Newlines(s, WindowEnd(s))}

\* consumed_end: past the last newline, and nothing past it; none without a
\* newline, and none at an odd offset of a two-byte encoding.
ConsumedEnds(s) ==
  {e \in LineEnds(s) : (\A d \in LineEnds(s) : d <= e) /\ (width = 2 => e % 2 = 0)}

\* The lines of [s, e): split at "\n", each without the CRs at its end, and
\* none that is empty then.
LinesOf(s, e) ==
  LET units == Units(s, e)
      news == Newlines(s, e)
  IN {l \in [from : {s} \union {n + width : n \in news},
             to : {o + width : o \in units}] :
       /\ l.from < l.to /\ ~IsUnit(l.to - width, CR)
       /\ \A o \in news : ~(l.from <= o /\ o < l.to)
       /\ \E n \in news :
            /\ l.to <= n
            /\ \A o \in units : l.to <= o /\ o < n => IsUnit(o, CR)}

---------------------------------------------------------------------------
Init ==
  /\ \E s \in Sources : width = s.width /\ window = s.window /\ first = s.first
  /\ bytes \in [1..first -> Byte] /\ stored = first
  /\ pc = "idle" /\ at = 0 /\ records = {} /\ shipped = {}
  /\ faults = 0

\* The application writes; the file may end anywhere in a line or a unit.
Write(b) ==
  /\ Len(bytes) < MaxLen
  /\ bytes' = Append(bytes, b)
  /\ UNCHANGED <<source, stored, poll, shipped, faults>>

\* discover: the file has not shrunk below the offset.
StartPoll ==
  /\ pc = "idle"
  /\ pc' = "drain" /\ at' = stored
  /\ UNCHANGED <<source, bytes, stored, records, shipped, faults>>

\* tail_file returns lines: drain_file goes on behind them.
TailLines ==
  /\ pc = "drain"
  /\ \E e \in ConsumedEnds(Aligned(at)) :
       /\ LinesOf(Aligned(at), e) # {}
       /\ records' = records \union LinesOf(Aligned(at), e)
       /\ at' = e
  /\ UNCHANGED <<source, bytes, stored, pc, shipped, faults>>

\* tail_file returns no line: the drain ends where it was, whatever newlines
\* of blank lines the window had.
TailNothing ==
  /\ pc = "drain"
  /\ \A e \in ConsumedEnds(Aligned(at)) : LinesOf(Aligned(at), e) = {}
  /\ pc' = "ship"
  /\ UNCHANGED <<source, bytes, stored, at, records, shipped, faults>>

\* The file has vanished or cannot be read: as if it had nothing more.
ReadFails ==
  /\ pc = "drain"
  /\ faults < MaxFaults
  /\ faults' = faults + 1
  /\ pc' = "ship"
  /\ UNCHANGED <<source, bytes, stored, at, records, shipped>>

Return == pc' = "idle" /\ at' = 0 /\ records' = {}

\* Nothing new: no upload, and no offset is stored.
FinishEmpty ==
  /\ pc = "ship"
  /\ records = {}
  /\ Return
  /\ UNCHANGED <<source, bytes, stored, shipped, faults>>

\* The upload, and the offset once it is confirmed.
Commit ==
  /\ pc = "ship"
  /\ records # {}
  /\ shipped' = shipped \union records
  /\ stored' = at
  /\ Return
  /\ UNCHANGED <<source, bytes, faults>>

\* The poll fails or is killed before its commit.
Interrupt ==
  /\ pc # "idle"
  /\ faults < MaxFaults
  /\ faults' = faults + 1
  /\ Return
  /\ UNCHANGED <<source, bytes, stored, shipped>>

Agent == TailLines \/ TailNothing \/ FinishEmpty \/ Commit

Next ==
  \/ \E b \in Byte : Write(b)
  \/ StartPoll \/ Agent \/ ReadFails \/ Interrupt

Spec == Init /\ [][Next]_vars

\* Polls are started again and again and run on; the application may stop
\* anywhere.
FairSpec == Spec /\ WF_vars(StartPoll) /\ WF_vars(Agent)

---------------------------------------------------------------------------
Line == [from : Nat, to : Nat]

TypeOK ==
  /\ width \in {1, 2} /\ window \in Nat \ {0} /\ first \in Nat
  /\ bytes \in Seq(Byte)
  /\ stored \in Nat /\ at \in Nat
  /\ pc \in {"idle", "drain", "ship"}
  /\ records \subseteq Line /\ shipped \subseteq Line
  /\ faults \in Nat

\* Where the first decodable unit of the file's unread part begins.
Begin == first + (first % width)

\* An offset is where the table began, or lies just behind a newline; between
\* the two there are whole code units.
Boundary(o) ==
  \/ o = first
  \/ o <= Len(bytes) /\ o - width \in Newlines(Begin, Len(bytes))

\* The lines below a boundary: none where the table began.
LinesBelow(o) == IF o = first THEN {} ELSE LinesOf(Begin, o)

\* What was committed is exactly what splitting the file once, from its first
\* offset to the stored one, gives: however the polls cut it into windows and
\* whatever was half written when they read.  So it is for a poll under way.
SplitOnce ==
  /\ Boundary(stored) /\ shipped = LinesBelow(stored)
  /\ IF pc = "idle" THEN records = {}
     ELSE Boundary(at) /\ shipped \union records = LinesBelow(at)

IInv == TypeOK /\ SplitOnce

\* The text below the stored offset, unit by unit of the encoding: a unit is
\* in one shipped line, or it ends a line; no shipped line holds a newline, or
\* ends before its own (tailer.py: "Data loss", "Corruption").
EndsLine(o) ==
  \E n \in Newlines(Begin, stored) :
    o <= n /\ \A u \in Units(Begin, stored) : o <= u /\ u < n => IsUnit(u, CR)

WholeLines ==
  stored > first =>
    /\ \A o \in Units(Begin, stored) :
         \/ EndsLine(o)
         \/ \E l \in shipped : /\ l.from <= o /\ o < l.to
                               /\ \A k \in shipped : k.from <= o /\ o < k.to => k = l
    /\ \A l \in shipped : /\ EndsLine(l.to) /\ ~EndsLine(l.to - width)
                          /\ \A o \in Newlines(Begin, stored) : ~(l.from <= o /\ o < l.to)

\* From the end of one line the next one, with the blank lines between them
\* and its newline, fits into one read.
Fits ==
  LET lines == LinesOf(Begin, Len(bytes)) IN
  \A l \in lines :
    \E n \in Newlines(Begin, Len(bytes)) :
      /\ l.to <= n
      /\ \/ n + width <= Begin + window
         \/ \E k \in lines : k.from < l.from /\ n + width <= k.to + window

\* The polls as a reader of lines.
Reader == INSTANCE LineReader WITH
  lines <- LinesOf(Begin, Len(bytes)),
  done <- shipped

\* Whatever the application writes and however polls cut it, byte by byte, what
\* one sees of it is a file that grows by whole lines and a reader that hands
\* them on in order, which is what LogShip takes lines and offsets to be.
ReadsInOrder == Reader!Spec

\* A drain that ends of its own accord has every complete line of the file, in
\* hand or shipped before, whatever blank lines, straddling patterns and odd
\* offsets its windows met: what Drains comes to for one poll.
DrainComplete ==
  [][TailNothing /\ Fits => shipped \union records = LinesOf(Begin, Len(bytes))]_vars

\* Once the application is quiet, every complete line has been shipped, if no
\* line with the blank ones before it is longer than a read.
Drains ==
  <>[](Fits => shipped = LinesOf(Begin, Len(bytes)))
=============================================================================
