---------------------------- MODULE LineReader -----------------------------
(***************************************************************************)
(* What reading a growing file by lines promises, without bytes, windows   *)
(* or encodings (tailer.py, the module's docstring): lines that are        *)
(* complete stay as they are and new ones follow them; they are handed on  *)
(* in their order, whole, with none left out.  LogShip takes the tailer to *)
(* be this.                                                                *)
(***************************************************************************)
EXTENDS Naturals

VARIABLES
  lines,  \* the complete lines of the file: where each begins and ends
  done    \* those that have been handed on

vars == <<lines, done>>

Line == {l \in [from : Nat, to : Nat] : l.from < l.to}

Init == lines = {} /\ done = {}

\* The file grows.
Grow ==
  /\ lines \subseteq lines' /\ lines' \subseteq Line
  /\ \A k \in lines, l \in lines' \ lines : k.to < l.from
  /\ UNCHANGED done

\* The next lines are handed on, up to one of them.
HandOn ==
  /\ done \subseteq done' /\ done' \subseteq lines
  /\ \A l \in done', k \in lines : k.from < l.from => k \in done'
  /\ UNCHANGED lines

Next == Grow \/ HandOn
Spec == Init /\ [][Next]_vars

TypeOK == lines \subseteq Line /\ done \subseteq lines

\* The promise: no line before one that was handed on is missing.
Promise == \A l \in done, k \in lines : k.from < l.from => k \in done
=============================================================================
