----------------------------- MODULE MCLogShip -----------------------------
(***************************************************************************)
(* Instances of LogShip for TLC, and what the documentation says of the    *)
(* shipper that the code does not do.                                      *)
(***************************************************************************)
EXTENDS LogShip

NoLongLines == {}
LastLineLong == {[file |-> 2, n |-> 2]}

\* sources.py, _provisional_key: files too small for a fingerprint are keyed
\* by path "so each is tracked independently".
TrackedIndependently == \A f \in Present : LinesOf(f, Start(f)) \subseteq Delivered
=============================================================================
