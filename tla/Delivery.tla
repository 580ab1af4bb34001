----------------------------- MODULE Delivery ------------------------------
(***************************************************************************)
(* What the agent promises of one collection, without saying how: at-least *)
(* -once delivery from a source it does not control (README section 6).    *)
(*                                                                         *)
(* A checkpoint covers some items of the source: they will not be looked   *)
(* at again.  Items are taken from the source, published all together, and *)
(* only what has been published may be covered.  What was taken may be     *)
(* abandoned at any time; the source may change at any time, but nothing   *)
(* new appears in it already covered.                                      *)
(***************************************************************************)
CONSTANT Items
VARIABLES
  source,     \* what can be read now
  inflight,   \* what the current attempt has taken
  delivered,  \* what has been published, for good
  covered     \* what no later attempt will take

vars == <<source, inflight, delivered, covered>>

Init == source = {} /\ inflight = {} /\ delivered = {} /\ covered = {}

Change ==
  /\ source' \subseteq Items
  /\ covered' = covered \intersect source'
  /\ UNCHANGED <<inflight, delivered>>

Take ==
  /\ \E batch \in SUBSET source : inflight' = inflight \union batch
  /\ UNCHANGED <<source, delivered, covered>>

Publish ==
  /\ delivered' = delivered \union inflight
  /\ UNCHANGED <<source, inflight, covered>>

Checkpoint ==
  /\ covered' \subseteq source \intersect delivered
  /\ UNCHANGED <<source, inflight, delivered>>

Abandon ==
  /\ inflight' = {}
  /\ UNCHANGED <<source, delivered, covered>>

Next == Change \/ Take \/ Publish \/ Checkpoint \/ Abandon
Spec == Init /\ [][Next]_vars

\* The promise: what will not be looked at again has been delivered.
Promise == covered \subseteq delivered
=============================================================================
