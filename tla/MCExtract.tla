----------------------------- MODULE MCExtract -----------------------------
(***************************************************************************)
(* Instances of Extract for TLC.  The operator's choices of mode and the   *)
(* documents are named here; each cfg gives the numbers.                   *)
(***************************************************************************)
EXTENDS Extract

Mutable == {"mutable"}
EveryMode == {"append_only", "mutable", "full_refresh"}
TwoDocs == 1..2
ThreeDocs == 1..3
NoDocs == {}

\* NoLoss for documents that were shipped before: when such a document is
\* updated, the newer version is shipped or will be asked for.  README
\* section 8, "Watermark state on failover": the overlap window "never loses data".
NewerVersionNotLost ==
  \A v \in coll :
    Shippable(v) /\ (\E u \in Delivered : u.doc = v.doc)
      => v \in Delivered \/ Selects(NextFilter, v)
=============================================================================
