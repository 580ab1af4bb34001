----------------------------- MODULE MCLanding -----------------------------
(***************************************************************************)
(* Instances of Landing for TLC: a collection that all controllers share,  *)
(* and logs that each host has to itself.                                  *)
(***************************************************************************)
EXTENDS Landing

CONSTANTS a, b  \* two hosts

OneItem == {1}
TwoItems == 1..2
TwoHosts == {a, b}
Shared == [h \in TwoHosts |-> OneItem]
OwnItem == [h \in TwoHosts |-> IF h = a THEN {1} ELSE {2}]
Together == {{}}
InTurn == {OneItem}
TogetherOrInTurn == {{}, OneItem}
=============================================================================
