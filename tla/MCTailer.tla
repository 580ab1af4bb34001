------------------------------ MODULE MCTailer ------------------------------
(***************************************************************************)
(* An instance of Tailer for TLC: a service log read through a small       *)
(* window, a gallery log, and one whose offset was stored while the source *)
(* was configured with a one-byte encoding.                                *)
(***************************************************************************)
EXTENDS Tailer

ThreeSources ==
  {[width |-> 1, window |-> 3, first |-> 0],
   [width |-> 2, window |-> 7, first |-> 0],
   [width |-> 2, window |-> 4, first |-> 1]}
=============================================================================
