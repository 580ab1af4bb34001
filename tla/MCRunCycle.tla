----------------------------- MODULE MCRunCycle -----------------------------
(***************************************************************************)
(* Instances of RunCycle for TLC.                                          *)
(***************************************************************************)
EXTENDS RunCycle

MongoAndMetrics == {"mongo", "hostmetrics"}
JustMetrics == {{"hostmetrics"}}
JustMongo == {"mongo"}
MongoOnly == {JustMongo}
=============================================================================
