----------------------------- MODULE MCWorkload -----------------------------
(***************************************************************************)
(* Instances of Workload for TLC.                                          *)
(***************************************************************************)
EXTENDS Workload

NoAgents == {}
SecondReviewer == {<<"review", 2>>}
=============================================================================
