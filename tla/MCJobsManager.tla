---------------------------- MODULE MCJobsManager ----------------------------
(***************************************************************************)
(* Instances of JobsManager for TLC.                                       *)
(***************************************************************************)
EXTENDS JobsManager

CONSTANTS j1, j2, w1, w2

MCJob2 == {j1, j2}
MCWorker1 == {w1}
MCWorker2 == {w1, w2}
MCTimed == {j1}
=============================================================================
