-------------------------- MODULE MCRolloutGateway --------------------------
(***************************************************************************)
(* Instances of RolloutGateway: a task of two samples and one of a single  *)
(* sample, in pools of one or two workers.                                 *)
(***************************************************************************)
EXTENDS RolloutGateway, TLC

CONSTANTS t1, t2, s1, s2, s3

MCTask == {t1, t2}
MCSession == {s1, s2, s3}
MCSessions == t1 :> <<s1, s2>> @@ t2 :> <<s3>>
MCCallbacks == {{s1}, {s3}}
MCNoCallbacks == {{}}
=============================================================================
