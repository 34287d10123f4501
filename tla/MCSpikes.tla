------------------------------ MODULE MCSpikes ------------------------------
(***************************************************************************)
(* An instance of Spikes: four writes by three workspaces.                 *)
(***************************************************************************)
EXTENDS Spikes, TLC

CONSTANTS w1, w2, w3, w4

MCWriter == {w1, w2, w3, w4}
MCWrite ==
  {[workspace |-> "a", path |-> "p", sig |-> "1"], [workspace |-> "a", path |-> "p", sig |-> "2"],
   [workspace |-> "b", path |-> "p", sig |-> "1"], [workspace |-> "c", path |-> "p", sig |-> "2"]}
MCWorkspaceOrder == <<"a", "b", "c">>
MCPathOrder == <<"p", "q">>
MCSymmetry == Permutations(MCWriter)
=============================================================================
