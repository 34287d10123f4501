--------------------------- MODULE MCMemoryBroker ---------------------------
(***************************************************************************)
(* Instances of MemoryBroker for TLC.                                      *)
(***************************************************************************)
EXTENDS MemoryBroker, TLC

CONSTANTS e1, e2, e3, e4, s1, s2

MCEvent3 == {e1, e2, e3}
MCEvent4 == {e1, e2, e3, e4}
MCSub0 == {}
MCSub1 == {s1}
MCSub2 == {s1, s2}

\* The records of the first N events.
MCMessage == (1..Cardinality(Event)) \X Event

MCSize == [m \in MCMessage |-> IF m[2] = e1 THEN 2 ELSE 1]
=============================================================================
