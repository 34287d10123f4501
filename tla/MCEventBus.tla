----------------------------- MODULE MCEventBus -----------------------------
(***************************************************************************)
(* An instance of EventBus for TLC: two publishers, two subscribers, and   *)
(* queues that one message fills by count, and two may fill by bytes (one   *)
(* queued, one in the pump's hands).                                       *)
(***************************************************************************)
EXTENDS EventBus, TLC

CONSTANTS p1, p2, s1, s2

MCPublisher == {p1, p2}
MCSub == {s1, s2}

MCMaxPublished == [p \in MCPublisher |-> IF p = p1 THEN 2 ELSE 1]

\* The messages of p1 are larger than those of p2.
MCSize == [m \in BusMessage |-> IF m[1] = p1 THEN 2 ELSE 1]
=============================================================================
