----------------------------- MODULE MCSandbox -----------------------------
(***************************************************************************)
(* Instances of Sandbox: two jobs that share a container name or not, on   *)
(* a host with one runner wired or with the router over all three.         *)
(***************************************************************************)
EXTENDS Sandbox, TLC

CONSTANTS j1, j2

MCJob == {j1, j2}
Same == [j \in MCJob |-> "n"]
Own == [j \in MCJob |-> IF j = j1 THEN "n" ELSE "m"]

Host(runner, allow, degraded, runsc, kvm) ==
  [runner |-> runner, allowDockerTrusted |-> allow, dockerWired |-> TRUE,
   degradedMode |-> degraded, firecrackerWired |-> ~degraded, runsc |-> runsc, kvm |-> kvm]

Asks(host, name, p1, p2) ==
  host @@ [name |-> name, profile |-> [j \in MCJob |-> IF j = j1 THEN p1 ELSE p2]]

MCScenario ==
  {Asks(Host(Docker, FALSE, FALSE, FALSE, FALSE), Same, "", ""),
   Asks(Host("router", TRUE, FALSE, TRUE, TRUE), Own, Docker, Firecracker),
   Asks(Host("router", FALSE, FALSE, TRUE, TRUE), Same, Docker, ""),
   Asks(Host("router", FALSE, TRUE, TRUE, FALSE), Same, Firecracker, "unknown"),
   Asks(Host("router", FALSE, FALSE, FALSE, FALSE), Own, GVisor, Firecracker)}
=============================================================================
