----------------------------- MODULE MCDispatch -----------------------------
(***************************************************************************)
(* Instances of Dispatch: the catalog of server.go, a HAL whose GPU comes  *)
(* and goes, and calls of each tool.                                       *)
(***************************************************************************)
EXTENDS Dispatch

CONSTANTS c1, c2

Cap(id, health, latency, cost, reliability, tags, flags) ==
  [id |-> id, health |-> health, latency |-> latency, cost |-> cost, queue |-> 0,
   reliability |-> reliability, tags |-> tags, flags |-> flags]

CPU == Cap("cpu-baseline", "healthy", "baseline", "low", "standard", {"default"}, {})
GPU(health) == Cap("gpu-accelerated", health, "fast", "high", "gold",
                   {"inference-heavy", "deterministic-edit", "default"}, {"sparse"})
SSM == Cap("ssm-longctx", "healthy", "baseline", "medium", "gold", {"long-context"}, {"ssm"})

MCIdOrder == <<"cpu-baseline", "gpu-accelerated", "ssm-longctx">>
MCCaller == {c1, c2}

\* The HAL reports its GPU unavailable, next to a malformed record.
MCHalStates == {{CPU, GPU("unavailable"), [SSM EXCEPT !.health = "unknown"]}}
\* The second catalog has a GPU for default workloads only.
MCSeeds == {{CPU, GPU("healthy")}, {CPU, [GPU("healthy") EXCEPT !.tags = {"default"}]}}
MCLongSeeds == {{CPU, GPU("healthy"), SSM}}

\* The window of sequence lengths is the default one.
MCPolicy ==
  [DefaultPolicy EXCEPT
     !.enabled = TRUE, !.maxQueue = 0,
     !.sparse = [enabled |-> TRUE, tradeoff |-> 40, minQuality |-> 98],
     !.ssm.enabled = TRUE, !.ssm.bias = 20]

Hw(context, latency, mechanical, quality) ==
  [tool |-> "hw", context |-> context, latency |-> latency, mechanical |-> mechanical,
   quality |-> quality, tags |-> {}]
Batch(specs, timeout) == [tool |-> "batch", specs |-> specs, timeout |-> timeout]
Sparse(quality, maxRAM) == [tool |-> "sparse", maxRAM |-> maxRAM, quality |-> quality]

MCCalls ==
  [c \in MCCaller |->
     IF c = c1
     THEN {Hw(100, "batch", FALSE, 50),
           Batch(<<[ok |-> TRUE, profile |-> ""], [ok |-> FALSE, profile |-> ""],
                   [ok |-> TRUE, profile |-> "gvisor-fast"]>>, 3600)}
     ELSE {Hw(100, "batch", FALSE, -1), Sparse(-1, 512), Sparse(50, 512)}]

\* A long context within the default window, and one past it.
MCLongCalls ==
  [c \in MCCaller |-> {Hw(32768, "batch", FALSE, -1), Hw(65536, "batch", FALSE, -1)}]

NoPlugin == [kind |-> "none"]
PluginFails == [kind |-> "error"]
PluginPrefers(p) == [kind |-> "scores",
                     answers |-> [q \in Provider |-> IF q = p THEN 5000 ELSE 2000]]

MCPlugins == {NoPlugin, PluginPrefers("cpu-baseline")}
MCNoPlugins == {NoPlugin}
=============================================================================
