----------------------------- MODULE SpikeKinds -----------------------------
(***************************************************************************)
(* The vocabulary of AST spikes shared by the detectors (Spikes) and by    *)
(* the streams that carry them (HttpServer): the order of the kinds, the   *)
(* scorer of dispatch/ast_spike_filter.go and the match of a subscription  *)
(* in dispatch/spike_subscriptions.go.                                     *)
(***************************************************************************)
EXTENDS Integers, FiniteSets

SpikeTopic == {"ast/spike", "ast/semantic-spike", "ast/conflict-warning"}

rank(kind) ==
  CASE kind = "cosmetic" -> 1
    [] kind \in {"symbol_added", "symbol_removed"} -> 2
    [] kind = "signature_change" -> 3
    [] OTHER -> 0

\* An unknown threshold counts as the strongest.
thresholdRank(threshold) ==
  IF threshold = "any" THEN 1
  ELSE IF rank(threshold) > 0 THEN rank(threshold)
  ELSE rank("signature_change")

NormalizeSemanticThreshold(threshold) ==
  IF threshold = "" THEN "signature_change" ELSE threshold

ValidThreshold(threshold) ==
  threshold \in {"", "signature_change", "symbol_added", "symbol_removed", "any"}

\* The kind of a write of sig to a symbol whose known signature is prior; the
\* feeder gives every write a symbol and a signature, and no kind of its own.
HeuristicSemanticScorer(sig, prior, seen) ==
  IF ~seen THEN "symbol_added"
  ELSE IF prior # sig THEN "signature_change"
  ELSE "cosmetic"

---------------------------------------------------------------------------
(* A record carries the kind, the workspaces and the paths that its payload *)
(* shows; glob is the set of paths that a subscription's pattern matches.   *)

\* A volume spike has no kind and passes only the weakest threshold.
matchesThreshold(sub, rec) ==
  LET r == IF rec.topic = "ast/spike" THEN rank("cosmetic") ELSE rank(rec.kind)
  IN r >= thresholdRank(sub.threshold)

matchesWorkspace(sub, rec) == sub.scope = {} \/ rec.workspaces \cap sub.scope # {}

matchesPath(sub, rec) == sub.anyPath \/ rec.paths \cap sub.glob # {}

Allow(sub, rec) ==
  /\ rec.topic \in SpikeTopic
  /\ matchesThreshold(sub, rec)
  /\ matchesWorkspace(sub, rec)
  /\ matchesPath(sub, rec)
=============================================================================
