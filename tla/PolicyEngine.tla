---------------------------- MODULE PolicyEngine ----------------------------
(***************************************************************************)
(* The arithmetic of the dispatch policy engine                            *)
(* (orchestrator/internal/dispatch/policy_engine_v2.go): how a snapshot of *)
(* provider capabilities is scored, ranked and turned into a decision.     *)
(* Select itself reads shared state three times; Dispatch takes those      *)
(* steps one by one and uses the operators of this module between them.    *)
(*                                                                         *)
(* Class scores are in sixtieths and weights in hundredths, so a score is  *)
(* an integer number of 1/6000 and One is the code's 1.0.  The code adds   *)
(* float64 values: two scores that are equal here may differ there in the  *)
(* last bit, which then decides before the ranks and the ids do.           *)
(*                                                                         *)
(* Workload tags, feature flags and class names are compared in the code   *)
(* after trimming and lower-casing; here they are already in that form.    *)
(***************************************************************************)
EXTENDS Integers, Sequences, FiniteSets

CONSTANTS
  Baseline,       \* cfg.BaselineProviderID
  IdOrder,        \* the provider ids in lexicographic order
  RawPolicy       \* the PolicyV2Config given to NewPolicyEngineV2

Provider == {IdOrder[i] : i \in DOMAIN IdOrder}

ASSUME IdsAssumption ==
  /\ Baseline \in Provider /\ IdOrder \in Seq(Provider)
  /\ \A i, j \in DOMAIN IdOrder : IdOrder[i] = IdOrder[j] => i = j

One == 6000

Clamp(v, lo, hi) == IF v < lo THEN lo ELSE IF v > hi THEN hi ELSE v

clamp01(v) == Clamp(v, 0, One)

---------------------------------------------------------------------------
(* Configuration *)

Dimension == {"health", "reliability", "cost", "latency", "queue", "workload"}

SumOf(f) == f["health"] + f["reliability"] + f["cost"] + f["latency"]
            + f["queue"] + f["workload"]

DefaultPolicy ==
  [enabled |-> FALSE, minConfidence |-> One \div 2, maxQueue |-> 32,
   weights |-> [health |-> 35, reliability |-> 25, cost |-> 10, latency |-> 10,
                queue |-> 10, workload |-> 10],
   sparse |-> [enabled |-> FALSE, tradeoff |-> 0, minQuality |-> 98],
   ssm |-> [enabled |-> FALSE, bias |-> 0, min |-> 2048, max |-> 32768,
            sensitivity |-> 1]]

PolicyV2Config ==
  [enabled : BOOLEAN, minConfidence : Int, maxQueue : Int, weights : [Dimension -> Int],
   sparse : [enabled : BOOLEAN, tradeoff : Int, minQuality : Int],
   ssm : [enabled : BOOLEAN, bias : Int, min : Int, max : Int, sensitivity : Int]]

ASSUME PolicyAssumption == RawPolicy \in PolicyV2Config

Within(v, lo, hi, default) == IF v < lo \/ v > hi THEN default ELSE v

\* A negative weight takes its default; all weights zero take all defaults.
normalizeWeights(w) ==
  LET filled == [d \in Dimension |->
                   IF w[d] < 0 THEN DefaultPolicy.weights[d] ELSE w[d]]
  IN IF SumOf(filled) = 0 THEN DefaultPolicy.weights ELSE filled

normalizeSparse(q) ==
  [q EXCEPT !.tradeoff = Within(@, -100, 100, DefaultPolicy.sparse.tradeoff),
            !.minQuality = Within(@, 0, 100, DefaultPolicy.sparse.minQuality)]

\* The maximum of the sequence window is compared with the normalised minimum.
normalizeSSM(q) ==
  LET min == IF q.min <= 0 THEN DefaultPolicy.ssm.min ELSE q.min
  IN [q EXCEPT !.bias = Within(@, -100, 100, DefaultPolicy.ssm.bias), !.min = min,
               !.max = IF @ <= min THEN DefaultPolicy.ssm.max ELSE @,
               !.sensitivity = Within(@, 0, 2, DefaultPolicy.ssm.sensitivity)]

normalizePolicyV2Config(c) ==
  [c EXCEPT !.minConfidence = Within(@, 0, One, DefaultPolicy.minConfidence),
            !.maxQueue = IF @ <= 0 THEN DefaultPolicy.maxQueue ELSE @,
            !.weights = normalizeWeights(@),
            !.sparse = normalizeSparse(@), !.ssm = normalizeSSM(@)]

Policy == normalizePolicyV2Config(RawPolicy)

---------------------------------------------------------------------------
(* Scores of one capability record *)

healthScore(h) == CASE h = "healthy" -> 60 [] h = "degraded" -> 30 [] OTHER -> 0

healthRank(h) == CASE h = "healthy" -> 2 [] h = "degraded" -> 1 [] OTHER -> 0

reliabilityScore(r) ==
  CASE r = "platinum" -> 60 [] r = "gold" -> 54 [] r = "standard" -> 42
    [] r = "silver" -> 36 [] r = "bronze" -> 24 [] OTHER -> 30

reliabilityRank(r) ==
  CASE r = "platinum" -> 5 [] r = "gold" -> 4 [] r = "standard" -> 3
    [] r = "silver" -> 2 [] r = "bronze" -> 1 [] OTHER -> 0

costScore(c) ==
  CASE c = "low" -> 60 [] c = "medium" -> 42 [] c = "high" -> 24 [] OTHER -> 36

latencyScore(l) ==
  CASE l = "ultra" -> 60 [] l = "fast" -> 54 [] l = "baseline" -> 42
    [] l = "slow" -> 24 [] OTHER -> 36

queueDepthScore(depth, max) == Clamp(60 - (60 * depth) \div max, 0, 60)

workloadScore(required, supported) ==
  IF required = {} THEN 60
  ELSE (60 * Cardinality(required \cap supported)) \div Cardinality(required)

\* An unavailable provider is not left out.
MutIsPolicyEligible(cap, tags) ==
  cap.id = Baseline \/ tags = {} \/ tags \cap cap.tags # {}

\* The baseline needs no matching tag.
isPolicyEligible(cap, tags) ==
  /\ cap.health # "unavailable"
  /\ \/ cap.id = Baseline
     \/ tags = {}
     \/ tags \cap cap.tags # {}

Score(cap, tags) ==
  LET w == Policy.weights IN
    w["health"] * healthScore(cap.health)
    + w["reliability"] * reliabilityScore(cap.reliability)
    + w["cost"] * costScore(cap.cost)
    + w["latency"] * latencyScore(cap.latency)
    + w["queue"] * queueDepthScore(cap.queue, Policy.maxQueue)
    + w["workload"] * workloadScore(tags, cap.tags)

\* The eligible records of a snapshot, each with its score and confidence.
scoreCandidates(caps, tags) ==
  {[cap |-> c, score |-> Score(c, tags),
    confidence |-> clamp01((100 * Score(c, tags)) \div SumOf(Policy.weights))]
     : c \in {c \in caps : isPolicyEligible(c, tags)}}

---------------------------------------------------------------------------
(* Assists and the score plugin *)

Raise(c, delta) ==
  [c EXCEPT !.score = @ + delta, !.confidence = clamp01(@ + delta)]

sparseQuantizedTradeoffDelta(cap, tags) ==
  IF tags \cap {"merge-assist", "inference-heavy"} = {} THEN 0
  ELSE Policy.sparse.tradeoff * (costScore(cap.cost) - latencyScore(cap.latency))

SparseAssisted(cands, tags) ==
  {IF "sparse" \in c.cap.flags
     THEN Raise(c, sparseQuantizedTradeoffDelta(c.cap, tags)) ELSE c : c \in cands}

hasLongContextWorkload(tags) ==
  tags \cap {"long-context", "sequence-heavy", "ssm-assist"} # {}

\* The request's sequence length: a positive integer, absent, or not a
\* positive integer; seqLen is -1 without a label and 0 with a bad one.
SSMSignal(seqLen) ==
  CASE seqLen < 0 -> "absent"
    [] seqLen = 0 -> "invalid"
    [] seqLen > 0 /\ (seqLen < Policy.ssm.min \/ seqLen > Policy.ssm.max) -> "out"
    [] OTHER -> "valid"

\* The place of a length in the window, as a fraction; 1 in an empty window.
normalizeSequenceLength(seqLen) ==
  LET span == Policy.ssm.max - Policy.ssm.min
  IN IF span <= 0 THEN [num |-> 1, den |-> 1]
     ELSE [num |-> Clamp(seqLen - Policy.ssm.min, 0, span), den |-> span]

ssmThroughputDelta(cap, seqLen) ==
  LET place == normalizeSequenceLength(seqLen)
      signal == latencyScore(cap.latency) + queueDepthScore(cap.queue, Policy.maxQueue)
  IN (Policy.ssm.bias * signal * (place.den + place.num * Policy.ssm.sensitivity))
       \div (2 * place.den)

SSMRaises(c, seqLen) ==
  "ssm" \in c.cap.flags /\ ssmThroughputDelta(c.cap, seqLen) # 0

SSMAssisted(cands, seqLen) ==
  {IF SSMRaises(c, seqLen) THEN Raise(c, ssmThroughputDelta(c.cap, seqLen)) ELSE c
     : c \in cands}

\* The plugin's answer for every candidate replaces its score, held to the
\* range of the plugin's configuration (0 to 1); one error discards them all.
applyScoreAdjustments(cands, answers) ==
  {[c EXCEPT !.score = clamp01(answers[c.cap.id]),
             !.confidence = clamp01(answers[c.cap.id])] : c \in cands}

---------------------------------------------------------------------------
(* Ranking and the fallback chain *)

IdBefore(p, q) ==
  \E i, j \in DOMAIN IdOrder : i < j /\ IdOrder[i] = p /\ IdOrder[j] = q

\* The first of these that differs decides: score, health, reliability, id.
Better(a, b) ==
  LET keyA == <<a.score, healthRank(a.cap.health), reliabilityRank(a.cap.reliability)>>
      keyB == <<b.score, healthRank(b.cap.health), reliabilityRank(b.cap.reliability)>>
  IN \/ \E i \in 1..3 : keyA[i] > keyB[i] /\ \A j \in 1..(i - 1) : keyA[j] = keyB[j]
     \/ keyA = keyB /\ IdBefore(a.cap.id, b.cap.id)

\* sort.Slice: the candidate with n better ones stands at place n + 1.
Ranked(cands) ==
  [n \in 1..Cardinality(cands) |->
     CHOOSE c \in cands : Cardinality({d \in cands : Better(d, c)}) = n - 1]

\* An id stands in a chain once at most.
Without(chain, p) ==
  IF \E i \in DOMAIN chain : chain[i] = p
  THEN LET i == CHOOSE i \in DOMAIN chain : chain[i] = p
       IN SubSeq(chain, 1, i - 1) \o SubSeq(chain, i + 1, Len(chain))
  ELSE chain

\* The baseline comes first when it is selected, and last when it has no rank.
FallbackChain(ids, selected) ==
  IF selected = Baseline THEN <<Baseline>> \o Without(ids, Baseline)
  ELSE IF \E i \in DOMAIN ids : ids[i] = Baseline THEN ids
  ELSE Append(ids, Baseline)

Decision(epoch, selected, chain, reason) ==
  [epoch |-> epoch, selected |-> selected, chain |-> chain, reason |-> reason]

baselineDecision(epoch, reason) == Decision(epoch, Baseline, <<Baseline>>, reason)

normalizeFailureClass(class) ==
  IF class \in {"unavailable", "capacity_exhausted", "timeout",
                "contract_incompatible", "quality_guardrail"}
  THEN class ELSE "provider_failure"

\* The hop after a failure: the successor of the failed provider in the chain,
\* or the baseline when it has none.  The code's reason is "fallback_" and the
\* class; here it is the class.
FallbackOnFailure(d, failed, class) ==
  LET at == {i \in 1..(Len(d.chain) - 1) : d.chain[i] = failed}
  IN [d EXCEPT
        !.selected = IF at = {} THEN Baseline
                     ELSE d.chain[(CHOOSE i \in at : \A j \in at : i <= j) + 1],
        !.reason = normalizeFailureClass(class)]

\* What Select reads of the sequence length: nothing, unless the SSM assist is on
\* and the workload has a long context.
SSMSignalOf(input) ==
  IF Policy.ssm.enabled /\ hasLongContextWorkload(input.tags)
  THEN SSMSignal(input.seqLen) ELSE "absent"

Assisted(snap, input, assist) ==
  LET scored == scoreCandidates(snap.caps, input.tags)
  IN IF assist THEN SparseAssisted(scored, input.tags) ELSE scored

\* The candidates as Select sorts them: scored, assisted, adjusted by the plugin.
Candidates(snap, input, assist, plugin) ==
  LET sparse == Assisted(snap, input, assist)
      ssm == IF SSMSignalOf(input) = "valid" THEN SSMAssisted(sparse, input.seqLen) ELSE sparse
  IN IF plugin.kind = "scores" THEN applyScoreAdjustments(ssm, plugin.answers) ELSE ssm

reasonCode(low, plugin, disabled, assist, ssmAssistApplied) ==
  IF low THEN "low_confidence_baseline"
  ELSE IF plugin.kind = "error" THEN "plugin_failed_fallback"
  ELSE IF Policy.sparse.enabled /\ disabled THEN "sparse_quantized_auto_disabled"
  ELSE IF assist THEN "sparse_quantized_assist_selected"
  ELSE IF ssmAssistApplied THEN "ssm_assist_selected"
  ELSE "selected"

\* Select after its two looks at autoDisabled: ranked is the sorted candidates,
\* assist what the second look allowed, disabled what the third one finds,
\* plugin the plugin's behaviour.
Decide(ranked, snap, input, assist, disabled, plugin) ==
  LET signal == SSMSignalOf(input)
      low == ranked[1].confidence < Policy.minConfidence
      ids == [i \in DOMAIN ranked |-> ranked[i].cap.id]
      selected == IF low THEN Baseline ELSE ids[1]
      applied == signal = "valid" /\ \E c \in Assisted(snap, input, assist) :
                                       SSMRaises(c, input.seqLen)
  IN CASE signal = "invalid" -> baselineDecision(snap.epoch, "ssm_signal_invalid_fallback")
       [] signal = "out" ->
            baselineDecision(snap.epoch, "ssm_signal_out_of_threshold_fallback")
       [] OTHER -> Decision(snap.epoch, selected, FallbackChain(ids, selected),
                            reasonCode(low, plugin, disabled, assist, applied))
=============================================================================
