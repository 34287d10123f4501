----------------------------- MODULE Trajectory -----------------------------
(***************************************************************************)
(* How drained completion records become a trainer's trajectory group      *)
(* (rollout/trajectory.go, trajectory_builder.go).  A record is            *)
(* [id, at, prompt, sampled, partition]; a chain is a prefix and a         *)
(* sequence of steps, each with a loss mask over its tokens.               *)
(*                                                                         *)
(* Left out: log-probabilities and message groups, which are copied along. *)
(***************************************************************************)
EXTENDS Integers, Sequences, FiniteSets, Functions

CONSTANT EOT   \* eotInterstitialTokenID

CompletionRecord ==
  [id : Nat, at : Nat, prompt : Seq(Nat), sampled : Seq(Nat), partition : STRING]

lossMaskOnes(n) == [i \in 1..n |-> 1]
lossMaskZeros(n) == [i \in 1..n |-> 0]

assistantStep(rec) == [tokens |-> rec.sampled, mask |-> lossMaskOnes(Len(rec.sampled))]
interstitialStep(tokens) == [tokens |-> tokens, mask |-> lossMaskZeros(Len(tokens))]

\* The members of S in the order of the pairs in before.
Ordered(S, before) ==
  [n \in 1..Cardinality(S) |->
     CHOOSE x \in S : Cardinality({y \in S : <<y, x>> \in before}) = n - 1]

\* By time, then by request id; a stable sort.
sortCompletionRecords(records) ==
  LET before(i, j) ==
        \/ records[i].at < records[j].at
        \/ records[i].at = records[j].at /\ records[i].id < records[j].id
        \/ records[i].at = records[j].at /\ records[i].id = records[j].id /\ i < j
      pairs == {ij \in (DOMAIN records) \X (DOMAIN records) : before(ij[1], ij[2])}
      order == Ordered(DOMAIN records, pairs)
  IN [n \in DOMAIN records |-> records[order[n]]]

\* The text of a chain up to and with its first n steps.
chainSuffixPrefix(chain, n) ==
  LET text[m \in 0..Len(chain.steps)] ==
        IF m = 0 THEN chain.prefix ELSE text[m - 1] \o chain.steps[m].tokens
  IN text[n]

chainSuffix(chain) == chainSuffixPrefix(chain, Len(chain.steps))

\* The least of a set of indices; 0 stands for -1.
First(S) == IF S = {} THEN 0 ELSE CHOOSE i \in S : \A j \in S : i <= j

NewChain(rec, partition) ==
  [id |-> rec.id, prefix |-> rec.prompt, partition |-> partition,
   steps |-> <<assistantStep(rec)>>]

Extend(chains, i, steps) == [chains EXCEPT ![i].steps = @ \o steps]

findExtendableChain(chains, prompt) ==
  First({i \in DOMAIN chains : prompt = chainSuffix(chains[i])})

\* An unlabelled record fits any chain, an unlabelled chain takes any record.
chainPartitionCompatible(chain, rec) ==
  rec.partition = "" \/ chain.partition \in {"", rec.partition}

tokenIDsHasPrefix(prompt, prefix) ==
  Len(prefix) <= Len(prompt) /\ \A i \in 1..Len(prefix) : prompt[i] = prefix[i]

\* The text is not handed to the model again: it is left out of the chain.
MutInterstitialTokens(chain, prompt) == <<>>

interstitialTokens(chain, prompt) ==
  SubSeq(prompt, Len(chainSuffix(chain)) + 1, Len(prompt))

hasEOTInterstitialBoundary(chain, prompt) == EOT \in Range(interstitialTokens(chain, prompt))

findPolarExtendableChain(chains, rec) ==
  First({i \in DOMAIN chains :
           /\ chainPartitionCompatible(chains[i], rec)
           /\ tokenIDsHasPrefix(rec.prompt, chainSuffix(chains[i]))
           /\ ~hasEOTInterstitialBoundary(chains[i], rec.prompt)})

\* What the harness put between two completions is kept, masked out.
PolarSteps(chain, rec) ==
  LET between == interstitialTokens(chain, rec.prompt)
  IN IF between = <<>> THEN <<assistantStep(rec)>>
     ELSE <<interstitialStep(between), assistantStep(rec)>>

\* What each builder does with one record that has sampled tokens.
AddRecord(builder, chains, rec) ==
  LET i == IF builder = "v1" THEN findExtendableChain(chains, rec.prompt)
           ELSE IF builder = "prefix_merge" THEN findPolarExtendableChain(chains, rec)
           ELSE 0
      steps == IF builder = "v1" THEN <<assistantStep(rec)>> ELSE PolarSteps(chains[i], rec)
      label == IF builder = "prefix_merge" THEN rec.partition ELSE ""
  IN IF i > 0 THEN Extend(chains, i, steps) ELSE Append(chains, NewChain(rec, label))

\* The loop all builders share: records without sampled tokens are skipped.
Build(builder, sorted) ==
  LET chains[n \in 0..Len(sorted)] ==
        IF n = 0 THEN <<>>
        ELSE IF sorted[n].sampled = <<>> THEN chains[n - 1]
        ELSE AddRecord(builder, chains[n - 1], sorted[n])
  IN chains[Len(sorted)]

BuildTrajectoryGroup(records) == Build("v1", sortCompletionRecords(records))
buildPerRequest(records) == Build("per_request", sortCompletionRecords(records))
buildPrefixMergePolar(records) == Build("prefix_merge", sortCompletionRecords(records))

BuildTrajectory(records, strategy) ==
  IF strategy = "per_request" THEN buildPerRequest(records) ELSE buildPrefixMergePolar(records)

ResolveStrategy(default, taskStrategy) == IF taskStrategy # "" THEN taskStrategy ELSE default

assembleTrajectoryGroup(records, builder, taskStrategy) ==
  IF builder.active THEN BuildTrajectory(records, ResolveStrategy(builder.default, taskStrategy))
  ELSE BuildTrajectoryGroup(records)

\* The prefix check of the code compares a chain with itself and never fails.
ValidateTrajectoryGroup(chains) ==
  \A i \in DOMAIN chains : \A j \in DOMAIN chains[i].steps :
    LET step == chains[i].steps[j]
    IN Len(step.mask) = Len(step.tokens) /\ Range(step.mask) \subseteq {0, 1}

summariesFromGroup(chains) ==
  [i \in DOMAIN chains |->
     LET trained(j) == {m \in DOMAIN chains[i].steps[j].mask : chains[i].steps[j].mask[m] = 1}
     IN [id |-> chains[i].id,
         trained |-> Cardinality(UNION {{j} \X trained(j) : j \in DOMAIN chains[i].steps})]]

---------------------------------------------------------------------------
\* Step j of a chain trains on a record: its tokens are what was sampled, all
\* of them count, and the chain's text before it is the record's prompt.
TrainsOn(chain, j, rec) ==
  /\ chain.steps[j] = assistantStep(rec)
  /\ chainSuffixPrefix(chain, j - 1) = rec.prompt

StepsOf(chains) == UNION {{k} \X DOMAIN chains[k].steps : k \in DOMAIN chains}

\* Each record with sampled tokens has a step of its own that trains on it, and
\* no token of any other step counts.
Faithful(chains, records) ==
  LET sampled == {r \in records : r.sampled # <<>>}
  IN \E at \in Injection(sampled, StepsOf(chains)) :
       /\ \A r \in sampled : TrainsOn(chains[at[r][1]], at[r][2], r)
       /\ \A p \in StepsOf(chains) \ Range(at) : 1 \notin Range(chains[p[1]].steps[p[2]].mask)
=============================================================================
