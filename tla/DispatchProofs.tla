--------------------------- MODULE DispatchProofs ---------------------------
(***************************************************************************)
(* Proofs about how work is placed and how it is run.                      *)
(* Dispatch, for every set of callers, every catalog and every policy      *)
(* configuration: what a latched guardrail does to later calls, what an    *)
(* epoch names, where jobs may go, and what the telemetry says.            *)
(* Sandbox, for any jobs that share container names and any failing        *)
(* requests: what outlives Execute is reported, and a job without error    *)
(* ran its own workload.                                                   *)
(***************************************************************************)
EXTENDS Dispatch, Sandbox, FiniteSetTheorems, WellFoundedInduction, TLAPS

\* Leaves are given to Zenon unless they name another prover.
USE Zenon

(***************************************************************************)
(* The records of the calls, and what each action does to them.            *)
(***************************************************************************)
CallFields == {"pc", "req", "snap", "late", "assist", "decision", "item", "last", "accepted",
               "refused"}
IsCall(u) == DOMAIN u = CallFields /\ u = [f \in CallFields |-> u[f]]

DecisionFields == {"epoch", "selected", "chain", "reason"}
IsDecision(d) == DOMAIN d = DecisionFields /\ d = [f \in DecisionFields |-> d[f]]

CallsFormed ==
  /\ DOMAIN call = Caller /\ call = [c \in Caller |-> call[c]]
  /\ \A c \in Caller : IsCall(call[c]) /\ IsDecision(call[c].decision)

\* A step of the goroutine of c.
OnlyCall(c) ==
  /\ CallsFormed'
  /\ \A d \in Caller \ {c} : call'[d] = call[d]

\* What a call has been asked, and what it has seen.
Asked(u) == <<u.req, u.late, u.snap>>

\* What it has decided and done with its items.
Routed(u) == <<u.decision, u.item, u.last, u.accepted, u.refused>>

\* Begin fixes the request and whether the latch was set, and nothing else.
LEMMA BeginEffect ==
  ASSUME CallsFormed, NEW c \in Caller, Begin(c)
  PROVE  /\ OnlyCall(c)
         /\ call[c].pc = "idle" /\ call'[c].pc \in {"done", "create", "guard", "snapshot"}
         /\ call'[c].req \in Calls[c] /\ call'[c].late = autoDisabled[call'[c].req.tool]
         /\ call'[c].snap = call[c].snap /\ call'[c].assist = call[c].assist
         /\ Routed(call'[c]) = Routed(call[c])
<1>1. PICK r \in Calls[c], step \in {"done", "create", "guard", "snapshot"} :
        call' = [call EXCEPT ![c].req = r, ![c].late = autoDisabled[r.tool], ![c].pc = step]
  BY DEF Begin
<1>2. PICK late : late = autoDisabled[r.tool]
  OBVIOUS
<1>3. call'[c] = [[[call[c] EXCEPT !.req = r] EXCEPT !.late = late] EXCEPT !.pc = step]
  BY <1>1, <1>2 DEF CallsFormed
<1>4. /\ IsCall(call'[c])
      /\ call'[c].pc = step /\ call'[c].req = r /\ call'[c].late = late
      /\ call'[c].snap = call[c].snap /\ call'[c].assist = call[c].assist
      /\ call'[c].decision = call[c].decision /\ call'[c].last = call[c].last
      /\ call'[c].accepted = call[c].accepted
      /\ call'[c].item = call[c].item /\ call'[c].refused = call[c].refused
  BY <1>3 DEF CallsFormed, IsCall, CallFields
<1>5. OnlyCall(c)
  BY <1>1, <1>4 DEF OnlyCall, CallsFormed
<1>6. call[c].pc = "idle"
  BY DEF Begin, At
<1> QED BY <1>2, <1>4, <1>5, <1>6 DEF Routed

\* A step that only moves the goroutine of c keeps all else of its call.
LEMMA MoveEffect ==
  ASSUME CallsFormed, NEW c \in Caller, NEW step, call' = [call EXCEPT ![c].pc = step]
  PROVE  /\ OnlyCall(c)
         /\ call'[c].pc = step /\ call'[c].assist = call[c].assist
         /\ Asked(call'[c]) = Asked(call[c]) /\ Routed(call'[c]) = Routed(call[c])
<1>1. call'[c] = [call[c] EXCEPT !.pc = step]
  BY DEF CallsFormed
<1>2. /\ IsCall(call'[c])
      /\ call'[c].pc = step /\ call'[c].req = call[c].req /\ call'[c].late = call[c].late
      /\ call'[c].snap = call[c].snap /\ call'[c].assist = call[c].assist
      /\ call'[c].decision = call[c].decision /\ call'[c].last = call[c].last
      /\ call'[c].accepted = call[c].accepted
      /\ call'[c].item = call[c].item /\ call'[c].refused = call[c].refused
  BY <1>1 DEF CallsFormed, IsCall, CallFields
<1>3. OnlyCall(c)
  BY <1>2 DEF OnlyCall, CallsFormed
<1> QED BY <1>2, <1>3 DEF Routed, Asked

\* TakeSnapshot gives the call the registry of the moment.
LEMMA SnapshotEffect ==
  ASSUME CallsFormed, NEW c \in Caller, TakeSnapshot(c)
  PROVE  /\ OnlyCall(c)
         /\ call[c].pc = "snapshot" /\ call'[c].pc = "guard"
         /\ call'[c].req = call[c].req /\ call'[c].late = call[c].late
         /\ call'[c].snap = Snapshot /\ call'[c].assist = call[c].assist
         /\ Routed(call'[c]) = Routed(call[c])
<1>1. PICK snap : snap = Snapshot
  OBVIOUS
<1>2. call' = [call EXCEPT ![c].snap = snap, ![c].pc = "guard"]
  BY <1>1 DEF TakeSnapshot
<1>3. call'[c] = [[call[c] EXCEPT !.snap = snap] EXCEPT !.pc = "guard"]
  BY <1>2 DEF CallsFormed
<1>4. /\ IsCall(call'[c])
      /\ call'[c].pc = "guard" /\ call'[c].req = call[c].req /\ call'[c].late = call[c].late
      /\ call'[c].snap = snap /\ call'[c].assist = call[c].assist
      /\ call'[c].decision = call[c].decision /\ call'[c].last = call[c].last
      /\ call'[c].accepted = call[c].accepted
      /\ call'[c].item = call[c].item /\ call'[c].refused = call[c].refused
  BY <1>3 DEF CallsFormed, IsCall, CallFields
<1>5. OnlyCall(c)
  BY <1>2, <1>4 DEF OnlyCall, CallsFormed
<1> QED BY <1>1, <1>4, <1>5 DEF Routed, TakeSnapshot, At

\* SelectAssist reads the latch of the tool.
LEMMA AssistEffect ==
  ASSUME CallsFormed, NEW c \in Caller, SelectAssist(c)
  PROVE  /\ OnlyCall(c)
         /\ call[c].pc = "assist" /\ call'[c].pc = "reason"
         /\ call'[c].assist = isSparseQuantizedActive(call[c].req.tool)
         /\ Asked(call'[c]) = Asked(call[c]) /\ Routed(call'[c]) = Routed(call[c])
<1>1. PICK on : on = isSparseQuantizedActive(call[c].req.tool)
  OBVIOUS
<1>2. call' = [call EXCEPT ![c].assist = on, ![c].pc = "reason"]
  BY <1>1 DEF SelectAssist
<1>3. call'[c] = [[call[c] EXCEPT !.assist = on] EXCEPT !.pc = "reason"]
  BY <1>2 DEF CallsFormed
<1>4. /\ IsCall(call'[c])
      /\ call'[c].pc = "reason" /\ call'[c].req = call[c].req /\ call'[c].late = call[c].late
      /\ call'[c].snap = call[c].snap /\ call'[c].assist = on
      /\ call'[c].decision = call[c].decision /\ call'[c].last = call[c].last
      /\ call'[c].accepted = call[c].accepted
      /\ call'[c].item = call[c].item /\ call'[c].refused = call[c].refused
  BY <1>3 DEF CallsFormed, IsCall, CallFields
<1>5. OnlyCall(c)
  BY <1>2, <1>4 DEF OnlyCall, CallsFormed
<1> QED BY <1>1, <1>4, <1>5 DEF Routed, Asked, SelectAssist, At

\* A call takes a decision, and its provider.
Takes(c, d) ==
  /\ OnlyCall(c)
  /\ Asked(call'[c]) = Asked(call[c]) /\ call'[c].assist = call[c].assist
  /\ call'[c].decision = d /\ call'[c].last = d.selected
  /\ call'[c].accepted = call[c].accepted
  /\ call'[c].item = call[c].item /\ call'[c].refused = call[c].refused

\* A decision is taken together with its provider.
LEMMA TakesDecision ==
  ASSUME CallsFormed, NEW c \in Caller, NEW d, IsDecision(d), NEW step,
         call' = [call EXCEPT ![c].decision = d, ![c].last = d.selected, ![c].pc = step]
  PROVE  Takes(c, d) /\ call'[c].pc = step
<1>1. PICK last : last = d.selected
  OBVIOUS
<1>2. call'[c] = [[[call[c] EXCEPT !.decision = d] EXCEPT !.last = last] EXCEPT !.pc = step]
  BY <1>1 DEF CallsFormed
<1>3. /\ IsCall(call'[c])
      /\ call'[c].pc = step /\ call'[c].req = call[c].req /\ call'[c].late = call[c].late
      /\ call'[c].snap = call[c].snap /\ call'[c].assist = call[c].assist
      /\ call'[c].decision = d /\ call'[c].last = last
      /\ call'[c].accepted = call[c].accepted
      /\ call'[c].item = call[c].item /\ call'[c].refused = call[c].refused
  BY <1>2 DEF CallsFormed, IsCall, CallFields
<1>4. OnlyCall(c)
  BY <1>3 DEF OnlyCall, CallsFormed
<1> QED BY <1>1, <1>3, <1>4 DEF Takes, Asked

-----------------------------------------------------------------------------
(***************************************************************************)
(* Decisions.                                                              *)
(***************************************************************************)
LEMMA DecisionFormed ==
  ASSUME NEW e, NEW selected, NEW chain, NEW reason
  PROVE  LET d == Decision(e, selected, chain, reason)
         IN /\ IsDecision(d)
            /\ d.epoch = e /\ d.selected = selected /\ d.chain = chain /\ d.reason = reason
BY SMT DEF Decision, IsDecision, DecisionFields

\* The fields of baselineDecision.
LEMMA BaselineFormed ==
  ASSUME NEW e, NEW reason
  PROVE  LET d == baselineDecision(e, reason)
         IN /\ IsDecision(d)
            /\ d.epoch = e /\ d.selected = Baseline /\ d.chain = <<Baseline>>
            /\ d.reason = reason
BY SMT DEF baselineDecision, Decision, IsDecision, DecisionFields

\* A hop keeps the chain and goes to one of its providers or to the baseline.
LEMMA FallbackFormed ==
  ASSUME NEW d, IsDecision(d), NEW failed, NEW class
  PROVE  LET hop == FallbackOnFailure(d, failed, class)
         IN /\ IsDecision(hop)
            /\ hop.chain = d.chain
            /\ hop.reason = normalizeFailureClass(class)
<1> DEFINE at == {i \in 1..(Len(d.chain) - 1) : d.chain[i] = failed}
           to == IF at = {} THEN Baseline
                 ELSE d.chain[(CHOOSE i \in at : \A j \in at : i <= j) + 1]
           reason == normalizeFailureClass(class)
           hop == FallbackOnFailure(d, failed, class)
<1>1. hop = [d EXCEPT !.selected = to, !.reason = reason]
  BY DEF FallbackOnFailure
<1> HIDE DEF to, reason, hop
<1>2. IsDecision(hop) /\ hop.chain = d.chain /\ hop.reason = reason
  BY <1>1 DEF IsDecision, DecisionFields
<1> QED BY <1>2 DEF reason, hop

\* An escalation replaces the reason, and the baseline by a dense provider if there is one.
LEMMA EscalationFormed ==
  ASSUME NEW d, IsDecision(d), NEW caps
  PROVE  LET e == SelectDenseGPUEscalation(d, caps)
             dense == {cap.id : cap \in FirstDenseGPUProvider(caps)}
             first == CHOOSE p \in dense : \A q \in dense \ {p} : IdBefore(p, q)
         IN /\ IsDecision(e)
            /\ \/ e.selected = d.selected /\ e.chain = d.chain
               \/ /\ dense # {}
                  /\ e.selected = first /\ e.chain = <<first>> \o Without(d.chain, first)
<1> DEFINE e == SelectDenseGPUEscalation(d, caps)
           dense == {cap.id : cap \in FirstDenseGPUProvider(caps)}
           first == CHOOSE p \in dense : \A q \in dense \ {p} : IdBefore(p, q)
           chain == <<first>> \o Without(d.chain, first)
           reason == "quality_guardrail_autodisable"
<1>1. CASE d.selected = Baseline /\ dense # {}
  <2>1. e = [d EXCEPT !.selected = first, !.chain = chain, !.reason = reason]
    BY <1>1 DEF SelectDenseGPUEscalation
  <2> HIDE DEF e, dense, first, chain
  <2>2. IsDecision(e) /\ e.selected = first /\ e.chain = chain
    BY <2>1 DEF IsDecision, DecisionFields
  <2> QED BY <1>1, <2>2 DEF e, dense, first, chain
<1>2. CASE ~(d.selected = Baseline /\ dense # {})
  <2>1. e = [d EXCEPT !.reason = reason]
    BY <1>2 DEF SelectDenseGPUEscalation
  <2> HIDE DEF e
  <2>2. IsDecision(e) /\ e.selected = d.selected /\ e.chain = d.chain
    BY <2>1 DEF IsDecision, DecisionFields
  <2> QED BY <2>2 DEF e
<1> QED BY <1>1, <1>2

\* Only the sparse tool turns a decision into another.
LEMMA ToolDecision ==
  ASSUME NEW r, NEW d, IsDecision(d), NEW caps
  PROVE  /\ IsDecision(ForTool(r, d, caps))
         /\ r.tool # "sparse" => ForTool(r, d, caps) = d
BY EscalationFormed DEF ForTool

\* What Select decides: Decide of the candidates it ranked.
Selects(snap, input, assist, disabled, plugin) ==
  Decide(Ranked(Candidates(snap, input, assist, plugin)), snap, input, assist, disabled, plugin)

\* Without the sparse assist no decision is explained by it.
LEMMA DecideFormed ==
  ASSUME NEW snap, NEW input, NEW assist, NEW disabled, NEW plugin
  PROVE  LET d == Selects(snap, input, assist, disabled, plugin)
         IN /\ IsDecision(d)
            /\ ~assist => d.reason \notin {"quality_guardrail_autodisable",
                                           "sparse_quantized_assist_selected"}
<1> DEFINE d == Selects(snap, input, assist, disabled, plugin)
<1>1. \/ \E reason \in {"ssm_signal_invalid_fallback", "ssm_signal_out_of_threshold_fallback"} :
           d = baselineDecision(snap.epoch, reason)
      \/ \E selected, chain, low, applied :
           d = Decision(snap.epoch, selected, chain,
                        reasonCode(low, plugin, disabled, assist, applied))
  <2>1. CASE SSMSignalOf(input) \in {"invalid", "out"}
    BY <2>1 DEF Selects, Decide
  <2>2. CASE SSMSignalOf(input) \notin {"invalid", "out"}
    BY <2>2 DEF Selects, Decide
  <2> QED BY <2>1, <2>2
<1> HIDE DEF d
<1>2. CASE \E reason \in {"ssm_signal_invalid_fallback", "ssm_signal_out_of_threshold_fallback"} :
           d = baselineDecision(snap.epoch, reason)
  <2>1. PICK reason \in {"ssm_signal_invalid_fallback", "ssm_signal_out_of_threshold_fallback"} :
           d = baselineDecision(snap.epoch, reason)
    BY <1>2
  <2>2. IsDecision(d) /\ d.reason = reason
    BY SMT, <2>1, BaselineFormed
  <2> QED BY <2>1, <2>2 DEF d
<1>3. ASSUME NEW selected, NEW chain, NEW low, NEW applied,
             d = Decision(snap.epoch, selected, chain,
                          reasonCode(low, plugin, disabled, assist, applied))
      PROVE  /\ IsDecision(d)
             /\ ~assist => d.reason \notin {"quality_guardrail_autodisable",
                                            "sparse_quantized_assist_selected"}
  <2>1. IsDecision(d) /\ d.reason = reasonCode(low, plugin, disabled, assist, applied)
    BY SMT, <1>3, DecisionFormed
  <2>2. ~assist => d.reason \in {"low_confidence_baseline", "plugin_failed_fallback",
                    "sparse_quantized_auto_disabled", "ssm_assist_selected", "selected"}
    BY <2>1 DEF reasonCode
  <2> QED BY <2>1, <2>2
<1> QED BY <1>1, <1>2, <1>3 DEF d

\* The first look at the latch: a call goes on, or takes the baseline decision.
LEMMA GuardEffect ==
  ASSUME CallsFormed, NEW c \in Caller, SelectGuard(c)
  PROVE  /\ call[c].pc = "guard"
         /\ \/ /\ OnlyCall(c) /\ call'[c].pc = "assist"
               /\ scoreCandidates(call[c].snap.caps, Input(call[c].req).tags) # {}
               /\ call'[c].assist = call[c].assist
               /\ Asked(call'[c]) = Asked(call[c]) /\ Routed(call'[c]) = Routed(call[c])
            \/ \E reason :
                 /\ Takes(c, ForTool(call[c].req, baselineDecision(call[c].snap.epoch, reason),
                                     call[c].snap.caps))
                 /\ call'[c].pc = "enqueue"
                 /\ \/ reason \in {"feature_disabled", "no_eligible_provider"}
                    \/ isSparseQuantizedActive(call[c].req.tool)
<1> DEFINE none == scoreCandidates(call[c].snap.caps, Input(call[c].req).tags) = {}
           trips == /\ Policy.enabled /\ ~none /\ isSparseQuantizedActive(call[c].req.tool)
                    /\ QualityGuardrailBreached(call[c].req, Policy.sparse.minQuality)
<1>1. call[c].pc = "guard"
  BY DEF SelectGuard, At
<1>2. CASE ~(~Policy.enabled \/ none \/ trips)
  <2>1. call' = [call EXCEPT ![c].pc = "assist"]
    BY <1>2 DEF SelectGuard
  <2> QED BY <1>1, <1>2, <2>1, MoveEffect
<1>3. CASE ~Policy.enabled \/ none \/ trips
  <2>1. PICK reason :
          /\ Decided(c, baselineDecision(call[c].snap.epoch, reason))
          /\ \/ reason \in {"feature_disabled", "no_eligible_provider"}
             \/ isSparseQuantizedActive(call[c].req.tool)
    BY <1>3 DEF SelectGuard
  <2>2. PICK d : d = ForTool(call[c].req, baselineDecision(call[c].snap.epoch, reason),
                             call[c].snap.caps)
    OBVIOUS
  <2>3. IsDecision(d)
    BY SMT, <2>2, BaselineFormed, ToolDecision
  <2>4. call' = [call EXCEPT ![c].decision = d, ![c].last = d.selected, ![c].pc = "enqueue"]
    BY <2>1, <2>2 DEF Decided
  <2>5. Takes(c, d) /\ call'[c].pc = "enqueue"
    BY <2>3, <2>4, TakesDecision
  <2> QED BY <1>1, <2>1, <2>2, <2>5
<1> QED BY <1>2, <1>3

\* The rest of Select: the call takes what Decide makes of its snapshot.
LEMMA ReasonEffect ==
  ASSUME CallsFormed, NEW c \in Caller, SelectReason(c)
  PROVE  /\ call[c].pc = "reason"
         /\ \E plugin \in Plugins :
              /\ Takes(c, ForTool(call[c].req,
                                  Selects(call[c].snap, Input(call[c].req), call[c].assist,
                                         autoDisabled[call[c].req.tool], plugin),
                                  call[c].snap.caps))
              /\ call'[c].pc = "enqueue"
<1>1. PICK plugin \in Plugins :
        Decided(c, Selects(call[c].snap, Input(call[c].req), call[c].assist,
                          autoDisabled[call[c].req.tool], plugin))
  BY DEF SelectReason, Selects
<1>2. PICK e : e = Selects(call[c].snap, Input(call[c].req), call[c].assist,
                          autoDisabled[call[c].req.tool], plugin)
  OBVIOUS
<1>3. PICK d : d = ForTool(call[c].req, e, call[c].snap.caps)
  OBVIOUS
<1>4. IsDecision(e)
  BY <1>2, DecideFormed
<1>5. IsDecision(d)
  BY <1>3, <1>4, ToolDecision
<1>6. call' = [call EXCEPT ![c].decision = d, ![c].last = d.selected, ![c].pc = "enqueue"]
  BY <1>1, <1>2, <1>3 DEF Decided
<1>7. Takes(c, d) /\ call'[c].pc = "enqueue"
  BY <1>5, <1>6, TakesDecision
<1> QED BY <1>2, <1>3, <1>7 DEF SelectReason, At

\* One item is accepted on the provider of the moment, or skipped: refused, unless
\* it was invalid.
Serves(c) ==
  /\ OnlyCall(c)
  /\ Asked(call'[c]) = Asked(call[c]) /\ call'[c].assist = call[c].assist
  /\ call'[c].decision = call[c].decision /\ call'[c].last = call[c].last
  /\ call'[c].item = call[c].item + 1
  /\ call'[c].pc = NextItem(c, call'[c].accepted)
  /\ call'[c].pc \in {"enqueue", "emit", "done"}
  /\ \/ /\ call'[c].accepted = call[c].accepted
        /\ \/ call'[c].refused = TRUE
           \/ call'[c].refused = call[c].refused /\ call[c].pc = "enqueue"
     \/ call'[c].accepted = Append(call[c].accepted, call[c].last)

\* An item is accepted on the provider of the moment or skipped.
LEMMA ItemEffect ==
  ASSUME CallsFormed, NEW c \in Caller,
         Accept(c) \/ Skip(c, TRUE) \/ (call[c].pc = "enqueue" /\ Skip(c, call[c].refused))
  PROVE  Serves(c)
<1> DEFINE Becomes(accepted, refused) ==
             call' = [call EXCEPT ![c].accepted = accepted, ![c].refused = refused,
                                  ![c].item = @ + 1, ![c].pc = NextItem(c, accepted)]
           Kept(accepted, refused) ==
             /\ accepted = call[c].accepted
             /\ refused = TRUE \/ (refused = call[c].refused /\ call[c].pc = "enqueue")
<1>1. PICK accepted, refused :
        /\ Becomes(accepted, refused)
        /\ Kept(accepted, refused) \/ accepted = Append(call[c].accepted, call[c].last)
  <2>1. CASE Accept(c)
    BY <2>1 DEF Accept
  <2>2. ASSUME NEW refused, Skip(c, refused)
        PROVE  Becomes(call[c].accepted, refused)
    <3>1. call' = [call EXCEPT ![c].refused = refused, ![c].item = @ + 1,
                               ![c].pc = NextItem(c, call[c].accepted)]
      BY <2>2 DEF Skip
    <3> QED BY <3>1 DEF CallsFormed, IsCall, CallFields
  <2>3. Skip(c, TRUE) => Becomes(call[c].accepted, TRUE) /\ Kept(call[c].accepted, TRUE)
    BY <2>2
  <2>4. ASSUME call[c].pc = "enqueue", Skip(c, call[c].refused)
        PROVE  /\ Becomes(call[c].accepted, call[c].refused)
               /\ Kept(call[c].accepted, call[c].refused)
    BY <2>2, <2>4
  <2> HIDE DEF Becomes, Kept
  <2> QED BY <2>1, <2>3, <2>4
<1>2. PICK item : item = call[c].item + 1
  OBVIOUS
<1>3. PICK step : step = NextItem(c, accepted)
  OBVIOUS
<1>4. step \in {"enqueue", "emit", "done"}
  BY <1>3 DEF NextItem
<1>5. call'[c] = [[[[call[c] EXCEPT !.accepted = accepted] EXCEPT !.refused = refused]
                     EXCEPT !.item = item] EXCEPT !.pc = step]
  BY <1>1, <1>2, <1>3 DEF CallsFormed
<1>6. /\ IsCall(call'[c])
      /\ call'[c].pc = step /\ call'[c].req = call[c].req /\ call'[c].late = call[c].late
      /\ call'[c].snap = call[c].snap /\ call'[c].assist = call[c].assist
      /\ call'[c].decision = call[c].decision /\ call'[c].last = call[c].last
      /\ call'[c].accepted = accepted /\ call'[c].refused = refused /\ call'[c].item = item
  BY <1>5 DEF CallsFormed, IsCall, CallFields
<1>7. OnlyCall(c)
  BY <1>1, <1>6 DEF OnlyCall, CallsFormed
<1> QED BY <1>1, <1>2, <1>3, <1>4, <1>6, <1>7 DEF Serves, Asked

\* A refused item is skipped, or tried again one hop down the chain.
LEMMA RefusedEffect ==
  ASSUME CallsFormed, NEW c \in Caller, EnqueueRefused(c)
  PROVE  /\ call[c].pc = "enqueue"
         /\ \/ Serves(c)
            \/ /\ Takes(c, FallbackOnFailure(call[c].decision, call[c].last, Refusal))
               /\ call'[c].pc = "retry"
<1>1. call[c].pc = "enqueue"
  BY DEF EnqueueRefused, At
<1>2. CASE Skip(c, TRUE)
  BY <1>1, <1>2, ItemEffect
<1>3. CASE ~Skip(c, TRUE)
  <2>1. PICK hop : hop = FallbackOnFailure(call[c].decision, call[c].last, Refusal)
    OBVIOUS
  <2>2. call' = [call EXCEPT ![c].decision = hop, ![c].last = hop.selected, ![c].pc = "retry"]
    BY <1>3, <2>1 DEF EnqueueRefused
  <2>3. IsDecision(hop)
    BY <2>1, FallbackFormed DEF CallsFormed
  <2> QED BY <1>1, <2>1, <2>2, <2>3, TakesDecision
<1> QED BY <1>2, <1>3

\* The steps that only move a call on.
Moves(c) ==
  /\ OnlyCall(c) /\ call'[c].assist = call[c].assist
  /\ Asked(call'[c]) = Asked(call[c]) /\ Routed(call'[c]) = Routed(call[c])

\* What EmitDecision, ObserveDecision and the steps of the agent tool publish.
LEMMA EventEffect ==
  ASSUME CallsFormed, NEW c \in Caller
  PROVE  /\ EmitDecision(c) =>
              /\ Moves(c) /\ call[c].pc = "emit"
              /\ \/ call'[c].pc = "observe" /\ events' = events \cup {DecisionEvent(c)}
                 \/ call'[c].pc = "done" /\ events' = events
         /\ ObserveDecision(c) =>
              /\ Moves(c) /\ call[c].pc = "observe" /\ call'[c].pc = "done"
              /\ \/ events' = events
                 \/ events' = events \cup {[DecisionEvent(c) EXCEPT !.kind = "fallback_engaged"]}
         /\ CreateAgent(c) =>
              /\ Moves(c) /\ call[c].pc = "create"
              /\ \/ call'[c].pc = "register" /\ created' = created \cup {c}
                 \/ call'[c].pc = "done" /\ created' \in {created, created \cup {c}}
         /\ RegisterAgent(c) =>
              /\ Moves(c) /\ call[c].pc = "register" /\ call'[c].pc = "telemetry"
         /\ PublishAgent(c) =>
              /\ Moves(c) /\ call[c].pc = "telemetry" /\ call'[c].pc = "done"
<1>1. ASSUME NEW step, call' = [call EXCEPT ![c].pc = step]
      PROVE  Moves(c) /\ call'[c].pc = step
  BY <1>1, MoveEffect DEF Moves
<1>2. ASSUME EmitDecision(c)
      PROVE  /\ Moves(c) /\ call[c].pc = "emit"
             /\ \/ call'[c].pc = "observe" /\ events' = events \cup {DecisionEvent(c)}
                \/ call'[c].pc = "done" /\ events' = events
  BY <1>1, <1>2 DEF EmitDecision, At
<1>3. ASSUME ObserveDecision(c)
      PROVE  /\ Moves(c) /\ call[c].pc = "observe" /\ call'[c].pc = "done"
             /\ \/ events' = events
                \/ events' = events \cup {[DecisionEvent(c) EXCEPT !.kind = "fallback_engaged"]}
  BY <1>1, <1>3 DEF ObserveDecision, At
<1>4. ASSUME CreateAgent(c)
      PROVE  /\ Moves(c) /\ call[c].pc = "create"
             /\ \/ call'[c].pc = "register" /\ created' = created \cup {c}
                \/ call'[c].pc = "done" /\ created' \in {created, created \cup {c}}
  BY <1>1, <1>4 DEF CreateAgent, At
<1>5. ASSUME RegisterAgent(c)
      PROVE  Moves(c) /\ call[c].pc = "register" /\ call'[c].pc = "telemetry"
  BY <1>1, <1>5 DEF RegisterAgent, At
<1>6. ASSUME PublishAgent(c)
      PROVE  Moves(c) /\ call[c].pc = "telemetry" /\ call'[c].pc = "done"
  BY <1>1, <1>6 DEF PublishAgent, At
<1> QED BY <1>2, <1>3, <1>4, <1>5, <1>6

\* What a step is to the calls.
CallAction(c) ==
  \/ Begin(c) \/ TakeSnapshot(c) \/ SelectGuard(c) \/ SelectAssist(c) \/ SelectReason(c)
  \/ call[c].pc \in {"enqueue", "retry"} /\ Serves(c) /\ UNCHANGED <<registry, autoDisabled, events, agents, created>>
  \/ EnqueueRefused(c)
  \/ EmitDecision(c) \/ ObserveDecision(c)
  \/ CreateAgent(c) \/ RegisterAgent(c) \/ PublishAgent(c)

\* Every step leaves the calls alone or is an action of one of them.
LEMMA CallCases ==
  ASSUME CallsFormed, [Next]_vars
  PROVE  \/ UNCHANGED <<call, autoDisabled, events, agents, created>>
         \/ \E c \in Caller : CallAction(c)
<1>1. CASE Fetch \/ SyncOnce \/ Tick \/ CloseManager \/ UNCHANGED vars
  BY <1>1 DEF Fetch, SyncOnce, Tick, CloseManager, vars
<1>2. ASSUME NEW c \in Caller, InvalidItem(c) \/ Enqueue(c) \/ Retry(c)
      PROVE  CallAction(c)
  <2>1. Accept(c) \/ Skip(c, TRUE) \/ (call[c].pc = "enqueue" /\ Skip(c, call[c].refused))
    BY <1>2 DEF InvalidItem, Enqueue, Retry, At
  <2>2. Serves(c)
    BY <2>1, ItemEffect
  <2> QED BY <1>2, <2>2 DEF CallAction, InvalidItem, Enqueue, Retry, At
<1>3. ASSUME NEW c \in Caller, Begin(c) \/ CallStep(c)
      PROVE  CallAction(c)
  BY <1>2, <1>3 DEF CallStep, CallAction
<1> QED BY <1>1, <1>3 DEF Next

-----------------------------------------------------------------------------
(***************************************************************************)
(* The latch of the quality guardrail.                                     *)
(***************************************************************************)
AssistReasons == {"quality_guardrail_autodisable", "sparse_quantized_assist_selected"}

\* A late call: the latch is still set, and the assist has had no part in it.
LatchOK(u, latched) ==
  /\ u.pc = "idle" => ~u.assist /\ u.decision.reason \notin AssistReasons
  /\ u.req.tool = "hw" /\ u.late =>
       latched /\ ~u.assist /\ u.decision.reason \notin AssistReasons

LatchInv ==
  /\ CallsFormed
  /\ autoDisabled \in [Tool -> BOOLEAN]
  /\ \A c \in Caller : LatchOK(call[c], autoDisabled["hw"])

\* Nothing takes the latch off.
LEMMA LatchMonotone ==
  ASSUME CallsFormed, autoDisabled \in [Tool -> BOOLEAN], [Next]_vars
  PROVE  autoDisabled' \in [Tool -> BOOLEAN] /\ (autoDisabled["hw"] => autoDisabled'["hw"])
<1>1. CASE UNCHANGED autoDisabled
  BY <1>1
<1>2. ASSUME NEW c \in Caller, SelectGuard(c)
      PROVE  autoDisabled' \in [Tool -> BOOLEAN] /\ (autoDisabled["hw"] => autoDisabled'["hw"])
  <2>1. PICK t, trips : autoDisabled' = [autoDisabled EXCEPT ![t] = @ \/ trips]
    BY <1>2 DEF SelectGuard
  <2>2. CASE t \in Tool
    <3>1. PICK now \in BOOLEAN : now = (autoDisabled[t] \/ trips)
      OBVIOUS
    <3>2. autoDisabled' = [autoDisabled EXCEPT ![t] = now]
      BY <2>1, <3>1
    <3>3. autoDisabled[t] => now
      BY <3>1
    <3> QED BY <2>2, <3>2, <3>3 DEF Tool
  <2>3. CASE t \notin Tool
    <3>1. autoDisabled' = autoDisabled
      BY <2>1, <2>3
    <3> QED BY <3>1
  <2> QED BY <2>2, <2>3
<1>3. ASSUME NEW c \in Caller, CallAction(c), ~SelectGuard(c)
      PROVE  UNCHANGED autoDisabled
  BY <1>3 DEF CallAction, Begin, TakeSnapshot, SelectAssist, SelectReason, EnqueueRefused,
         EmitDecision, ObserveDecision, CreateAgent, RegisterAgent, PublishAgent
<1> QED BY <1>1, <1>2, <1>3, CallCases

\* Every step keeps the latch and what late calls have seen of it.
LEMMA LatchStep ==
  ASSUME LatchInv, [Next]_vars
  PROVE  LatchInv'
<1>1. CallsFormed /\ autoDisabled \in [Tool -> BOOLEAN]
  BY DEF LatchInv
<1>2. autoDisabled' \in [Tool -> BOOLEAN] /\ (autoDisabled["hw"] => autoDisabled'["hw"])
  BY <1>1, LatchMonotone
<1>3. CASE UNCHANGED <<call, autoDisabled, events, agents, created>>
  BY <1>3 DEF LatchInv, CallsFormed
<1>4. ASSUME NEW c \in Caller, OnlyCall(c), LatchOK(call'[c], autoDisabled'["hw"])
      PROVE  LatchInv'
  <2>1. ASSUME NEW d \in Caller PROVE LatchOK(call'[d], autoDisabled'["hw"])
    BY <1>2, <1>4, <2>1 DEF OnlyCall, LatchInv, LatchOK
  <2> QED BY <1>2, <1>4, <2>1 DEF OnlyCall, LatchInv
<1>5. ASSUME NEW c \in Caller, Begin(c)
      PROVE  LatchInv'
  <2>1. /\ OnlyCall(c) /\ call[c].pc = "idle" /\ call'[c].pc # "idle"
        /\ call'[c].late = autoDisabled[call'[c].req.tool] /\ call'[c].assist = call[c].assist
        /\ call'[c].decision = call[c].decision
    BY <1>1, <1>5, BeginEffect DEF Routed
  <2>2. ~call[c].assist /\ call[c].decision.reason \notin AssistReasons
    BY <2>1 DEF LatchInv, LatchOK
  <2>3. LatchOK(call'[c], autoDisabled'["hw"])
    BY <1>2, <2>1, <2>2 DEF LatchOK
  <2> QED BY <1>4, <2>1, <2>3
<1>6. ASSUME NEW c \in Caller, call[c].pc # "idle", call'[c].pc # "idle", OnlyCall(c),
             call'[c].req = call[c].req, call'[c].late = call[c].late,
             call[c].req.tool = "hw" /\ autoDisabled["hw"] /\ LatchOK(call[c], autoDisabled["hw"])
               => \/ call'[c].assist = call[c].assist /\ call'[c].decision = call[c].decision
                  \/ call'[c].assist = call[c].assist
                     /\ (~call[c].assist => call'[c].decision.reason \notin AssistReasons)
                  \/ ~call'[c].assist /\ call'[c].decision = call[c].decision
      PROVE  LatchInv'
  <2>1. LatchOK(call[c], autoDisabled["hw"])
    BY DEF LatchInv
  <2>2. LatchOK(call'[c], autoDisabled'["hw"])
    BY <1>2, <1>6, <2>1 DEF LatchOK
  <2> QED BY <1>4, <1>6, <2>2
<1>7. ASSUME NEW c \in Caller, SelectGuard(c)
      PROVE  LatchInv'
  <2>1. call[c].pc # "idle" /\ call'[c].pc # "idle" /\ OnlyCall(c)
        /\ call'[c].req = call[c].req /\ call'[c].late = call[c].late
        /\ call'[c].assist = call[c].assist
    BY <1>1, <1>7, GuardEffect DEF Takes, Asked
  <2>2. CASE Routed(call'[c]) = Routed(call[c])
    BY <1>6, <2>1, <2>2 DEF Routed
  <2>3. ASSUME call[c].req.tool = "hw", autoDisabled["hw"], Routed(call'[c]) # Routed(call[c])
        PROVE  call'[c].decision.reason \notin AssistReasons
    <3>1. ~isSparseQuantizedActive(call[c].req.tool)
      BY <2>3 DEF isSparseQuantizedActive
    <3>2. PICK reason \in {"feature_disabled", "no_eligible_provider"} :
            call'[c].decision = ForTool(call[c].req, baselineDecision(call[c].snap.epoch, reason),
                                        call[c].snap.caps)
      BY <1>1, <1>7, <2>3, <3>1, GuardEffect DEF Takes
    <3>3. PICK d : d = baselineDecision(call[c].snap.epoch, reason)
      OBVIOUS
    <3>4. IsDecision(d) /\ d.reason = reason
      BY SMT, <3>3, BaselineFormed
    <3>5. call'[c].decision = ForTool(call[c].req, d, call[c].snap.caps)
      BY <3>2, <3>3
    <3>6. call[c].req.tool # "sparse"
      BY <2>3
    <3>7. call'[c].decision = d
      BY <3>4, <3>5, <3>6, ToolDecision
    <3> QED BY <3>4, <3>7 DEF AssistReasons
  <2> QED BY <1>6, <2>1, <2>2, <2>3
<1>8. ASSUME NEW c \in Caller, SelectAssist(c)
      PROVE  LatchInv'
  <2>1. call[c].pc # "idle" /\ call'[c].pc # "idle" /\ OnlyCall(c)
        /\ call'[c].req = call[c].req /\ call'[c].late = call[c].late
        /\ call'[c].assist = isSparseQuantizedActive(call[c].req.tool)
        /\ call'[c].decision = call[c].decision
    BY <1>1, <1>8, AssistEffect DEF Asked, Routed
  <2>2. ASSUME call[c].req.tool = "hw", autoDisabled["hw"]
        PROVE  ~call'[c].assist
    BY <2>1, <2>2 DEF isSparseQuantizedActive
  <2> QED BY <1>6, <2>1, <2>2
<1>9. ASSUME NEW c \in Caller, SelectReason(c)
      PROVE  LatchInv'
  <2>1. PICK plugin :
          Takes(c, ForTool(call[c].req,
                           Selects(call[c].snap, Input(call[c].req), call[c].assist,
                                  autoDisabled[call[c].req.tool], plugin), call[c].snap.caps))
    BY <1>1, <1>9, ReasonEffect
  <2>2. call[c].pc # "idle" /\ call'[c].pc # "idle" /\ OnlyCall(c)
        /\ call'[c].req = call[c].req /\ call'[c].late = call[c].late
        /\ call'[c].assist = call[c].assist
    BY <1>1, <1>9, ReasonEffect DEF Takes, Asked
  <2>3. PICK d : d = Selects(call[c].snap, Input(call[c].req), call[c].assist,
                            autoDisabled[call[c].req.tool], plugin)
    OBVIOUS
  <2>4. IsDecision(d) /\ (~call[c].assist => d.reason \notin AssistReasons)
    BY <2>3, DecideFormed DEF AssistReasons
  <2>5. ASSUME call[c].req.tool = "hw"
        PROVE  call'[c].decision = d
    <3>1. call'[c].decision = ForTool(call[c].req, d, call[c].snap.caps)
      BY <2>1, <2>3 DEF Takes
    <3>2. call[c].req.tool # "sparse"
      BY <2>5
    <3> QED BY <2>4, <3>1, <3>2, ToolDecision
  <2> QED BY <1>6, <2>2, <2>4, <2>5
<1>10. ASSUME NEW c \in Caller, EnqueueRefused(c)
      PROVE  LatchInv'
  <2>1. CASE Serves(c)
    BY <1>1, <1>6, <1>10, <2>1, RefusedEffect DEF Serves, Asked
  <2>2. CASE ~Serves(c)
    <3>1. PICK hop : hop = FallbackOnFailure(call[c].decision, call[c].last, Refusal)
      OBVIOUS
    <3>2. Takes(c, hop) /\ call'[c].pc = "retry" /\ call[c].pc = "enqueue"
      BY <1>1, <1>10, <2>2, <3>1, RefusedEffect
    <3>3. hop.reason = normalizeFailureClass(Refusal)
      <4>1. IsDecision(call[c].decision)
        BY <1>1 DEF CallsFormed
      <4> QED BY SMT, <3>1, <4>1, FallbackFormed
    <3>4. hop.reason \in {"unavailable", "capacity_exhausted"}
      BY <3>3 DEF normalizeFailureClass, Refusal
    <3>5. call'[c].decision.reason \notin AssistReasons
      BY <3>2, <3>4 DEF AssistReasons, Takes
    <3> QED BY <1>6, <3>2, <3>5 DEF Takes, Asked
  <2> QED BY <2>1, <2>2
<1>11. ASSUME NEW c \in Caller, Moves(c), call[c].pc # "idle", call'[c].pc # "idle"
      PROVE  LatchInv'
  BY <1>6, <1>11 DEF Moves, Asked, Routed
<1>12. ASSUME NEW c \in Caller, CallAction(c)
      PROVE  LatchInv'
  <2>1. CASE Begin(c) \/ SelectGuard(c) \/ SelectAssist(c) \/ SelectReason(c) \/ EnqueueRefused(c)
    BY <1>5, <1>7, <1>8, <1>9, <1>10, <2>1
  <2>2. CASE TakeSnapshot(c)
    BY <1>1, <1>6, <2>2, SnapshotEffect DEF Routed
  <2>3. CASE Serves(c) /\ call[c].pc \in {"enqueue", "retry"}
    BY <1>6, <2>3 DEF Serves, Asked
  <2>4. CASE \/ EmitDecision(c) \/ ObserveDecision(c)
             \/ CreateAgent(c) \/ RegisterAgent(c) \/ PublishAgent(c)
    BY <1>1, <1>11, <2>4, EventEffect
  <2> QED BY <1>12, <2>1, <2>2, <2>3, <2>4 DEF CallAction
<1> QED BY <1>1, <1>3, <1>12, CallCases

\* At first every call is idle.
LEMMA CallsInit ==
  ASSUME Init
  PROVE  CallsFormed /\ \A c \in Caller : call[c] = Idle
<1>1. call = [c \in Caller |-> Idle]
  BY DEF Init
<1>2. IsCall(Idle) /\ Idle.decision = baselineDecision(0, "none")
  BY DEF Idle, IsCall, CallFields
<1>3. IsDecision(Idle.decision)
  BY SMT, <1>2, BaselineFormed
<1>4. \A c \in Caller : call[c] = Idle
  BY <1>1
<1>5. DOMAIN call = Caller /\ call = [c \in Caller |-> call[c]]
  BY <1>1
<1> QED BY <1>2, <1>3, <1>4, <1>5 DEF CallsFormed

\* Once a breach has latched the hardware-aware tool's engine, the assist has no
\* part in a later call, and no later call trips the guardrail
\* (policy_engine_v2.go: shouldAutoDisableSparseQuantized, Select).
THEOREM LatchSticks == Spec => []AutoDisableSticks
<1>1. Init => LatchInv
  <2> SUFFICES ASSUME Init PROVE LatchInv
    OBVIOUS
  <2>1. CallsFormed /\ \A c \in Caller : call[c] = Idle
    BY CallsInit
  <2>2. autoDisabled \in [Tool -> BOOLEAN]
    BY DEF Init
  <2>3. Idle.pc = "idle" /\ Idle.assist = FALSE /\ Idle.late = FALSE
        /\ Idle.decision = baselineDecision(0, "none")
    BY DEF Idle
  <2>4. Idle.decision.reason = "none"
    BY SMT, <2>3, BaselineFormed
  <2>5. LatchOK(Idle, autoDisabled["hw"])
    BY <2>3, <2>4 DEF LatchOK, AssistReasons
  <2> QED BY <2>1, <2>2, <2>5 DEF LatchInv
<1>2. LatchInv => AutoDisableSticks
  BY DEF LatchInv, LatchOK, AutoDisableSticks, AssistReasons
<1> QED BY <1>1, <1>2, LatchStep, PTL DEF Spec

-----------------------------------------------------------------------------
(***************************************************************************)
(* The registry's epochs.                                                  *)
(***************************************************************************)
\* A record, or what it looks like when it is stale.
SeenAs(a, cap) ==
  \/ a = cap
  \/ cap.health = "healthy" /\ a = [cap EXCEPT !.health = "degraded"]

\* A set of records that shows the content of a registry.
Shows(caps, content) ==
  /\ \A a \in caps : \E p \in DOMAIN content : SeenAs(a, content[p])
  /\ \A p \in DOMAIN content : \E a \in caps : SeenAs(a, content[p])

RegistryFormed ==
  /\ epoch \in Nat /\ (epoch = 0 => DOMAIN items = {})
  /\ \A p \in DOMAIN items : IsCapability(items[p]) /\ items[p].id = p
  /\ \A cap \in sync : IsCapability(cap)

\* A snapshot of the present epoch shows the registry.
Current(snap, content, now) ==
  /\ snap.epoch \in Nat /\ snap.epoch <= now
  /\ snap.epoch = now => Shows(snap.caps, content)

EpochInv ==
  /\ CallsFormed /\ RegistryFormed
  /\ \A c \in Caller : Current(call[c].snap, items, epoch)
  /\ SameEpochSameView

\* Two views of one record differ by its age only.
LEMMA SeenAlike ==
  ASSUME NEW cap, "health" \in DOMAIN cap, NEW a, NEW b, SeenAs(a, cap), SeenAs(b, cap)
  PROVE  SameUnlessAged(a, b)
<1>1. CASE a = b
  BY <1>1 DEF SameUnlessAged
<1>2. ASSUME NEW old, cap.health = "healthy", old = [cap EXCEPT !.health = "degraded"]
      PROVE  SameUnlessAged(cap, old) /\ SameUnlessAged(old, cap)
  <2>1. old.health = "degraded"
    BY <1>2
  <2>2. [old EXCEPT !.health = ""] = [cap EXCEPT !.health = ""]
    BY <1>2
  <2> QED BY <1>2, <2>1, <2>2 DEF SameUnlessAged
<1> QED BY <1>1, <1>2 DEF SeenAs

\* At most one call changes its snapshot in a step, and takes the present one.
LEMMA SnapCases ==
  ASSUME CallsFormed, [Next]_vars
  PROVE  /\ CallsFormed'
         /\ \/ \A c \in Caller : call'[c].snap = call[c].snap
            \/ \E c \in Caller :
                 /\ \A d \in Caller \ {c} : call'[d].snap = call[d].snap
                 /\ call'[c].snap = Snapshot /\ UNCHANGED <<registry, sync>>
<1>1. CASE UNCHANGED <<call, autoDisabled, events, agents, created>>
  BY <1>1 DEF CallsFormed
<1>2. ASSUME NEW c \in Caller, OnlyCall(c), call'[c].snap = call[c].snap
      PROVE  CallsFormed' /\ \A d \in Caller : call'[d].snap = call[d].snap
  BY <1>2 DEF OnlyCall
<1>3. ASSUME NEW c \in Caller, TakeSnapshot(c)
      PROVE  /\ CallsFormed'
             /\ \A d \in Caller \ {c} : call'[d].snap = call[d].snap
             /\ call'[c].snap = Snapshot /\ UNCHANGED <<registry, sync>>
  <2>1. UNCHANGED <<registry, sync>>
    BY <1>3 DEF TakeSnapshot
  <2> QED BY <1>3, <2>1, SnapshotEffect DEF OnlyCall
<1>4. ASSUME NEW c \in Caller, CallAction(c), ~TakeSnapshot(c)
      PROVE  OnlyCall(c) /\ call'[c].snap = call[c].snap
  <2>1. CASE Begin(c)
    BY <2>1, BeginEffect
  <2>2. CASE SelectGuard(c)
    BY <2>2, GuardEffect DEF Takes, Asked
  <2>3. CASE SelectAssist(c)
    BY <2>3, AssistEffect DEF Asked
  <2>4. CASE SelectReason(c)
    BY <2>4, ReasonEffect DEF Takes, Asked
  <2>5. CASE Serves(c)
    BY <2>5 DEF Serves, Asked
  <2>6. CASE EnqueueRefused(c)
    BY <2>6, RefusedEffect DEF Takes, Serves, Asked
  <2>7. CASE \/ EmitDecision(c) \/ ObserveDecision(c)
             \/ CreateAgent(c) \/ RegisterAgent(c) \/ PublishAgent(c)
    BY <2>7, EventEffect DEF Moves, Asked
  <2> QED BY <1>4, <2>1, <2>2, <2>3, <2>4, <2>5, <2>6, <2>7 DEF CallAction
<1> QED BY <1>1, <1>2, <1>3, <1>4, CallCases

\* Only an upsert of a fetched record changes the registry's content.
LEMMA RegistryCases ==
  ASSUME CallsFormed, [Next]_vars
  PROVE  \/ UNCHANGED <<items, epoch>> /\ (sync' \subseteq sync \/ sync' \in HalStates)
         \/ \E cap \in sync : Upsert(cap) /\ UNCHANGED call /\ sync' \subseteq sync
<1>1. CASE Fetch
  BY <1>1 DEF Fetch, registry
<1>2. CASE SyncOnce
  <2>1. PICK cap \in sync :
          /\ sync' = sync \ {cap}
          /\ IF validateCapability(cap) THEN Upsert(cap) ELSE UNCHANGED registry
    BY <1>2 DEF SyncOnce
  <2>2. UNCHANGED call /\ sync' \subseteq sync
    BY <1>2, <2>1 DEF SyncOnce
  <2> QED BY <2>1, <2>2 DEF registry
<1>3. CASE Tick \/ CloseManager \/ UNCHANGED vars
  BY <1>3 DEF Tick, CloseManager, vars, registry
<1>4. ASSUME NEW c \in Caller, Begin(c) \/ CallStep(c)
      PROVE  UNCHANGED <<items, epoch, sync>>
  BY <1>4 DEF CallStep, Begin, TakeSnapshot, SelectGuard, SelectAssist, SelectReason,
         InvalidItem, Enqueue, EnqueueRefused, Retry, EmitDecision, ObserveDecision,
         CreateAgent, RegisterAgent, PublishAgent, registry
<1>5. CASE UNCHANGED <<items, epoch, sync>>
  BY <1>5
<1> QED BY <1>1, <1>2, <1>3, <1>4, <1>5 DEF Next

\* Upsert keeps the registry in form and opens a new epoch.
LEMMA UpsertFormed ==
  ASSUME RegistryFormed, NEW cap \in sync, Upsert(cap), sync' \subseteq sync
  PROVE  RegistryFormed' /\ epoch' = epoch + 1
<1>1. /\ epoch' = epoch + 1
      /\ items' = [p \in DOMAIN items \cup {cap.id} |-> IF p = cap.id THEN cap ELSE items[p]]
  BY DEF Upsert
<1>2. epoch' \in Nat /\ epoch' # 0
  BY SMT, <1>1 DEF RegistryFormed
<1>3. \A p \in DOMAIN items' : IsCapability(items'[p]) /\ items'[p].id = p
  BY <1>1 DEF RegistryFormed
<1> QED BY <1>1, <1>2, <1>3 DEF RegistryFormed

\* Every step keeps the registry in form.
LEMMA RegistryStep ==
  ASSUME CallsFormed, RegistryFormed, [Next]_vars
  PROVE  RegistryFormed'
<1>1. CASE UNCHANGED <<items, epoch>> /\ sync' \subseteq sync
  BY <1>1 DEF RegistryFormed
<1>2. CASE UNCHANGED <<items, epoch>> /\ sync' \in HalStates
  BY <1>2, CapabilitiesAssumption DEF RegistryFormed
<1> QED BY <1>1, <1>2, RegistryCases, UpsertFormed

\* A snapshot shows the registry under its present epoch.
LEMMA SnapshotShows ==
  ASSUME RegistryFormed
  PROVE  Snapshot.epoch = epoch /\ Shows(Snapshot.caps, items)
<1>1. PICK caps : caps = {applyStaleness(items[p], age[p]) : p \in DOMAIN items}
  OBVIOUS
<1>2. Snapshot.epoch = epoch /\ Snapshot.caps = caps
  BY <1>1 DEF Snapshot
<1>3. \A p \in DOMAIN items : SeenAs(applyStaleness(items[p], age[p]), items[p])
  BY DEF applyStaleness, SeenAs
<1>4. Shows(caps, items)
  BY <1>1, <1>3 DEF Shows
<1> QED BY <1>2, <1>4

\* Two sets that show the registry show each other's records.
LEMMA ShowsAlike ==
  ASSUME RegistryFormed, NEW s, NEW t, Shows(s, items), Shows(t, items), NEW a \in s
  PROVE  \E b \in t : SameUnlessAged(a, b)
<1>1. PICK p \in DOMAIN items : SeenAs(a, items[p])
  BY DEF Shows
<1>2. PICK b \in t : SeenAs(b, items[p])
  BY <1>1 DEF Shows
<1>3. "health" \in DOMAIN items[p]
  BY <1>1 DEF RegistryFormed, IsCapability
<1> QED BY <1>1, <1>2, <1>3, SeenAlike

\* Every step keeps the snapshots of an epoch alike.
LEMMA EpochStep ==
  ASSUME EpochInv, [Next]_vars
  PROVE  EpochInv'
<1>1. CallsFormed /\ RegistryFormed /\ CallsFormed' /\ RegistryFormed'
  BY SnapCases, RegistryStep DEF EpochInv
<1>2. \A c \in Caller : Current(call[c].snap, items, epoch)
  BY DEF EpochInv
<1>3. ASSUME UNCHANGED <<items, epoch>>, NEW snap, Current(snap, items, epoch)
      PROVE  Current(snap, items', epoch')
  BY <1>3 DEF Current, Shows
<1>4. CASE /\ \A c \in Caller : call'[c].snap = call[c].snap
           /\ UNCHANGED <<items, epoch>>
  <2>1. \A c \in Caller : Current(call'[c].snap, items', epoch')
    BY <1>2, <1>3, <1>4
  <2>2. SameEpochSameView'
    BY <1>4 DEF EpochInv, SameEpochSameView
  <2> QED BY <1>1, <1>4, <2>1, <2>2 DEF EpochInv
<1>5. ASSUME NEW cap \in sync, Upsert(cap), UNCHANGED call, sync' \subseteq sync
      PROVE  EpochInv'
  <2>1. epoch' = epoch + 1
    BY <1>1, <1>5, UpsertFormed
  <2>2. epoch \in Nat
    BY <1>1 DEF RegistryFormed
  <2>3. ASSUME NEW snap, Current(snap, items, epoch)
        PROVE  Current(snap, items', epoch')
    <3>1. PICK n \in Nat : n = snap.epoch /\ n <= epoch
      BY <2>3 DEF Current
    <3>2. n <= epoch + 1 /\ n # epoch + 1
      BY SMT, <2>2, <3>1
    <3> QED BY <2>1, <3>1, <3>2 DEF Current
  <2>4. \A c \in Caller : call'[c].snap = call[c].snap /\ Current(call'[c].snap, items', epoch')
    BY <1>2, <1>5, <2>3
  <2>5. SameEpochSameView'
    BY <2>4 DEF EpochInv, SameEpochSameView
  <2> QED BY <1>1, <2>4, <2>5 DEF EpochInv
<1>6. ASSUME NEW c \in Caller, \A d \in Caller \ {c} : call'[d].snap = call[d].snap,
             call'[c].snap = Snapshot, UNCHANGED <<registry, sync>>
      PROVE  EpochInv'
  <2>1. Snapshot.epoch = epoch /\ Shows(Snapshot.caps, items) /\ Current(Snapshot, items, epoch)
    <3>1. epoch \in Nat
      BY <1>1 DEF RegistryFormed
    <3>2. epoch <= epoch
      BY SMT, <3>1
    <3> QED BY <1>1, <3>1, <3>2, SnapshotShows DEF Current
  <2>2. UNCHANGED <<items, epoch>>
    BY <1>6 DEF registry
  <2>3. \A d \in Caller : Current(call'[d].snap, items, epoch)
    BY <1>2, <1>6, <2>1
  <2>4. ASSUME NEW d \in Caller PROVE Current(call'[d].snap, items', epoch')
    BY <1>3, <2>2, <2>3
  <2>5. ASSUME NEW d \in Caller, NEW e \in Caller, call'[d].snap.epoch = call'[e].snap.epoch,
               NEW a \in call'[d].snap.caps
        PROVE  \E b \in call'[e].snap.caps : SameUnlessAged(a, b)
    <3>1. CASE call'[d].snap.epoch = epoch
      BY <1>1, <2>3, <2>5, <3>1, ShowsAlike DEF Current
    <3>2. CASE call'[d].snap.epoch # epoch
      <4>1. d # c /\ e # c
        BY <1>6, <2>1, <2>5, <3>2
      <4>2. call'[d].snap = call[d].snap /\ call'[e].snap = call[e].snap
        BY <1>6, <4>1
      <4> QED BY <2>5, <4>2 DEF EpochInv, SameEpochSameView
    <3> QED BY <3>1, <3>2
  <2>6. SameEpochSameView'
    BY <2>5 DEF SameEpochSameView
  <2> QED BY <1>1, <2>4, <2>6 DEF EpochInv
<1>7. CASE UNCHANGED <<items, epoch>>
  BY <1>1, <1>4, <1>6, <1>7, SnapCases
<1> QED BY <1>1, <1>5, <1>7, RegistryCases

\* The first registry is in form.
LEMMA RegistryInit ==
  ASSUME Init
  PROVE  RegistryFormed
<1>1. PICK seed \in Seeds : items = ById(seed) /\ epoch = Cardinality(seed)
  BY DEF Init
<1>2. IsFiniteSet(seed) /\ \A cap \in seed : IsCapability(cap)
  BY CapabilitiesAssumption
<1>3. epoch \in Nat
  BY <1>1, <1>2, FS_CardinalityType
<1>4. DOMAIN items = {cap.id : cap \in seed}
  BY <1>1 DEF ById
<1>5. ASSUME epoch = 0 PROVE DOMAIN items = {}
  <2>1. seed = {}
    BY <1>1, <1>2, <1>5, FS_EmptySet
  <2> QED BY <1>4, <2>1
<1>6. ASSUME NEW p \in DOMAIN items PROVE IsCapability(items[p]) /\ items[p].id = p
  <2>1. items[p] = CHOOSE cap \in seed : cap.id = p
    BY <1>1, <1>4 DEF ById
  <2>2. \E cap \in seed : cap.id = p
    BY <1>4
  <2>3. items[p] \in seed /\ items[p].id = p
    BY <2>1, <2>2
  <2> QED BY <1>2, <2>3
<1> QED BY <1>3, <1>5, <1>6 DEF RegistryFormed, Init

\* An epoch names one content of the registry, up to records that have gone stale
\* (capability_registry.go: Upsert, Snapshot).
THEOREM EpochNamesView == Spec => []SameEpochSameView
<1>1. Init => EpochInv
  <2> SUFFICES ASSUME Init PROVE EpochInv
    OBVIOUS
  <2>1. CallsFormed /\ \A c \in Caller : call[c] = Idle
    BY CallsInit
  <2>2. RegistryFormed
    BY RegistryInit
  <2>3. Idle.snap.epoch = 0 /\ Idle.snap.caps = {}
    BY DEF Idle, NoSnapshot
  <2>4. 0 \in Nat /\ 0 <= epoch /\ (epoch = 0 => DOMAIN items = {})
    BY SMT, <2>2 DEF RegistryFormed
  <2>5. Current(Idle.snap, items, epoch)
    BY <2>3, <2>4 DEF Current, Shows
  <2>6. SameEpochSameView
    BY <2>1, <2>3 DEF SameEpochSameView
  <2> QED BY <2>1, <2>2, <2>5, <2>6 DEF EpochInv
<1>2. EpochInv => SameEpochSameView
  BY DEF EpochInv
<1> QED BY <1>1, <1>2, EpochStep, PTL DEF Spec

-----------------------------------------------------------------------------
(***************************************************************************)
(* Ranking.                                                                *)
(***************************************************************************)
\* In a finite set in which every element has others below it, as a strict
\* order would have them, each place is taken.
LEMMA PlacesTaken ==
  ASSUME NEW S, IsFiniteSet(S), NEW below \in [S -> SUBSET S],
         \A c \in S : c \notin below[c],
         \A c, d \in S : c # d => c \in below[d] \/ d \in below[c],
         \A c, d \in S : d \in below[c] => below[d] \subseteq below[c],
         NEW n \in 1..Cardinality(S)
  PROVE  \E c \in S : Cardinality(below[c]) = n - 1
<1>1. PICK size \in Nat : size = Cardinality(S)
  BY FS_CardinalityType
<1>2. n \in 1..size
  BY <1>1
<1>3. ASSUME NEW c \in S
      PROVE  IsFiniteSet(below[c]) /\ Cardinality(below[c]) \in 0..(size - 1)
  <2>1. IsFiniteSet(S \ {c}) /\ Cardinality(S \ {c}) = size - 1
    BY <1>1, FS_RemoveElement
  <2>2. below[c] \subseteq S \ {c}
    OBVIOUS
  <2>3. IsFiniteSet(below[c]) /\ Cardinality(below[c]) <= size - 1
    BY SMT, <2>1, <2>2, FS_Subset
  <2>4. Cardinality(below[c]) \in Nat
    BY <2>3, FS_CardinalityType
  <2> QED BY SMT, <1>1, <2>3, <2>4
<1>4. ASSUME NEW c \in S, NEW d \in S, d \in below[c]
      PROVE  Cardinality(below[d]) # Cardinality(below[c])
  <2>1. below[d] \subseteq below[c] /\ below[d] # below[c]
    BY <1>4
  <2> QED BY SMT, <1>3, <2>1, FS_Subset
<1>5. SUFFICES ASSUME \A c \in S : Cardinality(below[c]) # n - 1
               PROVE  FALSE
  OBVIOUS
<1> DEFINE T == (0..(size - 1)) \ {n - 1}
           f == [c \in S |-> Cardinality(below[c])]
<1>6. IsFiniteSet(T) /\ Cardinality(T) < size
  <2>1. IsFiniteSet(0..(size - 1)) /\ Cardinality(0..(size - 1)) = size
    <3>1. 0 \in Int /\ size - 1 \in Int /\ size - 1 >= 0 /\ size - 1 - 0 + 1 = size
      BY SMT, <1>1, <1>2
    <3>2. IsFiniteSet(0..(size - 1))
      BY SMT, <3>1, FS_Interval
    <3>3. Cardinality(0..(size - 1)) = IF 0 > size - 1 THEN 0 ELSE size - 1 - 0 + 1
      BY SMT, <3>1, FS_Interval
    <3> QED BY SMT, <3>1, <3>2, <3>3
  <2>2. n - 1 \in 0..(size - 1)
    BY SMT, <1>1, <1>2
  <2>3. PICK R : R = 0..(size - 1)
    OBVIOUS
  <2>4. IsFiniteSet(R) /\ Cardinality(R) = size /\ n - 1 \in R
    BY <2>1, <2>2, <2>3
  <2>5. IsFiniteSet(R \ {n - 1}) /\ Cardinality(R \ {n - 1}) = size - 1
    BY SMT, <2>4, FS_RemoveElement
  <2>6. IsFiniteSet(T) /\ Cardinality(T) = size - 1
    BY <2>3, <2>5
  <2> QED BY SMT, <1>1, <2>6
<1>7. f \in [S -> T]
  <2>1. \A c \in S : Cardinality(below[c]) \in T
    BY <1>3, <1>5
  <2> HIDE DEF T
  <2> QED BY <2>1
<1>8. PICK x, y \in S : x # y /\ f[x] = f[y]
  <2> HIDE DEF T, f
  <2> QED BY SMT, <1>1, <1>6, <1>7, FS_PigeonHole
<1>9. Cardinality(below[x]) = Cardinality(below[y])
  BY <1>8
<1> QED BY <1>4, <1>8, <1>9

\* What normalisation leaves of a configuration.
LEMMA PolicyFormed ==
  /\ Policy.weights \in [Dimension -> Int] /\ Policy.maxQueue \in Nat \ {0}
  /\ Policy.sparse.tradeoff \in Int
  /\ Policy.ssm.bias \in Int /\ Policy.ssm.min \in Int /\ Policy.ssm.max \in Int
  /\ Policy.ssm.sensitivity \in Int
<1>1. /\ RawPolicy.weights \in [Dimension -> Int] /\ RawPolicy.maxQueue \in Int
      /\ RawPolicy.sparse \in [enabled : BOOLEAN, tradeoff : Int, minQuality : Int]
      /\ RawPolicy.ssm \in [enabled : BOOLEAN, bias : Int, min : Int, max : Int, sensitivity : Int]
  BY SMT, PolicyAssumption DEF PolicyV2Config
<1>2. DefaultPolicy.weights \in [Dimension -> Int]
  BY SMT DEF DefaultPolicy, Dimension
<1>3. normalizeWeights(RawPolicy.weights) \in [Dimension -> Int]
  BY SMT, <1>1, <1>2 DEF normalizeWeights
<1>4. Policy.weights = normalizeWeights(RawPolicy.weights)
  BY SMT, PolicyAssumption DEF Policy, normalizePolicyV2Config, PolicyV2Config
<1>5. Policy.maxQueue = IF RawPolicy.maxQueue <= 0 THEN DefaultPolicy.maxQueue ELSE RawPolicy.maxQueue
  BY SMT, PolicyAssumption DEF Policy, normalizePolicyV2Config, PolicyV2Config
<1>6. Policy.sparse = normalizeSparse(RawPolicy.sparse) /\ Policy.ssm = normalizeSSM(RawPolicy.ssm)
  BY SMT, PolicyAssumption DEF Policy, normalizePolicyV2Config, PolicyV2Config
<1>7. Policy.maxQueue \in Nat \ {0}
  BY SMT, <1>1, <1>5 DEF DefaultPolicy
<1>8. Policy.sparse.tradeoff \in Int
  BY SMT, <1>1, <1>6 DEF normalizeSparse, Within, DefaultPolicy
<1>9. /\ Policy.ssm.bias \in Int /\ Policy.ssm.min \in Int /\ Policy.ssm.max \in Int
      /\ Policy.ssm.sensitivity \in Int
  BY SMT, <1>1, <1>6 DEF normalizeSSM, Within, DefaultPolicy
<1> QED BY <1>3, <1>4, <1>7, <1>8, <1>9

\* The scores are whole numbers, whatever the classes of a record are called.
LEMMA ClassScores ==
  ASSUME NEW cap, cap.queue \in Int
  PROVE  /\ healthScore(cap.health) \in Int /\ reliabilityScore(cap.reliability) \in Int
         /\ costScore(cap.cost) \in Int /\ latencyScore(cap.latency) \in Int
         /\ healthRank(cap.health) \in Int /\ reliabilityRank(cap.reliability) \in Int
         /\ queueDepthScore(cap.queue, Policy.maxQueue) \in Int
<1>1. /\ healthScore(cap.health) \in Int /\ reliabilityScore(cap.reliability) \in Int
      /\ costScore(cap.cost) \in Int /\ latencyScore(cap.latency) \in Int
  BY SMT DEF healthScore, reliabilityScore, costScore, latencyScore
<1>2. healthRank(cap.health) \in Int /\ reliabilityRank(cap.reliability) \in Int
  BY SMT DEF healthRank, reliabilityRank
<1>3. Policy.maxQueue \in Nat \ {0}
  BY PolicyFormed
<1>4. (60 * cap.queue) \div Policy.maxQueue \in Int
  BY SMT, <1>3
<1>5. queueDepthScore(cap.queue, Policy.maxQueue) \in Int
  BY SMT, <1>4 DEF queueDepthScore, Clamp
<1> QED BY <1>1, <1>2, <1>5

\* The score of the workload tags is a whole number.
LEMMA WorkloadScore ==
  ASSUME NEW tags, IsFiniteSet(tags), NEW supported
  PROVE  workloadScore(tags, supported) \in Int
<1>1. CASE tags = {}
  BY SMT, <1>1 DEF workloadScore
<1>2. CASE tags # {}
  <2>1. Cardinality(tags) \in Nat \ {0}
    BY SMT, <1>2, FS_CardinalityType, FS_EmptySet
  <2>2. IsFiniteSet(tags \cap supported)
    BY SMT, FS_Subset
  <2>3. Cardinality(tags \cap supported) \in Nat
    BY <2>2, FS_CardinalityType
  <2>4. (60 * Cardinality(tags \cap supported)) \div Cardinality(tags) \in Int
    BY SMT, <2>1, <2>3
  <2> QED BY <1>2, <2>4 DEF workloadScore
<1> QED BY <1>1, <1>2

\* The score of a record is a whole number.
LEMMA ScoreWhole ==
  ASSUME NEW cap, cap.queue \in Int, NEW tags, IsFiniteSet(tags)
  PROVE  Score(cap, tags) \in Int
<1> DEFINE w == Policy.weights
           h == healthScore(cap.health)
           r == reliabilityScore(cap.reliability)
           c == costScore(cap.cost)
           l == latencyScore(cap.latency)
           q == queueDepthScore(cap.queue, Policy.maxQueue)
           k == workloadScore(tags, cap.tags)
<1>1. h \in Int /\ r \in Int /\ c \in Int /\ l \in Int /\ q \in Int /\ k \in Int
  BY ClassScores, WorkloadScore
<1>2. w \in [Dimension -> Int]
  BY PolicyFormed
<1>3. Score(cap, tags) = w["health"] * h + w["reliability"] * r + w["cost"] * c
                         + w["latency"] * l + w["queue"] * q + w["workload"] * k
  BY DEF Score
<1> HIDE DEF w, h, r, c, l, q, k
<1>4. /\ w["health"] \in Int /\ w["reliability"] \in Int /\ w["cost"] \in Int
      /\ w["latency"] \in Int /\ w["queue"] \in Int /\ w["workload"] \in Int
  BY SMT, <1>2 DEF Dimension
<1> QED BY SMT, <1>1, <1>3, <1>4

\* The deltas of both assists are whole numbers.
LEMMA DeltasWhole ==
  ASSUME NEW cap, cap.queue \in Int, NEW tags, NEW seqLen \in Int
  PROVE  sparseQuantizedTradeoffDelta(cap, tags) \in Int /\ ssmThroughputDelta(cap, seqLen) \in Int
<1>1. sparseQuantizedTradeoffDelta(cap, tags) \in Int
  BY SMT, ClassScores, PolicyFormed DEF sparseQuantizedTradeoffDelta
<1>2. PICK place : place = normalizeSequenceLength(seqLen)
  OBVIOUS
<1>3. place.num \in Int /\ place.den \in Nat \ {0}
  BY SMT, <1>2, PolicyFormed DEF normalizeSequenceLength, Clamp
<1>4. PICK signal \in Int : signal = latencyScore(cap.latency) + queueDepthScore(cap.queue, Policy.maxQueue)
  BY SMT, ClassScores
<1>5. ssmThroughputDelta(cap, seqLen) =
        (Policy.ssm.bias * signal * (place.den + place.num * Policy.ssm.sensitivity))
          \div (2 * place.den)
  BY <1>2, <1>4 DEF ssmThroughputDelta
<1>6. PICK dividend \in Int :
        dividend = Policy.ssm.bias * signal * (place.den + place.num * Policy.ssm.sensitivity)
  BY SMT, <1>3, PolicyFormed
<1>7. dividend \div (2 * place.den) \in Int
  BY SMT, <1>3
<1> QED BY <1>1, <1>5, <1>6, <1>7

\* Where an id stands in the order of ids.
Place(p) == CHOOSE i \in DOMAIN IdOrder : IdOrder[i] = p

\* Each provider has one place in the order of ids.
LEMMA PlaceOf ==
  ASSUME NEW p \in Provider
  PROVE  Place(p) \in 1..Len(IdOrder) /\ IdOrder[Place(p)] = p
<1>1. \E i \in DOMAIN IdOrder : IdOrder[i] = p
  BY DEF Provider
<1>2. Place(p) \in DOMAIN IdOrder /\ IdOrder[Place(p)] = p
  BY <1>1 DEF Place
<1> QED BY SMT, <1>2, IdsAssumption

\* The order of ids is the order of their places.
LEMMA BeforeByPlace ==
  ASSUME NEW p \in Provider, NEW q \in Provider
  PROVE  IdBefore(p, q) <=> Place(p) < Place(q)
<1>1. /\ Place(p) \in DOMAIN IdOrder /\ IdOrder[Place(p)] = p
      /\ Place(q) \in DOMAIN IdOrder /\ IdOrder[Place(q)] = q
  BY SMT, PlaceOf, IdsAssumption
<1>2. \A i \in DOMAIN IdOrder : (IdOrder[i] = p => i = Place(p)) /\ (IdOrder[i] = q => i = Place(q))
  BY <1>1, IdsAssumption
<1> QED BY <1>1, <1>2 DEF IdBefore

\* What a snapshot holds: one record of each provider.
CapsFormed(caps) ==
  /\ \A a \in caps : IsCapability(a)
  /\ \A a, b \in caps : a.id = b.id => a = b

CandFields == {"cap", "score", "confidence"}
IsCand(c) == DOMAIN c = CandFields /\ c = [f \in CandFields |-> c[f]]

\* The candidates of a selection: one for each record, with a whole score.
CandsFormed(cands, caps, tags) ==
  /\ \A c \in cands : /\ IsCand(c) /\ c.score \in Int
                      /\ c.cap \in caps /\ isPolicyEligible(c.cap, tags)
  /\ \A c, d \in cands : c.cap = d.cap => c = d

\* scoreCandidates makes one candidate of each eligible record.
LEMMA CandsScored ==
  ASSUME NEW caps, CapsFormed(caps), NEW tags, IsFiniteSet(tags)
  PROVE  CandsFormed(scoreCandidates(caps, tags), caps, tags)
<1> DEFINE conf(cap) == clamp01((100 * Score(cap, tags)) \div SumOf(Policy.weights))
           cand(cap) == [cap |-> cap, score |-> Score(cap, tags), confidence |-> conf(cap)]
<1>1. ASSUME NEW c \in scoreCandidates(caps, tags)
      PROVE  \E cap \in caps : isPolicyEligible(cap, tags) /\ c = cand(cap)
  BY <1>1 DEF scoreCandidates
<1> HIDE DEF conf
<1>2. ASSUME NEW cap \in caps
      PROVE  IsCand(cand(cap)) /\ cand(cap).cap = cap /\ cand(cap).score \in Int
  <2>1. Score(cap, tags) \in Int
    BY ScoreWhole DEF CapsFormed, IsCapability
  <2> QED BY <2>1 DEF IsCand, CandFields
<1> HIDE DEF cand
<1>3. \A c \in scoreCandidates(caps, tags) :
        /\ IsCand(c) /\ c.score \in Int
        /\ c.cap \in caps /\ isPolicyEligible(c.cap, tags) /\ c = cand(c.cap)
  BY <1>1, <1>2
<1> QED BY <1>3 DEF CandsFormed

\* A pass over the candidates that keeps their records.
LEMMA CandsMapped ==
  ASSUME NEW cands, NEW caps, NEW tags, CandsFormed(cands, caps, tags), NEW g,
         \A c \in cands : IsCand(g[c]) /\ g[c].cap = c.cap /\ g[c].score \in Int,
         NEW out, out = {g[c] : c \in cands}
  PROVE  CandsFormed(out, caps, tags)
<1>1. \A d \in out : \E c \in cands : d = g[c] /\ d.cap = c.cap
  OBVIOUS
<1>2. ASSUME NEW d \in out
      PROVE  IsCand(d) /\ d.score \in Int /\ d.cap \in caps /\ isPolicyEligible(d.cap, tags)
  BY <1>1 DEF CandsFormed
<1>3. ASSUME NEW d \in out, NEW e \in out, d.cap = e.cap
      PROVE  d = e
  <2>1. PICK c \in cands, b \in cands : d = g[c] /\ d.cap = c.cap /\ e = g[b] /\ e.cap = b.cap
    BY <1>1, <1>3
  <2>2. c = b
    BY <1>3, <2>1 DEF CandsFormed
  <2> QED BY <2>1, <2>2
<1> QED BY <1>2, <1>3 DEF CandsFormed

\* Raise changes the score only.
LEMMA Raised ==
  ASSUME NEW c, IsCand(c), c.score \in Int, NEW delta \in Int
  PROVE  LET d == Raise(c, delta)
         IN IsCand(d) /\ d.cap = c.cap /\ d.score \in Int
<1>1. PICK score, conf : /\ score = c.score + delta /\ score \in Int
                       /\ conf = clamp01(c.confidence + delta)
  BY SMT
<1>2. PICK d : d = Raise(c, delta)
  OBVIOUS
<1>3. d = [c EXCEPT !.score = score, !.confidence = conf]
  BY <1>1, <1>2 DEF Raise
<1>4. IsCand(d) /\ d.cap = c.cap /\ d.score = score
  BY <1>3 DEF IsCand, CandFields
<1> QED BY <1>1, <1>2, <1>4

\* The assists keep the candidates, whatever they add to their scores.
LEMMA CandsAssisted ==
  ASSUME NEW cands, NEW caps, CapsFormed(caps), NEW tags, CandsFormed(cands, caps, tags),
         NEW seqLen \in Int
  PROVE  /\ CandsFormed(SparseAssisted(cands, tags), caps, tags)
         /\ CandsFormed(SSMAssisted(cands, seqLen), caps, tags)
<1>1. ASSUME NEW c \in cands, NEW d,
             \/ d = c
             \/ d = Raise(c, sparseQuantizedTradeoffDelta(c.cap, tags))
             \/ d = Raise(c, ssmThroughputDelta(c.cap, seqLen))
      PROVE  IsCand(d) /\ d.cap = c.cap /\ d.score \in Int
  <2>1. IsCand(c) /\ c.score \in Int /\ c.cap \in caps
    BY DEF CandsFormed
  <2>2. c.cap.queue \in Int
    BY <2>1 DEF CapsFormed, IsCapability
  <2>3. /\ sparseQuantizedTradeoffDelta(c.cap, tags) \in Int
        /\ ssmThroughputDelta(c.cap, seqLen) \in Int
    BY <2>2, DeltasWhole
  <2> QED BY <1>1, <2>1, <2>3, Raised
<1>2. CandsFormed(SparseAssisted(cands, tags), caps, tags)
  <2> DEFINE g == [c \in cands |-> IF "sparse" \in c.cap.flags
                     THEN Raise(c, sparseQuantizedTradeoffDelta(c.cap, tags)) ELSE c]
  <2>1. SparseAssisted(cands, tags) = {g[c] : c \in cands}
    BY DEF SparseAssisted
  <2>2. \A c \in cands : IsCand(g[c]) /\ g[c].cap = c.cap /\ g[c].score \in Int
    BY <1>1
  <2> HIDE DEF g
  <2> QED BY SMT, <2>1, <2>2, CandsMapped
<1>3. CandsFormed(SSMAssisted(cands, seqLen), caps, tags)
  <2> DEFINE g == [c \in cands |-> IF SSMRaises(c, seqLen)
                     THEN Raise(c, ssmThroughputDelta(c.cap, seqLen)) ELSE c]
  <2>1. SSMAssisted(cands, seqLen) = {g[c] : c \in cands}
    BY DEF SSMAssisted
  <2>2. \A c \in cands : IsCand(g[c]) /\ g[c].cap = c.cap /\ g[c].score \in Int
    BY <1>1
  <2> HIDE DEF g
  <2> QED BY SMT, <2>1, <2>2, CandsMapped
<1> QED BY <1>2, <1>3

\* So does the plugin.
LEMMA CandsAdjusted ==
  ASSUME NEW cands, NEW caps, CapsFormed(caps), NEW tags, CandsFormed(cands, caps, tags),
         NEW answers, \A p \in Provider : answers[p] \in Int
  PROVE  CandsFormed(applyScoreAdjustments(cands, answers), caps, tags)
<1> DEFINE g == [c \in cands |-> [c EXCEPT !.score = clamp01(answers[c.cap.id]),
                                           !.confidence = clamp01(answers[c.cap.id])]]
<1>1. applyScoreAdjustments(cands, answers) = {g[c] : c \in cands}
  BY DEF applyScoreAdjustments
<1>2. ASSUME NEW c \in cands
      PROVE  IsCand(g[c]) /\ g[c].cap = c.cap /\ g[c].score \in Int
  <2>1. c.cap.id \in Provider /\ IsCand(c)
    BY DEF CandsFormed, CapsFormed, IsCapability
  <2>2. PICK score : score = clamp01(answers[c.cap.id])
    OBVIOUS
  <2>3. score \in Int
    BY SMT, <2>1, <2>2 DEF clamp01, Clamp, One
  <2>4. g[c] = [c EXCEPT !.score = score, !.confidence = score]
    BY <2>2
  <2> HIDE DEF g
  <2> QED BY <2>1, <2>3, <2>4 DEF IsCand, CandFields
<1> HIDE DEF g
<1> QED BY SMT, <1>1, <1>2, CandsMapped

\* What sort.Slice compares, and how.
RankKey(c) ==
  <<c.score, healthRank(c.cap.health), reliabilityRank(c.cap.reliability), Place(c.cap.id)>>

Outranks(x, y) ==
  \/ x[1] > y[1]
  \/ x[1] = y[1] /\ x[2] > y[2]
  \/ x[1] = y[1] /\ x[2] = y[2] /\ x[3] > y[3]
  \/ x[1] = y[1] /\ x[2] = y[2] /\ x[3] = y[3] /\ x[4] < y[4]

\* Outranks is a strict total order of keys.
LEMMA OutranksOrder ==
  ASSUME NEW x \in Int \X Int \X Int \X Int, NEW y \in Int \X Int \X Int \X Int,
         NEW z \in Int \X Int \X Int \X Int
  PROVE  /\ ~Outranks(x, x)
         /\ Outranks(x, y) /\ Outranks(y, z) => Outranks(x, z)
         /\ Outranks(x, y) \/ Outranks(y, x)
              \/ (x[1] = y[1] /\ x[2] = y[2] /\ x[3] = y[3] /\ x[4] = y[4])
BY SMT DEF Outranks

\* A candidate with a whole score, of a provider.
Rankable(c) == c.score \in Int /\ c.cap.id \in Provider /\ c.cap.queue \in Int

\* The fields of the key of a candidate.
LEMMA KeyFormed ==
  ASSUME NEW c, Rankable(c)
  PROVE  /\ RankKey(c) \in Int \X Int \X Int \X Int
         /\ RankKey(c)[1] = c.score /\ RankKey(c)[2] = healthRank(c.cap.health)
         /\ RankKey(c)[3] = reliabilityRank(c.cap.reliability)
         /\ RankKey(c)[4] = Place(c.cap.id)
<1>1. /\ healthRank(c.cap.health) \in Int /\ reliabilityRank(c.cap.reliability) \in Int
  BY ClassScores DEF Rankable
<1>2. Place(c.cap.id) \in Int
  BY SMT, PlaceOf, IdsAssumption DEF Rankable
<1>3. c.score \in Int
  BY DEF Rankable
<1> QED BY SMT, <1>1, <1>2, <1>3 DEF RankKey

\* Better compares the keys of two candidates.
LEMMA BetterByKey ==
  ASSUME NEW a, NEW b, Rankable(a), Rankable(b)
  PROVE  Better(a, b) <=> Outranks(RankKey(a), RankKey(b))
<1>1. PICK x, y : x = RankKey(a) /\ y = RankKey(b)
  OBVIOUS
<1>2. x \in Int \X Int \X Int \X Int /\ y \in Int \X Int \X Int \X Int
  BY <1>1, KeyFormed
<1>3. PICK k, m : k = <<x[1], x[2], x[3]>> /\ m = <<y[1], y[2], y[3]>>
  OBVIOUS
<1>4. Better(a, b) <=>
        \/ \E i \in 1..3 : k[i] > m[i] /\ \A j \in 1..(i - 1) : k[j] = m[j]
        \/ k = m /\ IdBefore(a.cap.id, b.cap.id)
  <2>1. k = <<a.score, healthRank(a.cap.health), reliabilityRank(a.cap.reliability)>>
    BY <1>1, <1>3, KeyFormed
  <2>2. m = <<b.score, healthRank(b.cap.health), reliabilityRank(b.cap.reliability)>>
    BY <1>1, <1>3, KeyFormed
  <2> QED BY <2>1, <2>2 DEF Better
<1>5. (k = m /\ IdBefore(a.cap.id, b.cap.id)) <=>
        x[1] = y[1] /\ x[2] = y[2] /\ x[3] = y[3] /\ x[4] < y[4]
  <2>1. IdBefore(a.cap.id, b.cap.id) <=> x[4] < y[4]
    BY <1>1, KeyFormed, BeforeByPlace DEF Rankable
  <2>2. k = m <=> x[1] = y[1] /\ x[2] = y[2] /\ x[3] = y[3]
    BY SMT, <1>3
  <2> QED BY <2>1, <2>2
<1>6. (\E i \in 1..3 : k[i] > m[i] /\ \A j \in 1..(i - 1) : k[j] = m[j]) <=>
        \/ x[1] > y[1]
        \/ x[1] = y[1] /\ x[2] > y[2]
        \/ x[1] = y[1] /\ x[2] = y[2] /\ x[3] > y[3]
  <2>1. /\ k[1] = x[1] /\ k[2] = x[2] /\ k[3] = x[3]
        /\ m[1] = y[1] /\ m[2] = y[2] /\ m[3] = y[3]
    BY SMT, <1>3
  <2> QED BY SMT, <1>2, <2>1
<1> QED BY <1>1, <1>4, <1>5, <1>6 DEF Outranks

\* The ranking is made of the candidates, each of which has a place in it.
LEMMA RankedCandidates ==
  ASSUME NEW cands, NEW caps, CapsFormed(caps), NEW tags, CandsFormed(cands, caps, tags)
  PROVE  /\ IsFiniteSet(cands)
         /\ DOMAIN Ranked(cands) = 1..Cardinality(cands)
         /\ \A n \in 1..Cardinality(cands) : Ranked(cands)[n] \in cands
<1>1. \A c \in cands : Rankable(c)
  BY DEF CandsFormed, CapsFormed, IsCapability, Rankable
<1>2. ASSUME NEW c \in cands, NEW d \in cands, Place(c.cap.id) = Place(d.cap.id)
      PROVE  c = d
  <2>1. c.cap.id = d.cap.id
    BY <1>1, <1>2, PlaceOf DEF Rankable
  <2> QED BY <2>1 DEF CandsFormed, CapsFormed
<1>3. IsFiniteSet(cands)
  <2> DEFINE f == [c \in cands |-> Place(c.cap.id)]
  <2>1. f \in [cands -> 1..Len(IdOrder)]
    BY <1>1, PlaceOf DEF Rankable
  <2>2. \A c, d \in cands : f[c] = f[d] => c = d
    BY <1>2
  <2>3. IsFiniteSet(1..Len(IdOrder))
    BY SMT, FS_Interval, IdsAssumption
  <2>4. f \in Injection(cands, 1..Len(IdOrder))
    BY <2>1, <2>2 DEF Injection, IsInjective
  <2> QED BY <2>3, <2>4, FS_Injection
<1> DEFINE below == [c \in cands |-> {d \in cands : Better(d, c)}]
<1>4. ASSUME NEW c \in cands, NEW d \in cands
      PROVE  Better(c, d) <=> Outranks(RankKey(c), RankKey(d))
  BY <1>1, BetterByKey
<1>5. \A c \in cands : RankKey(c) \in Int \X Int \X Int \X Int
  BY <1>1, KeyFormed
<1>6. \A c \in cands : ~Better(c, c)
  BY <1>4, <1>5, OutranksOrder
<1>7. ASSUME NEW c \in cands, NEW d \in cands, c # d
      PROVE  Better(c, d) \/ Better(d, c)
  <2>1. RankKey(c)[4] # RankKey(d)[4]
    <3>1. RankKey(c)[4] = Place(c.cap.id) /\ RankKey(d)[4] = Place(d.cap.id)
      BY SMT, <1>1, KeyFormed
    <3>2. Place(c.cap.id) # Place(d.cap.id)
      BY <1>2, <1>7
    <3> QED BY <3>1, <3>2
  <2>2. Outranks(RankKey(c), RankKey(d)) \/ Outranks(RankKey(d), RankKey(c))
    BY SMT, <1>5, <2>1, OutranksOrder
  <2> QED BY <1>4, <2>2
<1>8. ASSUME NEW c \in cands, NEW d \in cands, NEW e \in cands, Better(e, d), Better(d, c)
      PROVE  Better(e, c)
  BY <1>4, <1>5, <1>8, OutranksOrder
<1>9. /\ below \in [cands -> SUBSET cands]
      /\ \A c \in cands : c \notin below[c]
      /\ \A c, d \in cands : c # d => c \in below[d] \/ d \in below[c]
      /\ \A c, d \in cands : d \in below[c] => below[d] \subseteq below[c]
  BY <1>6, <1>7, <1>8
<1>10. ASSUME NEW n \in 1..Cardinality(cands)
       PROVE  Ranked(cands)[n] \in cands
  <2>1. \E c \in cands : Cardinality(below[c]) = n - 1
    <3> HIDE DEF below
    <3> QED BY <1>3, <1>9, PlacesTaken
  <2>2. \E c \in cands : Cardinality({d \in cands : Better(d, c)}) = n - 1
    BY <2>1
  <2> QED BY <2>2 DEF Ranked
<1> QED BY <1>3, <1>10 DEF Ranked

-----------------------------------------------------------------------------
(***************************************************************************)
(* The providers of a decision.                                            *)
(***************************************************************************)
LEMMA LeastNumber ==
  ASSUME NEW T, T \subseteq Nat, T # {}
  PROVE  \E x \in T : \A y \in T : x <= y
<1>1. IsWellFoundedOn(OpToRel(<, Nat), Nat)
  BY NatLessThanWellFounded
<1>2. PICK x \in T : \A y \in T : ~(<<y, x>> \in OpToRel(<, Nat))
  BY <1>1, WFMin
<1>3. \A y \in T : ~(y < x)
  BY <1>2 DEF OpToRel
<1> QED BY SMT, <1>3

\* Leaving a provider out of a chain keeps the rest in the set it came from.
LEMMA WithoutSeq ==
  ASSUME NEW U, NEW chain \in Seq(U), NEW p
  PROVE  Without(chain, p) \in Seq(U)
<1>1. CASE ~\E i \in DOMAIN chain : chain[i] = p
  BY <1>1 DEF Without
<1>2. CASE \E i \in DOMAIN chain : chain[i] = p
  <2>1. PICK i : i = CHOOSE j \in DOMAIN chain : chain[j] = p
    OBVIOUS
  <2>2. i \in DOMAIN chain
    BY <1>2, <2>1
  <2>3. Without(chain, p) = SubSeq(chain, 1, i - 1) \o SubSeq(chain, i + 1, Len(chain))
    BY <1>2, <2>1 DEF Without
  <2>4. i \in 1..Len(chain) /\ Len(chain) \in Nat
    BY SMT, <2>2
  <2>5. SubSeq(chain, 1, i - 1) \in Seq(U) /\ SubSeq(chain, i + 1, Len(chain)) \in Seq(U)
    BY SMT, <2>4
  <2> QED BY SMT, <2>3, <2>5
<1> QED BY <1>1, <1>2

\* The providers that a chain names.
Names(chain) == {chain[i] : i \in DOMAIN chain}

\* A fallback chain names ranked providers and the baseline, and what was selected.
LEMMA FallbackChainSeq ==
  ASSUME NEW U, Baseline \in U, NEW ids \in Seq(U), NEW selected,
         selected = Baseline \/ (ids # <<>> /\ selected = ids[1])
  PROVE  /\ FallbackChain(ids, selected) \in Seq(U)
         /\ {Baseline, selected} \subseteq Names(FallbackChain(ids, selected))
<1>1. PICK rest, chain : rest = Without(ids, Baseline) /\ chain = FallbackChain(ids, selected)
  OBVIOUS
<1>2. rest \in Seq(U)
  BY <1>1, WithoutSeq
<1>3. CASE selected = Baseline
  <2>1. chain = <<Baseline>> \o rest
    BY <1>1, <1>3 DEF FallbackChain
  <2>2. chain \in Seq(U) /\ 1 \in DOMAIN chain /\ chain[1] = Baseline
    BY SMT, <1>2, <2>1
  <2> QED BY <1>1, <1>3, <2>2 DEF Names
<1>4. CASE selected # Baseline
  <2>1. 1 \in DOMAIN ids /\ ids[1] = selected
    BY SMT, <1>4
  <2>2. CASE \E i \in DOMAIN ids : ids[i] = Baseline
    <3>1. chain = ids
      BY <1>1, <1>4, <2>2 DEF FallbackChain
    <3> QED BY <1>1, <2>1, <2>2, <3>1 DEF Names
  <2>3. CASE ~\E i \in DOMAIN ids : ids[i] = Baseline
    <3>1. chain = Append(ids, Baseline)
      BY <1>1, <1>4, <2>3 DEF FallbackChain
    <3>2. /\ chain \in Seq(U) /\ 1 \in DOMAIN chain /\ chain[1] = selected
          /\ Len(chain) \in DOMAIN chain /\ chain[Len(chain)] = Baseline
      BY SMT, <2>1, <3>1
    <3> QED BY <1>1, <3>2 DEF Names
  <2> QED BY <2>2, <2>3
<1> QED BY <1>3, <1>4

\* A hop goes to a provider of the chain or to the baseline.
LEMMA HopInChain ==
  ASSUME NEW U, Baseline \in U, NEW d, IsDecision(d), d.chain \in Seq(U), NEW failed, NEW class
  PROVE  FallbackOnFailure(d, failed, class).selected \in U
<1> DEFINE at == {i \in 1..(Len(d.chain) - 1) : d.chain[i] = failed}
           least == CHOOSE i \in at : \A j \in at : i <= j
           to == IF at = {} THEN Baseline ELSE d.chain[least + 1]
           reason == normalizeFailureClass(class)
<1>1. to \in U
  <2>1. CASE at = {}
    <3>1. to = Baseline
      BY <2>1
    <3> HIDE DEF to
    <3> QED BY <3>1
  <2>2. CASE at # {}
    <3>1. at \subseteq Nat
      BY SMT
    <3>2. \E i \in at : \A j \in at : i <= j
      <4> HIDE DEF at
      <4> QED BY <2>2, <3>1, LeastNumber
    <3>3. least \in at
      BY <3>2
    <3>4. least \in 1..(Len(d.chain) - 1)
      BY <3>3
    <3>5. to = d.chain[least + 1]
      BY <2>2
    <3> HIDE DEF least, at, to
    <3>6. d.chain[least + 1] \in U
      BY SMT, <3>4
    <3> QED BY <3>5, <3>6
  <2> QED BY <2>1, <2>2
<1>2. FallbackOnFailure(d, failed, class) = [d EXCEPT !.selected = to, !.reason = reason]
  BY DEF FallbackOnFailure
<1> HIDE DEF to, reason
<1>3. FallbackOnFailure(d, failed, class).selected = to
  BY <1>2 DEF IsDecision, DecisionFields
<1> QED BY <1>1, <1>3

\* Every selection ranks candidates of its own snapshot, and some if any
\* scored.
LEMMA CandidatesFormed ==
  ASSUME NEW snap, CapsFormed(snap.caps), NEW input, IsFiniteSet(input.tags), input.seqLen \in Int,
         NEW assist, NEW plugin \in Plugins
  PROVE  /\ CandsFormed(Candidates(snap, input, assist, plugin), snap.caps, input.tags)
         /\ scoreCandidates(snap.caps, input.tags) # {} =>
              Candidates(snap, input, assist, plugin) # {}
<1>1. PICK caps, tags, seqLen : caps = snap.caps /\ tags = input.tags /\ seqLen = input.seqLen
  OBVIOUS
<1>2. CapsFormed(caps) /\ IsFiniteSet(tags) /\ seqLen \in Int
  BY <1>1
<1>3. PICK scored : scored = scoreCandidates(caps, tags)
  OBVIOUS
<1>4. CandsFormed(scored, caps, tags)
  BY <1>2, <1>3, CandsScored
<1>5. PICK sparse : sparse = Assisted(snap, input, assist)
  OBVIOUS
<1>6. sparse = scored \/ sparse = SparseAssisted(scored, tags)
  BY <1>1, <1>3, <1>5 DEF Assisted
<1>7. CandsFormed(sparse, caps, tags) /\ (scored # {} => sparse # {})
  <2>1. scored # {} => SparseAssisted(scored, tags) # {}
    BY DEF SparseAssisted
  <2> QED BY <1>2, <1>4, <1>6, <2>1, CandsAssisted
<1>8. PICK ssm : ssm = IF SSMSignalOf(input) = "valid" THEN SSMAssisted(sparse, seqLen) ELSE sparse
  OBVIOUS
<1>9. CandsFormed(ssm, caps, tags) /\ (scored # {} => ssm # {})
  <2>1. sparse # {} => SSMAssisted(sparse, seqLen) # {}
    BY DEF SSMAssisted
  <2> QED BY <1>2, <1>7, <1>8, <2>1, CandsAssisted
<1>10. PICK out : out = Candidates(snap, input, assist, plugin)
  OBVIOUS
<1>11. out = IF plugin.kind = "scores" THEN applyScoreAdjustments(ssm, plugin.answers) ELSE ssm
  BY <1>1, <1>5, <1>8, <1>10 DEF Candidates
<1>12. CandsFormed(out, caps, tags) /\ (scored # {} => out # {})
  <2>1. ssm # {} => applyScoreAdjustments(ssm, plugin.answers) # {}
    BY DEF applyScoreAdjustments
  <2>2. plugin.kind = "scores" => \A p \in Provider : plugin.answers[p] \in Int
    BY PluginsAssumption
  <2>3. plugin.kind = "scores" => CandsFormed(applyScoreAdjustments(ssm, plugin.answers), caps, tags)
    BY <1>2, <1>9, <2>2, CandsAdjusted
  <2> QED BY <1>9, <1>11, <2>1, <2>3
<1> QED BY <1>1, <1>3, <1>10, <1>12

\* Select names eligible providers, and the baseline.
LEMMA DecideIn ==
  ASSUME NEW snap, CapsFormed(snap.caps), NEW input, IsFiniteSet(input.tags), input.seqLen \in Int,
         scoreCandidates(snap.caps, input.tags) # {},
         NEW assist, NEW disabled, NEW plugin \in Plugins,
         NEW U, Baseline \in U,
         \A cap \in snap.caps : isPolicyEligible(cap, input.tags) => cap.id \in U
  PROVE  LET d == Selects(snap, input, assist, disabled, plugin)
         IN /\ d.selected \in U /\ d.chain \in Seq(U)
            /\ {Baseline, d.selected} \subseteq Names(d.chain)
<1> DEFINE cands == Candidates(snap, input, assist, plugin)
           ranked == Ranked(cands)
           low == ranked[1].confidence < Policy.minConfidence
           ids == [i \in DOMAIN ranked |-> ranked[i].cap.id]
           selected == IF low THEN Baseline ELSE ids[1]
           chain == FallbackChain(ids, selected)
           d == Selects(snap, input, assist, disabled, plugin)
<1>1. \/ \E e, reason : d = baselineDecision(e, reason)
      \/ \E e, reason : d = Decision(e, selected, chain, reason)
  <2>1. CASE SSMSignalOf(input) \in {"invalid", "out"}
    BY <2>1 DEF Selects, Decide
  <2>2. CASE SSMSignalOf(input) \notin {"invalid", "out"}
    BY <2>2 DEF Selects, Decide
  <2> QED BY <2>1, <2>2
<1>2. CandsFormed(cands, snap.caps, input.tags) /\ cands # {}
  BY CandidatesFormed
<1> HIDE DEF cands
<1>3. PICK caps, tags : caps = snap.caps /\ tags = input.tags
  OBVIOUS
<1>4. /\ IsFiniteSet(cands) /\ DOMAIN ranked = 1..Cardinality(cands)
      /\ \A n \in 1..Cardinality(cands) : ranked[n] \in cands
  BY <1>2, <1>3, RankedCandidates
<1> HIDE DEF ranked
<1>5. PICK size \in Nat : size = Cardinality(cands) /\ size # 0
  BY SMT, <1>2, <1>4, FS_CardinalityType, FS_EmptySet
<1>6. \A i \in 1..size : ranked[i].cap.id \in U
  BY <1>2, <1>4, <1>5 DEF CandsFormed
<1>7. ids \in [1..size -> U]
  BY <1>4, <1>5, <1>6
<1> HIDE DEF ids, low
<1>8. ids \in Seq(U) /\ ids[1] \in U
  BY SMT, <1>5, <1>7
<1>9. selected \in U /\ (selected = Baseline \/ (ids # <<>> /\ selected = ids[1]))
  <2>1. ids # <<>>
    BY SMT, <1>5, <1>7
  <2> QED BY <1>8, <2>1
<1> HIDE DEF selected
<1>10. chain \in Seq(U) /\ {Baseline, selected} \subseteq Names(chain)
  BY <1>8, <1>9, FallbackChainSeq
<1> HIDE DEF chain, d
<1>11. \/ d.selected = Baseline /\ d.chain = <<Baseline>>
       \/ d.selected = selected /\ d.chain = chain
  BY SMT, <1>1, BaselineFormed, DecisionFormed
<1>12. <<Baseline>> \in Seq(U) /\ Baseline \in Names(<<Baseline>>)
  BY SMT DEF Names
<1>13. /\ d.selected \in U /\ d.chain \in Seq(U)
       /\ {Baseline, d.selected} \subseteq Names(d.chain)
  BY <1>9, <1>10, <1>11, <1>12
<1> QED BY <1>13 DEF d

\* An escalation puts a dense provider of the snapshot in front of the chain, or leaves it.
LEMMA EscalationIn ==
  ASSUME NEW caps, CapsFormed(caps), NEW U, NEW d, IsDecision(d), d.selected \in U, d.chain \in Seq(U),
         \A cap \in FirstDenseGPUProvider(caps) : cap.id \in U
  PROVE  LET e == SelectDenseGPUEscalation(d, caps)
         IN e.selected \in U /\ e.chain \in Seq(U)
<1> DEFINE dense == {cap.id : cap \in FirstDenseGPUProvider(caps)}
           first == CHOOSE p \in dense : \A q \in dense \ {p} : IdBefore(p, q)
           e == SelectDenseGPUEscalation(d, caps)
<1>1. dense \subseteq U /\ dense \subseteq Provider
  BY DEF FirstDenseGPUProvider, CapsFormed, IsCapability
<1>2. ASSUME dense # {}
      PROVE  first \in U
  <2>1. PICK T : T = {Place(p) : p \in dense}
    OBVIOUS
  <2> HIDE DEF dense
  <2>2. \A p \in dense : Place(p) \in Nat
    BY SMT, <1>1, PlaceOf, IdsAssumption
  <2>3. T # {} /\ T \subseteq Nat
    BY <1>2, <2>1, <2>2
  <2>4. PICK x \in T : \A y \in T : x <= y
    BY <2>3, LeastNumber
  <2>5. PICK p \in dense : x = Place(p)
    BY <2>1
  <2>6. ASSUME NEW q \in dense \ {p}
        PROVE  IdBefore(p, q)
    <3>1. Place(p) <= Place(q)
      BY <2>1, <2>4, <2>5
    <3>2. IdOrder[Place(p)] = p /\ IdOrder[Place(q)] = q
      BY <1>1, PlaceOf
    <3>3. Place(p) # Place(q)
      BY <3>2
    <3>4. Place(p) < Place(q)
      BY SMT, <3>1, <3>3, <2>2
    <3> QED BY <1>1, <3>4, BeforeByPlace
  <2>7. first \in dense
    BY <2>6
  <2> HIDE DEF first
  <2> QED BY <2>7, <1>1
<1>3. \/ e.selected = d.selected /\ e.chain = d.chain
      \/ dense # {} /\ e.selected = first /\ e.chain = <<first>> \o Without(d.chain, first)
  BY EscalationFormed
<1> HIDE DEF e, first, dense
<1>4. CASE e.selected = d.selected /\ e.chain = d.chain
  BY <1>4 DEF e
<1>5. CASE dense # {} /\ e.selected = first /\ e.chain = <<first>> \o Without(d.chain, first)
  <2>1. Without(d.chain, first) \in Seq(U)
    BY WithoutSeq
  <2>2. e.selected \in U /\ e.chain \in Seq(U)
    BY SMT, <1>2, <1>5, <2>1
  <2> QED BY <2>2 DEF e
<1> QED BY <1>3, <1>4, <1>5

-----------------------------------------------------------------------------
(***************************************************************************)
(* Jobs and the providers they run on.                                     *)
(***************************************************************************)
Providers(u) == {p \in Provider : Usable(u.req, u.snap.caps, p)}

\* The baseline is usable for every call.
LEMMA BaselineUsable ==
  ASSUME NEW u
  PROVE  Baseline \in Providers(u)
BY IdsAssumption DEF Providers, Usable

\* The input of every call has a tag.
LEMMA InputTags ==
  ASSUME NEW c \in Caller, NEW r \in Calls[c]
  PROVE  Input(r).tags # {}
<1>1. r.tool \in Tool
  BY CallsAssumption
<1>2. CASE r.tool = "batch"
  <2>1. "default" \in deriveBatchWorkloadTags(r.specs)
    BY DEF deriveBatchWorkloadTags
  <2>2. Input(r).tags = deriveBatchWorkloadTags(r.specs)
    BY SMT, <1>2 DEF Input
  <2> QED BY <2>1, <2>2
<1>3. CASE r.tool = "hw"
  <2>1. PICK tags, seqLen : ProfileTask(r) = [tags |-> tags, seqLen |-> seqLen] /\ tags # {}
    BY DEF ProfileTask
  <2>2. Input(r) = [ProfileTask(r) EXCEPT !.tags = ProfileTask(r).tags \cup r.tags]
    BY <1>3 DEF Input, mergeWorkloadTags
  <2>3. Input(r).tags = tags \cup r.tags
    BY SMT, <2>1, <2>2
  <2> QED BY <2>1, <2>3
<1>4. CASE r.tool = "sparse"
  BY SMT, <1>4 DEF Input, EscalationTags
<1> QED BY <1>1, <1>2, <1>3, <1>4 DEF Tool

\* Whatever Select may choose for a call is usable for it.
LEMMA EligibleUsable ==
  ASSUME NEW c \in Caller, NEW u, u.req \in Calls[c], CapsFormed(u.snap.caps), NEW cap \in u.snap.caps
  PROVE  /\ isPolicyEligible(cap, Input(u.req).tags) => cap.id \in Providers(u)
         /\ u.req.tool = "sparse" /\ cap \in FirstDenseGPUProvider(u.snap.caps) => cap.id \in Providers(u)
<1>1. cap.id \in Provider
  BY DEF CapsFormed, IsCapability
<1>2. ASSUME cap.health # "unavailable", cap.tags \cap Wanted(u.req) # {}
      PROVE  cap.id \in Providers(u)
  BY <1>1, <1>2 DEF Providers, Usable
<1>3. ASSUME isPolicyEligible(cap, Input(u.req).tags)
      PROVE  cap.id \in Providers(u)
  <2>1. CASE cap.id = Baseline
    BY <2>1, BaselineUsable
  <2>2. CASE cap.id # Baseline
    <3>1. cap.health # "unavailable" /\ Input(u.req).tags \cap cap.tags # {}
      BY <1>3, <2>2, InputTags DEF isPolicyEligible
    <3>2. Input(u.req).tags \subseteq Wanted(u.req)
      <4>1. u.req.tool = "sparse" => Input(u.req).tags = EscalationTags
        BY DEF Input
      <4> QED BY <4>1 DEF Wanted, DenseTags
    <3> QED BY <3>1, <3>2, <1>2
  <2> QED BY <2>1, <2>2
<1>4. ASSUME u.req.tool = "sparse", cap \in FirstDenseGPUProvider(u.snap.caps)
      PROVE  cap.id \in Providers(u)
  <2>1. cap.health = "healthy" /\ cap.tags \cap DenseTags # {}
    BY <1>4 DEF FirstDenseGPUProvider, providerSupportsDenseInference
  <2> QED BY <1>2, <1>4, <2>1 DEF Wanted
<1> QED BY <1>3, <1>4

\* The records of a snapshot: one of each provider.
LEMMA SnapshotFormed ==
  ASSUME RegistryFormed
  PROVE  CapsFormed(Snapshot.caps)
<1>1. PICK caps : caps = {applyStaleness(items[p], age[p]) : p \in DOMAIN items}
  OBVIOUS
<1>2. Snapshot.caps = caps
  BY <1>1 DEF Snapshot
<1>3. ASSUME NEW p \in DOMAIN items
      PROVE  LET a == applyStaleness(items[p], age[p]) IN IsCapability(a) /\ a.id = p
  <2>1. PICK cap, a : cap = items[p] /\ a = applyStaleness(cap, age[p])
    OBVIOUS
  <2>2. IsCapability(cap) /\ cap.id = p
    BY <2>1 DEF RegistryFormed
  <2>3. a = cap \/ a = [cap EXCEPT !.health = "degraded"]
    BY <2>1 DEF applyStaleness
  <2>4. DOMAIN a = DOMAIN cap
    BY <2>3
  <2>5. \A f \in {"id", "queue"} : f \in DOMAIN cap /\ f # "health" => a[f] = cap[f]
    BY <2>3
  <2>6. a.id = cap.id /\ a.queue = cap.queue
    BY <2>2, <2>5 DEF IsCapability
  <2>7. IsCapability(a) /\ a.id = p
    BY <2>2, <2>4, <2>6 DEF IsCapability
  <2> QED BY <2>1, <2>7
<1>4. \A a \in caps : \E p \in DOMAIN items :
        a = applyStaleness(items[p], age[p]) /\ IsCapability(a) /\ a.id = p
  BY <1>1, <1>3
<1>5. ASSUME NEW a \in caps, NEW b \in caps, a.id = b.id
      PROVE  a = b
  <2>1. PICK p \in DOMAIN items : a = applyStaleness(items[p], age[p]) /\ a.id = p
    BY <1>4
  <2>2. PICK q \in DOMAIN items : b = applyStaleness(items[q], age[q]) /\ b.id = q
    BY <1>4
  <2> QED BY <1>5, <2>1, <2>2
<1>6. CapsFormed(caps)
  BY <1>4, <1>5 DEF CapsFormed
<1> QED BY <1>2, <1>6

\* Before its decision a call has the baseline's chain and no jobs; from there on
\* the chain, the provider of the moment and the jobs stay within the usable
\* providers of the snapshot.  A call that goes on past the guard has a candidate.
JobOK(c, u) ==
  /\ CapsFormed(u.snap.caps)
  /\ u.pc # "idle" => u.req \in Calls[c]
  /\ u.pc \in {"idle", "snapshot"} =>
       u.decision.chain = <<Baseline>> /\ u.last = Baseline /\ u.accepted = <<>>
  /\ u.pc \in {"assist", "reason"} => scoreCandidates(u.snap.caps, Input(u.req).tags) # {}
  /\ u.decision.chain \in Seq(Providers(u))
  /\ u.last \in Providers(u)
  /\ u.accepted \in Seq(Providers(u))

JobInv ==
  /\ CallsFormed /\ RegistryFormed
  /\ \A c \in Caller : JobOK(c, call[c])

\* Calls that asked and saw the same have the same usable providers.
LEMMA AskedAlike ==
  ASSUME NEW u, NEW v, Asked(u) = Asked(v)
  PROVE  u.req = v.req /\ u.snap = v.snap /\ u.late = v.late /\ Providers(u) = Providers(v)
<1>1. u.req = v.req /\ u.snap = v.snap /\ u.late = v.late
  BY SMT DEF Asked
<1> QED BY <1>1 DEF Providers

\* A call that has only the baseline is well routed, whatever it has seen.
LEMMA BaselineOK ==
  ASSUME NEW u, u.decision.chain = <<Baseline>>, u.last = Baseline, u.accepted = <<>>
  PROVE  /\ u.decision.chain \in Seq(Providers(u)) /\ u.last \in Providers(u)
         /\ u.accepted \in Seq(Providers(u))
<1>1. PICK U : U = Providers(u)
  OBVIOUS
<1>2. Baseline \in U
  BY <1>1, BaselineUsable
<1>3. <<Baseline>> \in Seq(U) /\ <<>> \in Seq(U)
  BY SMT, <1>2
<1> QED BY <1>1, <1>2, <1>3

\* The fields of Routed.
LEMMA RoutedAlike ==
  ASSUME NEW u, NEW v, Routed(u) = Routed(v)
  PROVE  /\ u.decision = v.decision /\ u.last = v.last /\ u.accepted = v.accepted
         /\ u.item = v.item /\ u.refused = v.refused
BY SMT DEF Routed

\* A call that only moves on stays within its usable providers.
LEMMA MoveOK ==
  ASSUME NEW c \in Caller, NEW u, NEW v, JobOK(c, u), u.pc # "idle", Asked(v) = Asked(u), Routed(v) = Routed(u),
         v.pc \notin {"idle", "snapshot"},
         v.pc \in {"assist", "reason"} => scoreCandidates(u.snap.caps, Input(u.req).tags) # {}
  PROVE  JobOK(c, v)
<1>1. v.req = u.req /\ v.snap = u.snap /\ Providers(v) = Providers(u)
  BY AskedAlike
<1>2. v.decision = u.decision /\ v.last = u.last /\ v.accepted = u.accepted
  BY RoutedAlike
<1> QED BY <1>1, <1>2 DEF JobOK

\* A call takes a decision whose providers are usable.
LEMMA TakeOK ==
  ASSUME NEW c \in Caller, JobOK(c, call[c]), call[c].pc # "idle", NEW d, Takes(c, d),
         call'[c].pc \in {"enqueue", "retry"},
         d.selected \in Providers(call[c]), d.chain \in Seq(Providers(call[c]))
  PROVE  JobOK(c, call'[c])
<1>1. /\ call'[c].req = call[c].req /\ call'[c].snap = call[c].snap
      /\ Providers(call'[c]) = Providers(call[c])
  BY AskedAlike DEF Takes
<1>2. /\ call'[c].decision = d /\ call'[c].last = d.selected
      /\ call'[c].accepted = call[c].accepted
  BY DEF Takes
<1> QED BY <1>1, <1>2 DEF JobOK

\* What the tool makes of a decision keeps it within the usable providers.
LEMMA ForToolIn ==
  ASSUME NEW c \in Caller, NEW u, u.req \in Calls[c], CapsFormed(u.snap.caps), NEW d, IsDecision(d),
         d.selected \in Providers(u), d.chain \in Seq(Providers(u))
  PROVE  LET e == ForTool(u.req, d, u.snap.caps)
         IN e.selected \in Providers(u) /\ e.chain \in Seq(Providers(u))
<1>1. CASE u.req.tool = "sparse"
  <2>1. PICK caps : caps = u.snap.caps
    OBVIOUS
  <2>2. \A cap \in FirstDenseGPUProvider(caps) : cap.id \in Providers(u)
    BY <1>1, <2>1, EligibleUsable DEF FirstDenseGPUProvider
  <2>3. PICK U : U = Providers(u)
    OBVIOUS
  <2>4. PICK e : e = SelectDenseGPUEscalation(d, caps)
    OBVIOUS
  <2>5. e.selected \in U /\ e.chain \in Seq(U)
    BY SMT, <2>1, <2>2, <2>3, <2>4, EscalationIn
  <2>6. e = ForTool(u.req, d, u.snap.caps)
    BY <1>1, <2>1, <2>4 DEF ForTool
  <2> QED BY <2>3, <2>5, <2>6
<1>2. CASE u.req.tool # "sparse"
  BY <1>2 DEF ForTool
<1> QED BY <1>1, <1>2

\* Every step keeps each call within its usable providers.
LEMMA JobStep ==
  ASSUME JobInv, [Next]_vars
  PROVE  JobInv'
<1>1. CallsFormed /\ RegistryFormed /\ CallsFormed' /\ RegistryFormed'
  BY SnapCases, RegistryStep DEF JobInv
<1>2. \A c \in Caller : JobOK(c, call[c])
  BY DEF JobInv
<1>3. ASSUME NEW c \in Caller, OnlyCall(c), JobOK(c, call'[c])
      PROVE  \A d \in Caller : JobOK(d, call'[d])
  BY <1>2, <1>3 DEF OnlyCall
<1>4. CASE UNCHANGED call
  BY <1>1, <1>2, <1>4 DEF JobInv
<1>5. ASSUME NEW c \in Caller, CallAction(c)
      PROVE  OnlyCall(c) /\ JobOK(c, call'[c])
  <2>1. JobOK(c, call[c])
    BY <1>2
  <2>2. CASE Begin(c)
    <3>1. /\ OnlyCall(c) /\ call[c].pc = "idle"
          /\ call'[c].pc \in {"done", "create", "guard", "snapshot"}
          /\ call'[c].req \in Calls[c] /\ call'[c].snap = call[c].snap
          /\ Routed(call'[c]) = Routed(call[c])
      BY <1>1, <2>2, BeginEffect
    <3>2. /\ call'[c].decision = call[c].decision /\ call'[c].last = call[c].last
          /\ call'[c].accepted = call[c].accepted
      BY <3>1, RoutedAlike
    <3>3. /\ call'[c].decision.chain = <<Baseline>> /\ call'[c].last = Baseline
          /\ call'[c].accepted = <<>>
      BY <2>1, <3>1, <3>2 DEF JobOK
    <3>4. /\ call'[c].decision.chain \in Seq(Providers(call'[c]))
          /\ call'[c].last \in Providers(call'[c])
          /\ call'[c].accepted \in Seq(Providers(call'[c]))
      BY <3>3, BaselineOK
    <3> QED BY <2>1, <3>1, <3>3, <3>4 DEF JobOK
  <2>3. CASE TakeSnapshot(c)
    <3>1. /\ OnlyCall(c) /\ call[c].pc = "snapshot" /\ call'[c].pc = "guard"
          /\ call'[c].req = call[c].req /\ call'[c].snap = Snapshot
          /\ Routed(call'[c]) = Routed(call[c])
      BY <1>1, <2>3, SnapshotEffect
    <3>2. /\ call'[c].decision = call[c].decision /\ call'[c].last = call[c].last
          /\ call'[c].accepted = call[c].accepted
      BY <3>1, RoutedAlike
    <3>3. /\ call'[c].decision.chain = <<Baseline>> /\ call'[c].last = Baseline
          /\ call'[c].accepted = <<>>
      BY <2>1, <3>1, <3>2 DEF JobOK
    <3>4. /\ call'[c].decision.chain \in Seq(Providers(call'[c]))
          /\ call'[c].last \in Providers(call'[c])
          /\ call'[c].accepted \in Seq(Providers(call'[c]))
      BY <3>3, BaselineOK
    <3>5. CapsFormed(call'[c].snap.caps)
      BY <1>1, <3>1, SnapshotFormed
    <3> QED BY <2>1, <3>1, <3>3, <3>4, <3>5 DEF JobOK
  <2>4. ASSUME NEW d, IsDecision(d), call[c].pc # "idle",
               d.selected \in Providers(call[c]), d.chain \in Seq(Providers(call[c])),
               Takes(c, ForTool(call[c].req, d, call[c].snap.caps)), call'[c].pc = "enqueue"
        PROVE  OnlyCall(c) /\ JobOK(c, call'[c])
    <3>1. call[c].req \in Calls[c] /\ CapsFormed(call[c].snap.caps)
      BY <2>1, <2>4 DEF JobOK
    <3>2. PICK u : u = call[c]
      OBVIOUS
    <3>3. PICK e : e = ForTool(u.req, d, u.snap.caps)
      OBVIOUS
    <3>4. e.selected \in Providers(u) /\ e.chain \in Seq(Providers(u))
      BY <2>4, <3>1, <3>2, <3>3, ForToolIn
    <3> QED BY <2>1, <2>4, <3>2, <3>3, <3>4, TakeOK DEF Takes
  <2>5. CASE SelectGuard(c)
    <3>1. call[c].pc = "guard"
      BY <1>1, <2>5, GuardEffect
    <3>2. CASE /\ OnlyCall(c) /\ call'[c].pc = "assist"
               /\ scoreCandidates(call[c].snap.caps, Input(call[c].req).tags) # {}
               /\ Asked(call'[c]) = Asked(call[c]) /\ Routed(call'[c]) = Routed(call[c])
      BY <2>1, <3>1, <3>2, MoveOK
    <3>3. ASSUME NEW reason,
                 Takes(c, ForTool(call[c].req, baselineDecision(call[c].snap.epoch, reason),
                                  call[c].snap.caps)),
                 call'[c].pc = "enqueue"
          PROVE  OnlyCall(c) /\ JobOK(c, call'[c])
      <4>1. PICK d : d = baselineDecision(call[c].snap.epoch, reason)
        OBVIOUS
      <4>2. IsDecision(d) /\ d.selected = Baseline /\ d.chain = <<Baseline>>
        BY SMT, <4>1, BaselineFormed
      <4>3. PICK U : U = Providers(call[c])
        OBVIOUS
      <4>4. Baseline \in U
        BY <4>3, BaselineUsable
      <4>5. <<Baseline>> \in Seq(U)
        BY SMT, <4>4
      <4> QED BY <2>4, <3>1, <3>3, <4>1, <4>2, <4>3, <4>4, <4>5
    <3> QED BY <1>1, <2>5, <3>2, <3>3, GuardEffect
  <2>6. CASE SelectAssist(c)
    <3>1. /\ OnlyCall(c) /\ call[c].pc = "assist" /\ call'[c].pc = "reason"
          /\ Asked(call'[c]) = Asked(call[c]) /\ Routed(call'[c]) = Routed(call[c])
      BY <1>1, <2>6, AssistEffect
    <3>2. scoreCandidates(call[c].snap.caps, Input(call[c].req).tags) # {}
      BY <2>1, <3>1 DEF JobOK
    <3> QED BY <2>1, <3>1, <3>2, MoveOK
  <2>7. CASE SelectReason(c)
    <3>1. PICK plugin \in Plugins :
            /\ call[c].pc = "reason" /\ call'[c].pc = "enqueue"
            /\ Takes(c, ForTool(call[c].req,
                                Selects(call[c].snap, Input(call[c].req), call[c].assist,
                                       autoDisabled[call[c].req.tool], plugin),
                                call[c].snap.caps))
      BY <1>1, <2>7, ReasonEffect
    <3>2. PICK u, disabled : u = call[c] /\ disabled = autoDisabled[call[c].req.tool]
      OBVIOUS
    <3>3. /\ u.req \in Calls[c] /\ CapsFormed(u.snap.caps)
          /\ scoreCandidates(u.snap.caps, Input(u.req).tags) # {}
      BY <2>1, <3>1, <3>2 DEF JobOK
    <3>4. PICK snap, input : snap = u.snap /\ input = Input(u.req)
      OBVIOUS
    <3>5. IsFiniteSet(input.tags) /\ input.seqLen \in Int
      BY <3>3, <3>4, CallsAssumption
    <3>6. \A cap \in snap.caps : isPolicyEligible(cap, input.tags) => cap.id \in Providers(u)
      BY <3>3, <3>4, EligibleUsable
    <3>7. PICK U : U = Providers(u)
      OBVIOUS
    <3>8. Baseline \in U
      BY <3>7, BaselineUsable
    <3>9. PICK assist : assist = u.assist
      OBVIOUS
    <3>10. PICK d : d = Selects(snap, input, assist, disabled, plugin)
      OBVIOUS
    <3>11. IsDecision(d)
      BY SMT, <3>10, DecideFormed
    <3>12. d.selected \in U /\ d.chain \in Seq(U)
      BY <3>3, <3>4, <3>5, <3>6, <3>7, <3>8, <3>10, DecideIn
    <3> QED BY <2>4, <3>1, <3>2, <3>4, <3>7, <3>9, <3>10, <3>11, <3>12
  <2>8. ASSUME call[c].pc \in {"enqueue", "retry"}, Serves(c)
        PROVE  OnlyCall(c) /\ JobOK(c, call'[c])
    <3>1. PICK U, accepted, last :
            U = Providers(call[c]) /\ accepted = call[c].accepted /\ last = call[c].last
      OBVIOUS
    <3>2. last \in U /\ accepted \in Seq(U)
      BY <2>1, <3>1 DEF JobOK
    <3>3. Append(accepted, last) \in Seq(U)
      BY SMT, <3>2
    <3>4. call'[c].req = call[c].req /\ call'[c].snap = call[c].snap /\ Providers(call'[c]) = U
      BY <2>8, <3>1, AskedAlike DEF Serves
    <3>5. /\ call'[c].decision = call[c].decision /\ call'[c].last = last
          /\ call'[c].accepted \in Seq(U) /\ call'[c].pc \in {"enqueue", "emit", "done"}
      BY <2>8, <3>1, <3>2, <3>3 DEF Serves
    <3> QED BY <2>1, <2>8, <3>1, <3>2, <3>4, <3>5 DEF JobOK, Serves
  <2>9. CASE EnqueueRefused(c)
    <3>1. call[c].pc = "enqueue"
      BY <1>1, <2>9, RefusedEffect
    <3>2. PICK d, last, class : d = call[c].decision /\ last = call[c].last /\ class = Refusal
      OBVIOUS
    <3>3. ASSUME Takes(c, FallbackOnFailure(d, last, class)), call'[c].pc = "retry"
          PROVE  OnlyCall(c) /\ JobOK(c, call'[c])
      <4>1. PICK U, hop : U = Providers(call[c]) /\ hop = FallbackOnFailure(d, last, class)
        OBVIOUS
      <4>2. IsDecision(d) /\ d.chain \in Seq(U) /\ Baseline \in U
        BY <1>1, <2>1, <3>2, <4>1, BaselineUsable DEF CallsFormed, JobOK
      <4>3. hop.selected \in U
        BY <4>1, <4>2, HopInChain
      <4>4. hop.chain = d.chain
        BY SMT, <4>1, <4>2, FallbackFormed
      <4> QED BY <2>1, <3>1, <3>3, <4>1, <4>2, <4>3, <4>4, TakeOK DEF Takes
    <3> QED BY <1>1, <2>8, <2>9, <3>1, <3>2, <3>3, RefusedEffect
  <2>10. ASSUME Moves(c), call[c].pc \in {"emit", "observe", "create", "register", "telemetry"},
                call'[c].pc \in {"observe", "done", "register", "telemetry"}
         PROVE  OnlyCall(c) /\ JobOK(c, call'[c])
    BY <2>1, <2>10, MoveOK DEF Moves
  <2>11. CASE EmitDecision(c) \/ ObserveDecision(c) \/ CreateAgent(c) \/ RegisterAgent(c) \/ PublishAgent(c)
    BY <1>1, <2>10, <2>11, EventEffect
  <2> QED BY <1>5, <2>2, <2>3, <2>5, <2>6, <2>7, <2>8, <2>9, <2>11 DEF CallAction
<1> QED BY <1>1, <1>3, <1>4, <1>5, CallCases DEF JobInv

\* At first no call has placed a job.
LEMMA JobInit == Init => JobInv
<1> SUFFICES ASSUME Init PROVE JobInv
  OBVIOUS
<1>1. CallsFormed /\ RegistryFormed /\ \A c \in Caller : call[c] = Idle
  BY CallsInit, RegistryInit
<1>2. /\ Idle.pc = "idle" /\ Idle.snap.caps = {} /\ Idle.last = Baseline /\ Idle.accepted = <<>>
      /\ Idle.decision = baselineDecision(0, "none")
  BY DEF Idle, NoSnapshot
<1>3. Idle.decision.chain = <<Baseline>>
  BY SMT, <1>2, BaselineFormed
<1>4. CapsFormed(Idle.snap.caps)
  BY <1>2 DEF CapsFormed
<1>5. \A c \in Caller : JobOK(c, Idle)
  BY <1>2, <1>3, <1>4, BaselineOK DEF JobOK
<1> QED BY <1>1, <1>5 DEF JobInv

\* Every job that was accepted is on a provider that its call's snapshot showed
\* usable for the workload, or on the baseline: the ranking, the SSM's and the
\* plugin's adjustments, the escalation and every hop stay within them
\* (policy_engine_v2.go: Select, FallbackOnFailure; sparse_escalation.go).
THEOREM JobsEligible == Spec => []JobsOnEligibleProviders
<1>1. JobInv => JobsOnEligibleProviders
  <2> SUFFICES ASSUME JobInv, NEW c \in Caller, NEW i \in DOMAIN call[c].accepted
               PROVE  Usable(call[c].req, call[c].snap.caps, call[c].accepted[i])
    BY DEF JobsOnEligibleProviders
  <2>1. PICK U, s : U = Providers(call[c]) /\ s = call[c].accepted
    OBVIOUS
  <2>2. s \in Seq(U) /\ i \in DOMAIN s
    BY <2>1 DEF JobInv, JobOK
  <2>3. s[i] \in U
    BY SMT, <2>2
  <2> QED BY <2>1, <2>3 DEF Providers
<1> QED BY <1>1, JobInit, JobStep, PTL DEF Spec
-----------------------------------------------------------------------------
(***************************************************************************)
(* The telemetry.                                                          *)
(***************************************************************************)
EventOf(c, d, kind) == [kind |-> kind, by |-> c, provider |-> d.selected, chain |-> d.chain]
AgentEvent(c) == [kind |-> "agent", by |-> c]

\* The call's decision may be published: it names the provider it should.
Placed(u) == u.req.tool # "sparse" /\ NamesProvider(u, u.decision.selected)

\* The chain has the provider of the moment and those of the jobs so far.
InChain(u) ==
  u.req.tool # "sparse" =>
    /\ {Baseline, u.last} \subseteq Names(u.decision.chain)
    /\ u.accepted \in Seq(Names(u.decision.chain))

\* An event of a decision comes from a call that will not decide again.
Tells(e, c) ==
  \/ /\ call[c].pc \in {"observe", "done"} /\ Placed(call[c])
     /\ e = EventOf(c, call[c].decision, "decision")
  \/ /\ call[c].pc \in {"observe", "done"} /\ Placed(call[c])
     /\ e = EventOf(c, call[c].decision, "fallback_engaged")
     /\ EventOf(c, call[c].decision, "decision") \in events
  \/ e = AgentEvent(c) /\ c \in agents /\ c \in created

Undecided == {"idle", "snapshot", "guard", "assist", "reason", "create", "register", "telemetry"}

\* How far a call has come with its items: the tools with one item leave the loop
\* with it, and after an item the provider of the moment took the last job, unless
\* an item was refused since.
Working(u) ==
  /\ InChain(u)
  /\ u.item \in Nat \ {0}
  /\ u.last = u.decision.selected
  /\ u.pc \in Undecided => u.accepted = <<>>
  /\ u.pc \in {"enqueue", "retry"} /\ u.req.tool # "batch" => u.accepted = <<>>
  /\ u.pc = "enqueue" =>
       u.accepted = <<>> \/ u.refused \/ u.last = u.accepted[Len(u.accepted)]
  /\ u.pc \in {"emit", "observe"} => Placed(u)

Standing(c) ==
  /\ Working(call[c])
  /\ call[c].pc = "observe" => EventOf(c, call[c].decision, "decision") \in events
  /\ call[c].pc = "register" => c \in created
  /\ call[c].pc = "telemetry" => c \in agents /\ c \in created

EventInv ==
  /\ JobInv
  /\ \A c \in Caller : Standing(c)
  /\ \A e \in events : \E c \in Caller : Tells(e, c)

\* A call that has only the baseline.
LEMMA BaselineInChain ==
  ASSUME NEW u, u.decision.chain = <<Baseline>>, u.last = Baseline, u.accepted = <<>>
  PROVE  InChain(u)
<1>1. Baseline \in Names(<<Baseline>>)
  BY SMT DEF Names
<1>2. <<>> \in Seq(Names(<<Baseline>>))
  BY SMT
<1> QED BY <1>1, <1>2 DEF InChain

\* A call that only moves on, before its items or after them.
LEMMA WorkingMoved ==
  ASSUME NEW u, NEW v, Working(u), Routed(v) = Routed(u), v.req = u.req,
         \/ u.pc \in Undecided /\ v.pc \in Undecided \cup {"done"}
         \/ u.pc \in {"emit", "observe"} /\ v.pc \in {"observe", "done"}
  PROVE  Working(v) /\ (Placed(u) => Placed(v))
<1>1. /\ v.decision = u.decision /\ v.last = u.last /\ v.accepted = u.accepted
      /\ v.item = u.item /\ v.refused = u.refused
  BY RoutedAlike
<1>2. (Placed(u) => Placed(v)) /\ InChain(v)
  BY <1>1 DEF Placed, NamesProvider, InChain, Working
<1>3. v.pc \notin {"enqueue", "retry", "emit"}
  BY DEF Undecided
<1>4. v.pc = "observe" => u.pc \in {"emit", "observe"}
  BY DEF Undecided
<1>5. v.pc \in Undecided => u.pc \in Undecided
  BY DEF Undecided
<1> QED BY <1>1, <1>2, <1>3, <1>4, <1>5 DEF Working

\* A call that takes a decision for the item in hand.
LEMMA WorkingTook ==
  ASSUME NEW c \in Caller, NEW d, Takes(c, d), Working(call[c]),
         \/ call[c].pc \in Undecided /\ call'[c].pc = "enqueue"
         \/ call[c].pc = "enqueue" /\ call'[c].pc = "retry" /\ d.chain = call[c].decision.chain,
         call[c].req.tool # "sparse" => {Baseline, d.selected} \subseteq Names(d.chain)
  PROVE  Working(call'[c])
<1>1. /\ call'[c].decision = d /\ call'[c].last = d.selected
      /\ call'[c].accepted = call[c].accepted /\ call'[c].item = call[c].item
  BY DEF Takes
<1>2. call'[c].req = call[c].req
  BY AskedAlike DEF Takes
<1>3. InChain(call'[c])
  <2>1. PICK S : S = Names(d.chain)
    OBVIOUS
  <2>2. <<>> \in Seq(S)
    BY SMT
  <2> QED BY <1>1, <1>2, <2>1, <2>2 DEF InChain, Working
<1>4. call'[c].pc \in {"enqueue", "retry"} /\ call'[c].pc \notin Undecided
  BY DEF Undecided
<1> QED BY <1>1, <1>2, <1>3, <1>4 DEF Working

\* A call that is through with an item.
LEMMA WorkingServed ==
  ASSUME NEW c \in Caller, JobOK(c, call[c]), Serves(c), Working(call[c]),
         call[c].pc \in {"enqueue", "retry"}
  PROVE  Working(call'[c])
<1>1. PICK item, old, last, new, r :
        /\ item = call[c].item /\ old = call[c].accepted /\ last = call[c].last
        /\ new = call'[c].accepted /\ r = call[c].req
  OBVIOUS
<1>2. call'[c].req = r
  BY <1>1, AskedAlike DEF Serves
<1>3. /\ call'[c].item \in Nat \ {0} /\ ~(item < 1)
  <2>1. item \in Nat \ {0} /\ call'[c].item = item + 1
    BY <1>1 DEF Serves, Working
  <2> QED BY SMT, <2>1
<1>4. /\ call'[c].decision = call[c].decision /\ call'[c].last = last
      /\ call'[c].last = call'[c].decision.selected
      /\ call'[c].pc \in {"enqueue", "emit", "done"}
  BY <1>1 DEF Serves, Working
<1>5. old \in Seq(Providers(call[c]))
  BY <1>1 DEF JobOK
<1>6. \/ new = old /\ (call'[c].refused \/ (call'[c].refused = call[c].refused /\ call[c].pc = "enqueue"))
      \/ new # <<>> /\ new[Len(new)] = last
  <2>1. new = Append(old, last) => new # <<>> /\ new[Len(new)] = last
    BY SMT, <1>5
  <2> QED BY <1>1, <2>1 DEF Serves
<1>7. new = <<>> \/ call'[c].refused \/ last = new[Len(new)]
  BY <1>1, <1>6 DEF Working
<1>8. InChain(call'[c])
  <2> SUFFICES ASSUME r.tool # "sparse" PROVE InChain(call'[c])
    BY <1>2 DEF InChain
  <2>1. PICK S : S = Names(call[c].decision.chain)
    OBVIOUS
  <2>2. {Baseline, last} \subseteq S /\ old \in Seq(S)
    BY <1>1, <2>1 DEF InChain, Working
  <2>3. Append(old, last) \in Seq(S)
    BY SMT, <2>2
  <2>4. new \in Seq(S)
    BY <1>1, <2>2, <2>3 DEF Serves
  <2> QED BY <1>1, <1>4, <2>1, <2>2, <2>4 DEF InChain
<1>9. call'[c].pc = NextItem(c, new)
  BY <1>1 DEF Serves
<1>10. r.tool # "batch" => call'[c].pc # "enqueue" /\ old = <<>>
  <2> SUFFICES ASSUME r.tool # "batch" PROVE call'[c].pc # "enqueue" /\ old = <<>>
    OBVIOUS
  <2>1. Len(Specs(r)) = 1
    BY SMT DEF Specs
  <2>2. NextItem(c, new) # "enqueue"
    BY <1>1, <1>3, <2>1 DEF NextItem
  <2> QED BY <1>1, <1>9, <2>2 DEF Working
<1>11. ASSUME call'[c].pc = "emit" PROVE Placed(call'[c])
  <2>1. Emits(r, new)
    BY <1>1, <1>9, <1>11 DEF NextItem
  <2>2. CASE r.tool = "batch"
    BY <1>1, <1>2, <1>4, <1>7, <2>2 DEF Placed, NamesProvider
  <2>3. CASE r.tool # "batch"
    <3>1. r.tool = "hw" /\ new # <<>>
      BY <2>1, <2>3 DEF Emits
    <3>2. new[Len(new)] = last
      BY <1>6, <1>10, <2>3, <3>1
    <3> QED BY <1>1, <1>2, <1>4, <3>1, <3>2 DEF Placed, NamesProvider
  <2> QED BY <2>2, <2>3
<1>12. call'[c].pc \notin Undecided /\ call'[c].pc \notin {"retry", "observe"}
  BY <1>4 DEF Undecided
<1> QED BY <1>1, <1>2, <1>3, <1>4, <1>7, <1>8, <1>10, <1>11, <1>12 DEF Working

\* The two events of a decision, in one form.
LEMMA EventShapes ==
  ASSUME NEW c
  PROVE  /\ DecisionEvent(c) = EventOf(c, call[c].decision, "decision")
         /\ [DecisionEvent(c) EXCEPT !.kind = "fallback_engaged"]
              = EventOf(c, call[c].decision, "fallback_engaged")
BY SMT DEF DecisionEvent, EventOf

\* The fields of an event.
LEMMA EventFields ==
  ASSUME NEW c, NEW d, NEW kind
  PROVE  /\ EventOf(c, d, kind).kind = kind /\ EventOf(c, d, kind).by = c
         /\ EventOf(c, d, kind).provider = d.selected /\ EventOf(c, d, kind).chain = d.chain
         /\ [EventOf(c, d, kind) EXCEPT !.kind = "decision"] = EventOf(c, d, "decision")
         /\ AgentEvent(c).kind = "agent" /\ AgentEvent(c).by = c
BY SMT DEF EventOf, AgentEvent

\* A step that keeps what is on the broker and the decisions that are over.
LEMMA EventsKept ==
  ASSUME EventInv, events \subseteq events', agents \subseteq agents', created \subseteq created',
         JobInv', NEW c \in Caller, \A d \in Caller \ {c} : call'[d] = call[d],
         call[c].pc \in {"observe", "done"} =>
           /\ call'[c].pc \in {"observe", "done"} /\ call'[c].decision = call[c].decision
           /\ Placed(call[c]) => Placed(call'[c]),
         Standing(c)',
         \A e \in events' \ events : Tells(e, c)'
  PROVE  EventInv'
<1>1. ASSUME NEW d \in Caller PROVE Standing(d)'
  <2>1. CASE d = c
    BY <2>1
  <2>2. CASE d # c
    BY <2>2 DEF EventInv, Standing
  <2> QED BY <2>1, <2>2
<1>2. ASSUME NEW e \in events' PROVE \E d \in Caller : Tells(e, d)'
  <2>1. CASE e \notin events
    BY <2>1
  <2>2. CASE e \in events
    <3>1. PICK d \in Caller : Tells(e, d)
      BY <2>2 DEF EventInv
    <3>2. CASE d = c
      BY <3>1, <3>2 DEF Tells
    <3>3. CASE d # c
      BY <3>1, <3>3 DEF Tells
    <3> QED BY <3>2, <3>3
  <2> QED BY <2>1, <2>2
<1> QED BY <1>1, <1>2 DEF EventInv

\* Every step keeps the events true.
LEMMA EventStep ==
  ASSUME EventInv, [Next]_vars
  PROVE  EventInv'
<1>1. /\ CallsFormed /\ CallsFormed' /\ JobInv' /\ \A c \in Caller : Standing(c)
      /\ \A c \in Caller : JobOK(c, call[c])
  BY JobStep DEF EventInv, JobInv
<1>2. CASE UNCHANGED <<call, autoDisabled, events, agents, created>>
  BY <1>1, <1>2 DEF EventInv, Standing, Tells
\* Until it emits, a call has nothing on the broker.
<1>3. ASSUME NEW c \in Caller, OnlyCall(c), UNCHANGED <<events, agents, created>>,
             call[c].pc \notin {"observe", "done"},
             call'[c].pc \notin {"observe", "register", "telemetry"},
             Working(call'[c])
      PROVE  EventInv'
  <2>1. Standing(c)'
    BY <1>3 DEF Standing
  <2> QED BY <1>1, <1>3, <2>1, EventsKept DEF OnlyCall
<1>4. ASSUME NEW c \in Caller, TakeSnapshot(c) \/ SelectAssist(c)
      PROVE  EventInv'
  <2>1. UNCHANGED <<events, agents, created>>
    BY <1>4 DEF TakeSnapshot, SelectAssist
  <2>2. /\ OnlyCall(c) /\ call[c].pc \in {"snapshot", "assist"}
        /\ call'[c].pc \in {"guard", "reason"}
        /\ Routed(call'[c]) = Routed(call[c]) /\ call'[c].req = call[c].req
    BY <1>1, <1>4, SnapshotEffect, AssistEffect, AskedAlike
  <2>3. Working(call'[c])
    BY <1>1, <2>2, WorkingMoved DEF Standing, Undecided
  <2> QED BY <1>3, <2>1, <2>2, <2>3
<1>5. ASSUME NEW c \in Caller, Begin(c)
      PROVE  EventInv'
  <2>1. UNCHANGED <<events, agents, created>>
    BY <1>5 DEF Begin
  <2>2. /\ OnlyCall(c) /\ call[c].pc = "idle"
        /\ call'[c].pc \in {"done", "create", "guard", "snapshot"}
        /\ Routed(call'[c]) = Routed(call[c])
    BY <1>1, <1>5, BeginEffect
  <2>3. /\ call'[c].decision = call[c].decision /\ call'[c].last = call[c].last
        /\ call'[c].accepted = call[c].accepted /\ call'[c].item = call[c].item
    BY <2>2, RoutedAlike
  <2>4. /\ call'[c].decision.chain = <<Baseline>> /\ call'[c].last = Baseline
        /\ call'[c].accepted = <<>>
    BY <1>1, <2>2, <2>3 DEF JobOK
  <2>5. InChain(call'[c])
    BY <2>4, BaselineInChain
  <2>6. call'[c].pc \notin {"enqueue", "retry", "emit", "observe"}
    BY <2>2
  <2>7. Working(call'[c])
    BY <1>1, <2>3, <2>4, <2>5, <2>6 DEF Working, Standing
  <2> QED BY <1>3, <2>1, <2>2, <2>7
<1>6. ASSUME NEW c \in Caller, NEW d, IsDecision(d), UNCHANGED <<events, agents, created>>,
             Takes(c, ForTool(call[c].req, d, call[c].snap.caps)),
             call[c].pc \in {"guard", "reason"}, call'[c].pc = "enqueue",
             {Baseline, d.selected} \subseteq Names(d.chain)
      PROVE  EventInv'
  <2>1. PICK e : e = ForTool(call[c].req, d, call[c].snap.caps)
    OBVIOUS
  <2>2. call[c].req.tool # "sparse" => e = d
    BY <1>6, <2>1, ToolDecision
  <2>3. call[c].pc \in Undecided
    BY <1>6 DEF Undecided
  <2>4. Working(call'[c])
    BY <1>1, <1>6, <2>1, <2>2, <2>3, WorkingTook DEF Standing
  <2> QED BY <1>3, <1>6, <2>4 DEF Takes
<1>7. ASSUME NEW c \in Caller, SelectGuard(c)
      PROVE  EventInv'
  <2>1. UNCHANGED <<events, agents, created>>
    BY <1>7 DEF SelectGuard
  <2>2. call[c].pc = "guard"
    BY <1>1, <1>7, GuardEffect
  <2>3. CASE OnlyCall(c) /\ call'[c].pc = "assist" /\ Asked(call'[c]) = Asked(call[c]) /\ Routed(call'[c]) = Routed(call[c])
    <3>1. call'[c].req = call[c].req
      BY <2>3, AskedAlike
    <3>2. Working(call'[c])
      BY <1>1, <2>2, <2>3, <3>1, WorkingMoved DEF Standing, Undecided
    <3> QED BY <1>3, <2>1, <2>2, <2>3, <3>2
  <2>4. ASSUME NEW reason, call'[c].pc = "enqueue",
               Takes(c, ForTool(call[c].req, baselineDecision(call[c].snap.epoch, reason),
                                call[c].snap.caps))
        PROVE  EventInv'
    <3>1. PICK d : d = baselineDecision(call[c].snap.epoch, reason)
      OBVIOUS
    <3>2. IsDecision(d) /\ d.selected = Baseline /\ d.chain = <<Baseline>>
      BY SMT, <3>1, BaselineFormed
    <3>3. Baseline \in Names(<<Baseline>>)
      BY SMT DEF Names
    <3> QED BY <1>6, <2>1, <2>2, <2>4, <3>1, <3>2, <3>3
  <2> QED BY <1>1, <1>7, <2>3, <2>4, GuardEffect
<1>8. ASSUME NEW c \in Caller, SelectReason(c)
      PROVE  EventInv'
  <2>1. UNCHANGED <<events, agents, created>>
    BY <1>8 DEF SelectReason
  <2>2. PICK plugin \in Plugins :
          /\ call[c].pc = "reason" /\ call'[c].pc = "enqueue"
          /\ Takes(c, ForTool(call[c].req,
                              Selects(call[c].snap, Input(call[c].req), call[c].assist,
                                     autoDisabled[call[c].req.tool], plugin),
                              call[c].snap.caps))
    BY <1>1, <1>8, ReasonEffect
  <2>3. PICK u, disabled, assist :
          u = call[c] /\ disabled = autoDisabled[call[c].req.tool] /\ assist = call[c].assist
    OBVIOUS
  <2>4. PICK snap, input : snap = u.snap /\ input = Input(u.req)
    OBVIOUS
  <2>5. /\ u.req \in Calls[c] /\ CapsFormed(snap.caps)
        /\ scoreCandidates(snap.caps, input.tags) # {}
    BY <1>1, <2>2, <2>3, <2>4 DEF JobOK
  <2>6. IsFiniteSet(input.tags) /\ input.seqLen \in Int
    BY <2>4, <2>5, CallsAssumption
  <2>7. PICK U : U = Providers(u)
    OBVIOUS
  <2>8. Baseline \in U /\ \A cap \in snap.caps : isPolicyEligible(cap, input.tags) => cap.id \in U
    BY <2>4, <2>5, <2>7, BaselineUsable, EligibleUsable
  <2>9. PICK d : d = Selects(snap, input, assist, disabled, plugin)
    OBVIOUS
  <2>10. IsDecision(d)
    BY SMT, <2>9, DecideFormed
  <2>11. {Baseline, d.selected} \subseteq Names(d.chain)
    BY <2>5, <2>6, <2>8, <2>9, DecideIn
  <2> QED BY <1>6, <2>1, <2>2, <2>3, <2>4, <2>9, <2>10, <2>11
<1>9. ASSUME NEW c \in Caller, Serves(c), call[c].pc \in {"enqueue", "retry"},
             UNCHANGED <<events, agents, created>>
      PROVE  EventInv'
  <2>1. Working(call'[c])
    BY <1>1, <1>9, WorkingServed DEF Standing
  <2> QED BY <1>3, <1>9, <2>1 DEF Serves
<1>10. ASSUME NEW c \in Caller, EnqueueRefused(c)
       PROVE  EventInv'
  <2>1. UNCHANGED <<events, agents, created>>
    BY <1>10 DEF EnqueueRefused
  <2>2. call[c].pc = "enqueue"
    BY <1>1, <1>10, RefusedEffect
  <2>3. PICK d, last, class : d = call[c].decision /\ last = call[c].last /\ class = Refusal
    OBVIOUS
  <2>4. ASSUME Takes(c, FallbackOnFailure(d, last, class)), call'[c].pc = "retry"
        PROVE  EventInv'
    <3>1. PICK S, hop, U : /\ S = Names(d.chain) /\ hop = FallbackOnFailure(d, last, class)
                           /\ U = Providers(call[c])
      OBVIOUS
    <3>2. IsDecision(d) /\ d.chain \in Seq(U)
      BY <1>1, <2>3, <3>1 DEF CallsFormed, JobOK
    <3>3. d.chain \in Seq(S)
      BY SMT, <3>1, <3>2 DEF Names
    <3>4. hop.chain = d.chain
      BY SMT, <3>1, <3>2, FallbackFormed
    <3>5. call[c].req.tool # "sparse" => {Baseline, hop.selected} \subseteq Names(hop.chain)
      <4>1. call[c].req.tool # "sparse" => Baseline \in S
        BY <1>1, <2>3, <3>1 DEF Standing, Working, InChain
      <4>2. Baseline \in S => hop.selected \in S
        BY <3>1, <3>2, <3>3, HopInChain
      <4> QED BY <3>1, <3>4, <4>1, <4>2
    <3>6. Working(call'[c])
      BY <1>1, <2>2, <2>3, <2>4, <3>1, <3>4, <3>5, WorkingTook DEF Standing
    <3> QED BY <1>3, <2>1, <2>2, <2>4, <3>6 DEF Takes
  <2> QED BY <1>1, <1>9, <1>10, <2>1, <2>3, <2>4, RefusedEffect
<1>11. ASSUME NEW c \in Caller, Moves(c), call[c].pc \in {"emit", "observe", "create", "register", "telemetry"},
              \/ call[c].pc \in Undecided /\ call'[c].pc \in Undecided \cup {"done"}
              \/ call[c].pc \in {"emit", "observe"} /\ call'[c].pc \in {"observe", "done"}
       PROVE  /\ OnlyCall(c) /\ Working(call'[c]) /\ call'[c].decision = call[c].decision
              /\ Placed(call[c]) => Placed(call'[c])
  <2>1. OnlyCall(c) /\ call'[c].req = call[c].req /\ Routed(call'[c]) = Routed(call[c])
    BY <1>11, AskedAlike DEF Moves
  <2>2. call'[c].decision = call[c].decision
    BY <2>1, RoutedAlike
  <2> QED BY <1>1, <1>11, <2>1, <2>2, WorkingMoved DEF Standing
<1>12. ASSUME NEW c \in Caller, EmitDecision(c)
       PROVE  EventInv'
  <2>1. UNCHANGED <<agents, created>>
    BY <1>12 DEF EmitDecision
  <2>2. /\ Moves(c) /\ call[c].pc = "emit"
        /\ \/ call'[c].pc = "observe" /\ events' = events \cup {DecisionEvent(c)}
           \/ call'[c].pc = "done" /\ events' = events
    BY <1>1, <1>12, EventEffect
  <2>3. /\ OnlyCall(c) /\ Working(call'[c]) /\ call'[c].decision = call[c].decision
    BY <1>11, <2>2
  <2>4. CASE call'[c].pc = "observe" /\ events' = events \cup {DecisionEvent(c)}
    <3>1. events' = events \cup {EventOf(c, call'[c].decision, "decision")}
      BY <2>3, <2>4, EventShapes
    <3>2. Placed(call'[c])
      BY <2>3, <2>4 DEF Working
    <3>3. Standing(c)'
      BY <2>3, <2>4, <3>1 DEF Standing
    <3>4. \A e \in events' \ events : Tells(e, c)'
      BY <2>4, <3>1, <3>2 DEF Tells
    <3>5. events \subseteq events'
      BY <3>1
    <3> QED BY <1>1, <2>1, <2>2, <2>3, <3>3, <3>4, <3>5, EventsKept DEF OnlyCall
  <2>5. CASE call'[c].pc = "done" /\ events' = events
    BY <1>3, <2>1, <2>2, <2>3, <2>5
  <2> QED BY <2>2, <2>4, <2>5
<1>13. ASSUME NEW c \in Caller, ObserveDecision(c)
       PROVE  EventInv'
  <2>1. UNCHANGED <<agents, created>>
    BY <1>13 DEF ObserveDecision
  <2>2. Moves(c) /\ call[c].pc = "observe" /\ call'[c].pc = "done"
    BY <1>1, <1>13, EventEffect
  <2>3. /\ OnlyCall(c) /\ Working(call'[c]) /\ call'[c].decision = call[c].decision
        /\ Placed(call[c]) => Placed(call'[c])
    BY <1>11, <2>2
  <2>4. EventOf(c, call[c].decision, "decision") \in events /\ Placed(call'[c])
    BY <1>1, <2>2, <2>3 DEF Standing, Working
  <2>5. \/ events' = events
        \/ events' = events \cup {EventOf(c, call[c].decision, "fallback_engaged")}
    BY <1>1, <1>13, EventEffect, EventShapes
  <2>6. Standing(c)'
    BY <2>2, <2>3 DEF Standing
  <2>7. \A e \in events' \ events : Tells(e, c)'
    BY <2>2, <2>3, <2>4, <2>5 DEF Tells
  <2>8. events \subseteq events'
    BY <2>5
  <2> QED BY <1>1, <2>1, <2>2, <2>3, <2>6, <2>7, <2>8, EventsKept DEF OnlyCall
<1>14. ASSUME NEW c \in Caller, CreateAgent(c) \/ RegisterAgent(c) \/ PublishAgent(c)
       PROVE  EventInv'
  <2>1. /\ Moves(c) /\ call[c].pc \in {"create", "register", "telemetry"}
        /\ call'[c].pc \in {"register", "telemetry", "done"}
    BY <1>1, <1>14, EventEffect
  <2>2. OnlyCall(c) /\ Working(call'[c])
    BY <1>11, <2>1 DEF Undecided
  <2>3. CASE CreateAgent(c)
    <3>1. UNCHANGED <<events, agents>> /\ created \subseteq created'
      BY <2>3 DEF CreateAgent
    <3>2. Standing(c)'
      BY <1>1, <2>2, <2>3, EventEffect DEF Standing
    <3> QED BY <1>1, <2>1, <2>2, <3>1, <3>2, EventsKept DEF OnlyCall
  <2>4. CASE RegisterAgent(c)
    <3>1. UNCHANGED <<events, created>> /\ agents' = agents \cup {c}
      BY <2>4 DEF RegisterAgent
    <3>2. c \in created /\ call'[c].pc = "telemetry"
      BY <1>1, <2>4, EventEffect DEF Standing
    <3>3. Standing(c)'
      BY <2>2, <3>1, <3>2 DEF Standing
    <3>4. agents \subseteq agents'
      BY <3>1
    <3> QED BY <1>1, <2>1, <2>2, <3>1, <3>3, <3>4, EventsKept DEF OnlyCall
  <2>5. CASE PublishAgent(c)
    <3>1. UNCHANGED <<agents, created>> /\ events' \in {events, events \cup {AgentEvent(c)}}
      BY <2>5 DEF PublishAgent, AgentEvent
    <3>2. c \in agents /\ c \in created /\ call'[c].pc = "done"
      BY <1>1, <2>5, EventEffect DEF Standing
    <3>3. Standing(c)'
      BY <2>2, <3>2 DEF Standing
    <3>4. events \subseteq events' /\ \A e \in events' \ events : Tells(e, c)'
      BY <3>1, <3>2 DEF Tells
    <3> QED BY <1>1, <2>1, <2>2, <3>1, <3>3, <3>4, EventsKept DEF OnlyCall
  <2> QED BY <1>14, <2>3, <2>4, <2>5
<1> QED BY <1>1, <1>2, <1>4, <1>5, <1>7, <1>8, <1>9, <1>10, <1>12, <1>13, <1>14, CallCases
      DEF CallAction

\* A decision event names the provider that took the last job of its call (for a
\* batch, unless it placed none or an item was refused since) and its chain has
\* the provider of every job placed; an anomaly follows the event of its decision,
\* and an agent's event the agent's entry in the registry (telemetry.go:
\* EmitDecision; dispatch_tools.go, sparse_agent_tools.go: Execute).
THEOREM EventsTrue == Spec => []EventsTellWhatHappened
<1>1. Init => EventInv
  <2> SUFFICES ASSUME Init PROVE EventInv
    OBVIOUS
  <2>1. JobInv /\ \A c \in Caller : call[c] = Idle
    BY JobInit, CallsInit
  <2>2. events = {}
    BY DEF Init
  <2>3. /\ Idle.pc = "idle" /\ Idle.last = Baseline /\ Idle.accepted = <<>> /\ Idle.item = 1
        /\ Idle.decision = baselineDecision(0, "none")
    BY DEF Idle
  <2>4. Idle.decision.selected = Baseline /\ Idle.decision.chain = <<Baseline>>
    BY SMT, <2>3, BaselineFormed
  <2>5. 1 \in Nat \ {0}
    BY SMT
  <2>6. Working(Idle)
    BY <2>3, <2>4, <2>5, BaselineInChain DEF Working
  <2>7. \A c \in Caller : Standing(c)
    BY <2>1, <2>3, <2>6 DEF Standing
  <2> QED BY <2>1, <2>2, <2>7 DEF EventInv
<1>2. EventInv => EventsTellWhatHappened
  <2> DEFINE Told(c, provider, chain) ==
               /\ NamesProvider(call[c], provider)
               /\ \A i \in DOMAIN call[c].accepted : \E j \in DOMAIN chain :
                    call[c].accepted[i] = chain[j]
  <2> SUFFICES ASSUME EventInv, NEW e \in events
               PROVE  /\ e.kind # "agent" => Told(e.by, e.provider, e.chain)
                      /\ e.kind = "fallback_engaged" => [e EXCEPT !.kind = "decision"] \in events
                      /\ e.kind = "agent" => e.by \in agents /\ e.by \in created
    BY DEF EventsTellWhatHappened
  <2>1. PICK c \in Caller : Tells(e, c)
    BY DEF EventInv
  <2>2. PICK d : d = call[c].decision
    OBVIOUS
  <2>3. ASSUME Placed(call[c]) PROVE Told(c, d.selected, d.chain)
    <3>1. PICK jobs : jobs = call[c].accepted
      OBVIOUS
    <3>2. jobs \in Seq(Names(d.chain)) /\ NamesProvider(call[c], d.selected)
      BY <2>2, <2>3, <3>1 DEF EventInv, Standing, Working, InChain, Placed
    <3>3. \A i \in DOMAIN jobs : \E j \in DOMAIN d.chain : jobs[i] = d.chain[j]
      BY SMT, <3>2 DEF Names
    <3> QED BY <3>1, <3>2, <3>3
  <2> HIDE DEF Told
  <2>4. CASE Placed(call[c]) /\ e = EventOf(c, call[c].decision, "decision")
    <3>1. e.kind = "decision" /\ e.by = c /\ e.provider = d.selected /\ e.chain = d.chain
      BY SMT, <2>2, <2>4, EventFields
    <3> QED BY <2>3, <2>4, <3>1
  <2>5. CASE /\ Placed(call[c]) /\ e = EventOf(c, call[c].decision, "fallback_engaged")
             /\ EventOf(c, call[c].decision, "decision") \in events
    <3>1. e.kind = "fallback_engaged" /\ e.by = c /\ e.provider = d.selected /\ e.chain = d.chain
      BY SMT, <2>2, <2>5, EventFields
    <3>2. [e EXCEPT !.kind = "decision"] \in events
      BY SMT, <2>5, EventFields
    <3> QED BY <2>3, <2>5, <3>1, <3>2
  <2>6. CASE e = AgentEvent(c) /\ c \in agents /\ c \in created
    BY <2>6, EventFields
  <2> QED BY <2>1, <2>4, <2>5, <2>6 DEF Tells
<1> QED BY <1>1, <1>2, EventStep, PTL DEF Spec

-----------------------------------------------------------------------------
(***************************************************************************)
(* The sandbox a dispatched job runs in, for any jobs, container names,    *)
(* policies, retries and failures: what a job leaves behind is reported,   *)
(* and a job reported as successful ran to its own end.                    *)
(***************************************************************************)
DockerSteps == {"runtime", "create", "start", "select", "stop", "kill", "remove", "list"}
VMSteps == {"preflight", "clone", "vm", "finalize"}
RunEnd == {"none", "profile", "runtime", "preflight", "create", "clone",
           "start", "ctx", "wait", "ended"}
CleanupEnd == {"none", "stop", "kill", "remove", "leaked", "verify", "release", "ok"}
Steps == {"idle", "refuse", "returned"} \cup DockerSteps \cup VMSteps

SandboxTypeOK ==
  /\ scenario \in Scenario
  /\ pc \in [Job -> Steps]
  /\ container \in [Job -> {"none", "created", "running", "stopped", "removing", "gone"}]
  /\ ended \in [Job -> {"no", "self", "killed"}]
  /\ waiter \in [Job -> {"none", "waiting", "ended", "failed"}]
  /\ cause \in [Job -> {"none", "start", "ctx", "wait", "ended"}]
  /\ clone \in [Job -> {"none", "present", "released"}]
  /\ result \in [Job -> [run : RunEnd, cleanup : CleanupEnd]]

\* Where the job's container is before, during and after its run: there is none
\* before create, and none at all for a virtual machine; while the runner waits,
\* only the workload itself can have ended it.
ContainerInv(j) ==
  /\ pc[j] \in {"idle", "refuse", "runtime", "create"} \cup VMSteps => container[j] = "none"
  /\ pc[j] = "start" => container[j] = "created"
  /\ pc[j] = "select" => container[j] \in {"running", "stopped"}
  /\ pc[j] = "select" /\ container[j] = "stopped" => ended[j] = "self"
  /\ container[j] \in {"created", "running"} => ended[j] = "no"
  /\ container[j] = "none" /\ clone[j] = "none" => ended[j] = "no"
  /\ clone[j] # "none" => container[j] = "none"

\* What the runner was told: "ended" only of a workload that ended by itself.
CauseInv(j) ==
  /\ pc[j] \in {"select", "vm"} /\ waiter[j] = "ended" => ended[j] = "self"
  /\ cause[j] = "ended" => ended[j] = "self"
  /\ pc[j] \in {"idle", "refuse", "runtime", "create", "start", "preflight", "clone"}
       => waiter[j] = "none" /\ cause[j] = "none"

\* Clones belong to the Firecracker tier.
TierInv(j) ==
  /\ pc[j] \in DockerSteps => TierOf(j) \in {Docker, GVisor}
  /\ pc[j] \in VMSteps => TierOf(j) = Firecracker
  /\ pc[j] \in {"idle", "refuse", "preflight", "clone"} \cup DockerSteps => clone[j] = "none"
  /\ pc[j] \in {"vm", "finalize"} => clone[j] = "present"

\* What holds of a job whose Execute has returned.
ReturnInv(j) ==
  Returned(j) =>
    /\ container[j] \in Present \/ clone[j] = "present" =>
         \/ result[j].cleanup \notin {"none", "ok"}
         \/ result[j].run \in {"create", "clone"} /\ NeverRan(j)
    /\ result[j].run = "ended" =>
         /\ ended[j] = "self"
         /\ (TierOf(j) = Firecracker) <=> (clone[j] # "none")

JobSafe(j) == ContainerInv(j) /\ CauseInv(j) /\ TierInv(j) /\ ReturnInv(j)

SandboxInv == SandboxTypeOK /\ \A j \in Job : JobSafe(j)

\* A job keeps its invariant in a step that leaves its state alone.
Untouched(j) ==
  /\ pc'[j] = pc[j] /\ container'[j] = container[j] /\ ended'[j] = ended[j]
  /\ waiter'[j] = waiter[j] /\ cause'[j] = cause[j] /\ clone'[j] = clone[j]
  /\ result'[j] = result[j]

\* A step of job j alone: its own invariant holds again, others see no change.
StepOf(j) ==
  /\ SandboxTypeOK'
  /\ scenario' = scenario
  /\ JobSafe(j)'
  /\ \A k \in Job \ {j} : Untouched(k)

-----------------------------------------------------------------------------
\* The tier of a job is a function of the scenario, which never changes.
LEMMA TierStable ==
  ASSUME NEW j \in Job, scenario' = scenario
  PROVE  TierOf(j)' = TierOf(j)
BY SMT DEF TierOf, resolve, resolveDockerTrusted, resolveFirecracker

\* The router answers with one of the three tiers or refuses.
LEMMA TierKinds ==
  ASSUME NEW j \in Job, scenario \in Scenario
  PROVE  TierOf(j) \in {Refused} \cup ValidSandboxProfiles
<1>1. scenario.runner \in {"router"} \cup ValidSandboxProfiles
  BY SMT, RunnerAssumption
<1>2. ASSUME NEW r PROVE resolve(r) \in {Refused} \cup ValidSandboxProfiles
  BY DEF resolve, resolveDockerTrusted, resolveFirecracker, ValidSandboxProfiles
<1> QED BY SMT, <1>1, <1>2 DEF TierOf

\* A job whose state a step leaves alone keeps its invariant.
LEMMA Frame ==
  ASSUME NEW k \in Job, JobSafe(k), Untouched(k), scenario' = scenario
  PROVE  JobSafe(k)'
<1>1. TierOf(k)' = TierOf(k)
  BY SMT, TierStable
<1>2. ContainerInv(k)' /\ CauseInv(k)'
  BY SMT DEF JobSafe, Untouched, ContainerInv, CauseInv
<1>3. TierInv(k)'
  BY SMT, <1>1 DEF JobSafe, Untouched, TierInv
<1>4. ReturnInv(k)'
  BY SMT, <1>1 DEF JobSafe, Untouched, ReturnInv, NeverRan, Returned
<1> QED BY SMT, <1>2, <1>3, <1>4 DEF JobSafe

\* What Execute leaves when it returns.
LEMMA ReturnStep ==
  ASSUME SandboxTypeOK, NEW j \in Job, NEW r \in RunEnd, NEW c \in CleanupEnd, Return(j, r, c)
  PROVE  /\ pc' \in [Job -> Steps]
         /\ pc'[j] = "returned"
         /\ result' \in [Job -> [run : RunEnd, cleanup : CleanupEnd]]
         /\ result'[j].run = r /\ result'[j].cleanup = c
         /\ \A k \in Job \ {j} : pc'[k] = pc[k] /\ result'[k] = result[k]
<1> DEFINE rec == [run |-> r, cleanup |-> c]
<1>1. pc' \in [Job -> Steps] /\ pc'[j] = "returned" /\ \A k \in Job \ {j} : pc'[k] = pc[k]
  BY SMT DEF SandboxTypeOK, Return, Go, Steps
<1>2. rec \in [run : RunEnd, cleanup : CleanupEnd] /\ rec.run = r /\ rec.cleanup = c
  OBVIOUS
<1>3. result' = [result EXCEPT ![j] = rec]
  BY SMT DEF Return
<1> HIDE DEF rec
<1>4. /\ result' \in [Job -> [run : RunEnd, cleanup : CleanupEnd]]
      /\ result'[j] = rec
      /\ \A k \in Job \ {j} : result'[k] = result[k]
  BY SMT, <1>2, <1>3 DEF SandboxTypeOK
<1> QED BY SMT, <1>1, <1>2, <1>4

\* Moving to another step without returning.
LEMMA GoStep ==
  ASSUME SandboxTypeOK, NEW j \in Job, NEW l \in Steps, Go(j, l)
  PROVE  /\ pc' \in [Job -> Steps]
         /\ pc'[j] = l
         /\ \A k \in Job \ {j} : pc'[k] = pc[k]
BY SMT DEF SandboxTypeOK, Go

\* The steps before a container or a clone exists.
LEMMA BeginSteps ==
  ASSUME SandboxTypeOK, NEW j \in Job, JobSafe(j),
         Execute(j) \/ Refuse(j) \/ Cancel(j) \/ ensureRuntime(j) \/ Preflight(j)
  PROVE  StepOf(j)
<1>1. ASSUME NEW r \in {"profile", "runtime", "preflight"}, Return(j, r, "none")
      PROVE  /\ pc' \in [Job -> Steps] /\ pc'[j] = "returned"
             /\ result' \in [Job -> [run : RunEnd, cleanup : CleanupEnd]]
             /\ result'[j].run = r /\ result'[j].cleanup = "none"
             /\ \A k \in Job \ {j} : pc'[k] = pc[k] /\ result'[k] = result[k]
  <2>1. r \in RunEnd /\ "none" \in CleanupEnd
    BY SMT DEF RunEnd, CleanupEnd
  <2> QED BY SMT, <1>1, <2>1, ReturnStep
<1> USE DEF SandboxTypeOK, Steps, DockerSteps, VMSteps, JobSafe, ContainerInv, CauseInv,
            TierInv, ReturnInv, NeverRan, Returned, StepOf, Untouched, daemonVars, localVars,
            Present
<1>2. scenario' = scenario
  BY SMT DEF Execute, Refuse, Cancel, ensureRuntime, Preflight
<1>3. TierOf(j)' = TierOf(j)
  BY SMT, <1>2, TierStable
<1>4. ASSUME NEW r \in {"profile", "runtime", "preflight"}, Return(j, r, "none"),
             pc[j] \in {"refuse", "runtime", "preflight"},
             UNCHANGED <<scenario, daemonVars, waiter, cause, clone>>
      PROVE  StepOf(j)
  <2>1. /\ pc' \in [Job -> Steps] /\ pc'[j] = "returned"
        /\ result' \in [Job -> [run : RunEnd, cleanup : CleanupEnd]]
        /\ result'[j].run = r /\ result'[j].cleanup = "none"
        /\ \A k \in Job \ {j} : pc'[k] = pc[k] /\ result'[k] = result[k]
    BY SMT, <1>1, <1>4
  <2>2. SandboxTypeOK' /\ \A k \in Job \ {j} : Untouched(k)
    BY SMT, <1>4, <2>1
  <2>3. ContainerInv(j)' /\ CauseInv(j)' /\ TierInv(j)'
    BY SMT, <1>3, <1>4, <2>1
  <2>4. ReturnInv(j)'
    BY SMT, <1>3, <1>4, <2>1
  <2> QED BY SMT, <1>4, <2>2, <2>3, <2>4
<1>5. CASE Execute(j)
  <2>1. FirstStep(TierOf(j)) \in {"refuse", "create", "runtime", "preflight"}
    BY SMT, TierKinds DEF FirstStep, ValidSandboxProfiles, Refused, Docker, GVisor, Firecracker
  <2>2. /\ FirstStep(TierOf(j)) \in {"create", "runtime"} => TierOf(j) \in {Docker, GVisor}
        /\ FirstStep(TierOf(j)) = "preflight" => TierOf(j) = Firecracker
    BY SMT, TierKinds DEF FirstStep, ValidSandboxProfiles, Refused, Docker, GVisor, Firecracker
  <2> QED BY SMT, <1>3, <1>5, <2>1, <2>2, GoStep DEF Execute
<1>6. CASE Refuse(j)
  BY SMT, <1>4, <1>6 DEF Refuse
<1>7. CASE Cancel(j)
  BY SMT, <1>3, <1>7 DEF Cancel
<1>8. CASE ensureRuntime(j)
  <2>1. CASE Go(j, "create") /\ UNCHANGED result
    BY SMT, <1>3, <1>8, <2>1, GoStep DEF ensureRuntime
  <2>2. CASE Return(j, "runtime", "none")
    BY SMT, <1>4, <1>8, <2>2 DEF ensureRuntime
  <2> QED BY SMT, <1>8, <2>1, <2>2 DEF ensureRuntime
<1>9. CASE Preflight(j)
  <2>1. CASE Go(j, "clone") /\ UNCHANGED result
    BY SMT, <1>3, <1>9, <2>1, GoStep DEF Preflight
  <2>2. CASE Return(j, "preflight", "none")
    BY SMT, <1>4, <1>9, <2>2 DEF Preflight
  <2> QED BY <1>9, <2>1, <2>2 DEF Preflight
<1> QED BY <1>5, <1>6, <1>7, <1>8, <1>9

\* Create and start, done or failed.
LEMMA LaunchSteps ==
  ASSUME SandboxTypeOK, NEW j \in Job, JobSafe(j),
         \/ CreateContainer(j) \/ CreateFails(j)
         \/ StartContainer(j) \/ StartFails(j)
  PROVE  StepOf(j)
<1>1. ASSUME Return(j, "create", "none")
      PROVE  /\ pc' \in [Job -> Steps] /\ pc'[j] = "returned"
             /\ result' \in [Job -> [run : RunEnd, cleanup : CleanupEnd]]
             /\ result'[j].run = "create" /\ result'[j].cleanup = "none"
             /\ \A k \in Job \ {j} : pc'[k] = pc[k] /\ result'[k] = result[k]
  <2>1. "create" \in RunEnd /\ "none" \in CleanupEnd
    BY SMT DEF RunEnd, CleanupEnd
  <2> QED BY SMT, <1>1, <2>1, ReturnStep
<1> USE DEF SandboxTypeOK, Steps, DockerSteps, VMSteps, JobSafe, ContainerInv, CauseInv,
            TierInv, ReturnInv, NeverRan, Returned, StepOf, Untouched, daemonVars, localVars,
            Present
<1>2. scenario' = scenario
  BY SMT DEF CreateContainer, CreateFails, StartContainer, StartFails
<1>3. TierOf(j)' = TierOf(j)
  BY SMT, <1>2, TierStable
<1>4. ASSUME Return(j, "create", "none"), pc[j] = "create",
             \/ UNCHANGED container
             \/ container' = [container EXCEPT ![j] = "created"],
             UNCHANGED <<scenario, ended, waiter, cause, clone>>
      PROVE  StepOf(j)
  <2>1. /\ pc' \in [Job -> Steps] /\ pc'[j] = "returned"
        /\ result' \in [Job -> [run : RunEnd, cleanup : CleanupEnd]]
        /\ result'[j].run = "create" /\ result'[j].cleanup = "none"
        /\ \A k \in Job \ {j} : pc'[k] = pc[k] /\ result'[k] = result[k]
    BY SMT, <1>1, <1>4
  <2>2. SandboxTypeOK' /\ \A k \in Job \ {j} : Untouched(k)
    BY <1>4, <2>1
  <2>3. ContainerInv(j)' /\ CauseInv(j)' /\ TierInv(j)'
    BY SMT, <1>3, <1>4, <2>1
  <2>4. ReturnInv(j)'
    BY SMT, <1>3, <1>4, <2>1
  <2> QED BY SMT, <1>4, <2>2, <2>3, <2>4
<1>5. CASE CreateContainer(j)
  <2>1. CASE Named(NameOf(j)) = {}
    <3>1. /\ pc[j] = "create"
          /\ container' = [container EXCEPT ![j] = "created"]
          /\ Go(j, "start")
          /\ UNCHANGED <<result, ended, waiter, cause, clone>>
      BY SMT, <1>5, <2>1 DEF CreateContainer
    <3>2. pc' \in [Job -> Steps] /\ pc'[j] = "start" /\ \A k \in Job \ {j} : pc'[k] = pc[k]
      BY SMT, <3>1, GoStep
    <3>3. SandboxTypeOK' /\ \A k \in Job \ {j} : Untouched(k)
      BY <1>2, <3>1, <3>2
    <3>4. JobSafe(j)'
      BY SMT, <1>3, <3>1, <3>2
    <3> QED BY SMT, <1>2, <3>3, <3>4
  <2>2. CASE Named(NameOf(j)) # {}
    BY <1>4, <1>5, <2>2 DEF CreateContainer
  <2> QED BY <2>1, <2>2
<1>6. CASE CreateFails(j)
  <2>1. container' = container \/ container' = [container EXCEPT ![j] = "created"]
    BY <1>6 DEF CreateFails
  <2> QED BY <1>4, <1>6, <2>1 DEF CreateFails
<1>7. CASE StartContainer(j)
  <2>1. /\ pc[j] = "start" /\ Go(j, "select")
        /\ container' = [container EXCEPT ![j] = "running"]
        /\ waiter' = [waiter EXCEPT ![j] = "waiting"]
        /\ UNCHANGED <<ended, cause, clone, result>>
    BY SMT, <1>7 DEF StartContainer
  <2>2. pc' \in [Job -> Steps] /\ pc'[j] = "select" /\ \A k \in Job \ {j} : pc'[k] = pc[k]
    BY SMT, <2>1, GoStep
  <2>3. SandboxTypeOK' /\ \A k \in Job \ {j} : Untouched(k)
    BY <1>2, <2>1, <2>2
  <2>4. JobSafe(j)'
    BY SMT, <1>3, <2>1, <2>2
  <2> QED BY SMT, <1>2, <2>3, <2>4
<1>8. CASE StartFails(j)
  <2>1. /\ pc[j] = "start" /\ Go(j, "stop")
        /\ cause' = [cause EXCEPT ![j] = "start"]
        /\ UNCHANGED <<ended, waiter, clone, result>>
    BY SMT, <1>8 DEF StartFails
  <2>2. pc' \in [Job -> Steps] /\ pc'[j] = "stop" /\ \A k \in Job \ {j} : pc'[k] = pc[k]
    BY SMT, <2>1, GoStep
  <2>3. PICK s \in {"created", "running"} : container' = [container EXCEPT ![j] = s]
    BY <1>8 DEF StartFails
  <2>4. SandboxTypeOK' /\ \A k \in Job \ {j} : Untouched(k)
    BY SMT, <1>2, <2>1, <2>2, <2>3
  <2>5. container'[j] = s /\ cause'[j] = "start"
    BY SMT, <2>1, <2>3
  <2>6. ContainerInv(j)' /\ CauseInv(j)'
    BY SMT, <2>1, <2>2, <2>5
  <2>7. TierInv(j)' /\ ReturnInv(j)'
    BY <1>3, <2>1, <2>2, <2>5
  <2> QED BY <1>2, <2>4, <2>6, <2>7
<1> QED BY <1>5, <1>6, <1>7, <1>8

\* What the daemon, the waiting goroutine and the helper process do.
LEMMA OutsideSteps ==
  ASSUME SandboxTypeOK, NEW j \in Job, JobSafe(j),
         WorkloadEnds(j) \/ WaitContainer(j) \/ RemovalEnds(j) \/ HelperEnds(j)
  PROVE  StepOf(j)
<1> USE DEF SandboxTypeOK, Steps, DockerSteps, VMSteps, JobSafe, ContainerInv, CauseInv,
            TierInv, ReturnInv, NeverRan, Returned, StepOf, Untouched, daemonVars, localVars,
            Present
<1>1. scenario' = scenario
  BY DEF WorkloadEnds, WaitContainer, RemovalEnds, HelperEnds
<1>2. TierOf(j)' = TierOf(j)
  BY SMT, <1>1, TierStable
<1>3. CASE WorkloadEnds(j)
  BY <1>2, <1>3 DEF WorkloadEnds
<1>4. CASE WaitContainer(j)
  <2>1. PICK v \in {"ended", "failed"} : waiter' = [waiter EXCEPT ![j] = v]
    BY SMT, <1>4 DEF WaitContainer
  <2>2. v = "ended" => container[j] # "running"
    BY SMT, <1>4, <2>1 DEF WaitContainer
  <2> QED BY <1>2, <1>4, <2>1, <2>2 DEF WaitContainer
<1>5. CASE RemovalEnds(j)
  BY <1>2, <1>5 DEF RemovalEnds
<1>6. CASE HelperEnds(j)
  <2>1. PICK v \in {"ended", "failed"} : waiter' = [waiter EXCEPT ![j] = v]
    BY SMT, <1>6 DEF HelperEnds
  <2>2. \/ v = "failed" /\ ended' = ended
        \/ ended' = [ended EXCEPT ![j] = "self"]
    BY SMT, <1>6, <2>1 DEF HelperEnds
  <2>3. waiter[j] = "waiting" /\ clone[j] # "none" /\ UNCHANGED <<pc, container, cause, clone, result>>
    BY SMT, <1>6 DEF HelperEnds
  <2>4. SandboxTypeOK' /\ \A k \in Job \ {j} : Untouched(k)
    BY <1>1, <2>1, <2>2, <2>3
  <2>5. JobSafe(j)'
    BY <1>2, <2>1, <2>2, <2>3
  <2> QED BY <1>1, <2>4, <2>5
<1> QED BY <1>3, <1>4, <1>5, <1>6

\* The selects of the two runners.
LEMMA SelectSteps ==
  ASSUME SandboxTypeOK, NEW j \in Job, JobSafe(j), Select(j) \/ SelectVM(j)
  PROVE  StepOf(j)
<1> USE DEF SandboxTypeOK, Steps, DockerSteps, VMSteps, JobSafe, ContainerInv, CauseInv,
            TierInv, ReturnInv, NeverRan, Returned, StepOf, Untouched, daemonVars, localVars,
            Present
<1>1. scenario' = scenario
  BY SMT DEF Select, SelectVM
<1>2. TierOf(j)' = TierOf(j)
  BY SMT, <1>1, TierStable
<1>3. PICK c \in Selected(j) : cause' = [cause EXCEPT ![j] = c]
  BY SMT DEF Select, SelectVM
<1>4. c \in {"ctx", "wait", "ended"} /\ (c = "ended" => waiter[j] = "ended")
  BY SMT, <1>3 DEF Selected
<1>5. CASE Select(j)
  <2>1. /\ pc[j] = "select" /\ Go(j, "stop")
        /\ UNCHANGED <<container, ended, waiter, clone, result>>
    BY SMT, <1>5 DEF Select
  <2>2. pc' \in [Job -> Steps] /\ pc'[j] = "stop" /\ \A k \in Job \ {j} : pc'[k] = pc[k]
    BY <2>1, GoStep
  <2>3. SandboxTypeOK' /\ \A k \in Job \ {j} : Untouched(k)
    BY <1>1, <1>3, <1>4, <2>1, <2>2
  <2>4. JobSafe(j)'
    BY <1>2, <1>3, <1>4, <2>1, <2>2
  <2> QED BY <1>1, <2>3, <2>4
<1>6. CASE SelectVM(j)
  <2>1. /\ pc[j] = "vm" /\ Go(j, "finalize")
        /\ UNCHANGED <<container, ended, waiter, clone, result>>
    BY SMT, <1>6 DEF SelectVM
  <2>2. pc' \in [Job -> Steps] /\ pc'[j] = "finalize" /\ \A k \in Job \ {j} : pc'[k] = pc[k]
    BY <2>1, GoStep
  <2>3. SandboxTypeOK' /\ \A k \in Job \ {j} : Untouched(k)
    BY <1>1, <1>3, <1>4, <2>1, <2>2
  <2>4. JobSafe(j)'
    BY <1>2, <1>3, <1>4, <2>1, <2>2
  <2> QED BY <1>1, <2>3, <2>4
<1> QED BY <1>5, <1>6

\* A request of cleanup reaches the container of its own job only, and kills
\* only a workload that was running.
Reached(j) ==
  /\ container' \in [Job -> {"none", "created", "running", "stopped", "removing", "gone"}]
  /\ ended' \in [Job -> {"no", "self", "killed"}]
  /\ \A k \in Job \ {j} : container'[k] = container[k] /\ ended'[k] = ended[k]
  /\ container'[j] = container[j] \/
       (container[j] # "none" /\ container'[j] \in {"stopped", "removing", "gone"})
  /\ ended'[j] = ended[j] \/ (container[j] = "running" /\ container'[j] # "running")

\* Cleanup, whatever becomes of its request, reaches its targets only.
LEMMA CleanupReach ==
  ASSUME SandboxTypeOK, NEW j \in Job,
         \/ Halted(Targets(j))
         \/ Removed({k \in Targets(j) : container[k] # "removing"}, "gone")
         \/ Removed(Targets(j), "removing")
         \/ UNCHANGED daemonVars
  PROVE  Reached(j)
<1>1. \A k \in Targets(j) : k = j /\ container[k] \in Present
  BY SMT DEF Targets, Named
<1>2. CASE Halted(Targets(j))
  BY SMT, <1>1, <1>2 DEF Halted, SandboxTypeOK, Reached
<1>3. ASSUME NEW T \in SUBSET Targets(j), NEW s \in {"gone", "removing"}, Removed(T, s)
      PROVE  Reached(j)
  BY SMT, <1>1, <1>3 DEF Removed, SandboxTypeOK, Reached, Present
<1>4. CASE UNCHANGED daemonVars
  BY SMT, <1>4 DEF daemonVars, SandboxTypeOK, Reached
<1> QED BY SMT, <1>2, <1>3, <1>4

\* A step of cleanup that goes on.
LEMMA CleanupGoesOn ==
  ASSUME SandboxTypeOK, NEW j \in Job, JobSafe(j), Reached(j),
         pc[j] \in {"stop", "kill", "remove"},
         pc' \in [Job -> Steps], pc'[j] \in {"kill", "remove", "list"},
         \A k \in Job \ {j} : pc'[k] = pc[k],
         UNCHANGED <<scenario, waiter, cause, clone, result>>
  PROVE  StepOf(j)
<1> USE DEF SandboxTypeOK, DockerSteps, VMSteps, JobSafe, StepOf, Untouched, Reached
<1>1. TierOf(j)' = TierOf(j)
  BY SMT, TierStable
<1>2. SandboxTypeOK' /\ \A k \in Job \ {j} : Untouched(k)
  OBVIOUS
<1>3. ContainerInv(j)' /\ CauseInv(j)'
  BY DEF ContainerInv, CauseInv, TierInv
<1>4. TierInv(j)' /\ ReturnInv(j)'
  BY <1>1 DEF TierInv, ReturnInv, NeverRan, Returned
<1> QED BY SMT, <1>2, <1>3, <1>4

\* A step of cleanup that returns: it has failed, or no container is listed.
LEMMA CleanupReturns ==
  ASSUME SandboxTypeOK, NEW j \in Job, JobSafe(j), Reached(j),
         pc[j] \in {"stop", "kill", "remove", "list"},
         NEW c \in CleanupEnd \ {"none"}, Return(j, cause[j], c),
         c = "ok" => container'[j] \notin Present,
         UNCHANGED <<scenario, waiter, cause, clone>>
  PROVE  StepOf(j)
<1>1. TierOf(j)' = TierOf(j)
  BY TierStable
<1>2. cause[j] \in RunEnd
  BY SMT DEF SandboxTypeOK, RunEnd
<1>3. /\ pc' \in [Job -> Steps] /\ pc'[j] = "returned"
      /\ result' \in [Job -> [run : RunEnd, cleanup : CleanupEnd]]
      /\ result'[j].run = cause[j] /\ result'[j].cleanup = c
      /\ \A k \in Job \ {j} : pc'[k] = pc[k] /\ result'[k] = result[k]
  BY <1>2, ReturnStep
<1> USE DEF SandboxTypeOK, DockerSteps, VMSteps, JobSafe, StepOf, Untouched, Reached
<1>4. SandboxTypeOK' /\ \A k \in Job \ {j} : Untouched(k)
  BY SMT, <1>3
<1>5. ContainerInv(j)' /\ CauseInv(j)'
  BY <1>3 DEF ContainerInv, CauseInv, TierInv
<1>6. TierInv(j)'
  BY SMT, <1>1, <1>3 DEF TierInv
<1>7. ReturnInv(j)'
  <2>1. clone'[j] = "none" /\ TierOf(j) \in {Docker, GVisor}
    BY SMT DEF TierInv
  <2>2. Docker # Firecracker /\ GVisor # Firecracker
    BY SMT DEF Docker, GVisor, Firecracker
  <2>3. cause[j] = "ended" => ended'[j] = "self"
    BY SMT DEF CauseInv, ContainerInv
  <2> QED BY SMT, <1>1, <1>3, <2>1, <2>2, <2>3 DEF ReturnInv, NeverRan, Returned
<1> QED BY <1>4, <1>5, <1>6, <1>7

\* The four requests of cleanup.
LEMMA CleanupSteps ==
  ASSUME SandboxTypeOK, NEW j \in Job, JobSafe(j),
         StopContainer(j) \/ KillContainer(j) \/ RemoveContainer(j) \/ VerifyCleanup(j)
  PROVE  StepOf(j)
<1>1. ASSUME NEW l \in {"stop", "kill"}, NEW n \in {"kill", "remove"}, Halt(j, l, n)
      PROVE  StepOf(j)
  <2>1. Reached(j)
    BY <1>1, CleanupReach DEF Halt
  <2>2. CASE Go(j, n) /\ UNCHANGED result
    <3>1. n \in Steps
      BY SMT DEF Steps, DockerSteps
    <3>2. pc' \in [Job -> Steps] /\ pc'[j] = n /\ \A k \in Job \ {j} : pc'[k] = pc[k]
      BY SMT, <2>2, <3>1, GoStep
    <3> QED BY <1>1, <2>1, <2>2, <3>2, CleanupGoesOn DEF Halt
  <2>3. CASE Return(j, cause[j], l)
    <3>1. l \in CleanupEnd /\ l # "ok"
      BY SMT DEF CleanupEnd
    <3> QED BY <1>1, <2>1, <2>3, <3>1, CleanupReturns DEF Halt
  <2> QED BY <1>1, <2>2, <2>3 DEF Halt
<1>2. CASE RemoveContainer(j)
  <2>1. Reached(j)
    BY <1>2, CleanupReach DEF RemoveContainer
  <2>2. CASE Go(j, "list") /\ UNCHANGED result
    <3>1. "list" \in Steps
      BY SMT DEF Steps, DockerSteps
    <3>2. pc' \in [Job -> Steps] /\ pc'[j] = "list" /\ \A k \in Job \ {j} : pc'[k] = pc[k]
      BY SMT, <2>2, <3>1, GoStep
    <3> QED BY <1>2, <2>1, <2>2, <3>2, CleanupGoesOn DEF RemoveContainer
  <2>3. CASE Return(j, cause[j], "remove")
    <3>1. "remove" \in CleanupEnd /\ "remove" # "ok"
      BY SMT DEF CleanupEnd
    <3> QED BY <1>2, <2>1, <2>3, <3>1, CleanupReturns DEF RemoveContainer
  <2>4. CASE UNCHANGED <<pc, result>>
    BY SMT, <1>2, <2>1, <2>4, CleanupGoesOn DEF RemoveContainer, SandboxTypeOK
  <2> QED BY <1>2, <2>2, <2>3, <2>4 DEF RemoveContainer
<1>3. CASE VerifyCleanup(j)
  <2>1. PICK c \in {"ok", "leaked", "verify"} :
           Return(j, cause[j], c) /\ (c = "ok" => ~Leaked(j))
    BY SMT, <1>3 DEF VerifyCleanup
  <2>2. c \in CleanupEnd
    BY SMT DEF CleanupEnd
  <2>3. c = "ok" => container'[j] \notin Present
    BY <1>3, <2>1 DEF VerifyCleanup, Leaked, Named, daemonVars
  <2>4. Reached(j)
    BY <1>3, CleanupReach DEF VerifyCleanup
  <2> QED BY <1>3, <2>1, <2>2, <2>3, <2>4, CleanupReturns DEF VerifyCleanup
<1> QED BY SMT, <1>1, <1>2, <1>3 DEF StopContainer, KillContainer

\* The clone is made, and released.
LEMMA CloneSteps ==
  ASSUME SandboxTypeOK, NEW j \in Job, JobSafe(j), prepareVM(j) \/ finalize(j)
  PROVE  StepOf(j)
<1>1. scenario' = scenario
  BY DEF prepareVM, finalize
<1>2. TierOf(j)' = TierOf(j)
  BY SMT, <1>1, TierStable
<1>3. ASSUME NEW r \in RunEnd, NEW c \in CleanupEnd, Return(j, r, c),
             pc[j] \in {"clone", "finalize"},
             r \in {"clone", cause[j]}, r = "clone" => pc[j] = "clone",
             \/ r = "clone"
             \/ pc[j] = "finalize" /\ c = "release"
             \/ pc[j] = "finalize" /\ clone' = [clone EXCEPT ![j] = "released"],
             UNCHANGED clone \/ \E s \in {"none", "present", "released"} :
               (s = "none" => pc[j] = "clone") /\ clone' = [clone EXCEPT ![j] = s],
             UNCHANGED <<container, ended, waiter, cause>>
      PROVE  StepOf(j)
  <2>1. /\ pc' \in [Job -> Steps] /\ pc'[j] = "returned"
        /\ result' \in [Job -> [run : RunEnd, cleanup : CleanupEnd]]
        /\ result'[j].run = r /\ result'[j].cleanup = c
        /\ \A k \in Job \ {j} : pc'[k] = pc[k] /\ result'[k] = result[k]
    BY <1>3, ReturnStep
  <2> USE DEF SandboxTypeOK, DockerSteps, VMSteps, JobSafe, StepOf, Untouched
  <2>2. SandboxTypeOK' /\ \A k \in Job \ {j} : Untouched(k)
    BY SMT, <1>1, <1>3, <2>1
  <2>3. ContainerInv(j)' /\ CauseInv(j)' /\ TierInv(j)'
    BY <1>2, <1>3, <2>1 DEF ContainerInv, CauseInv, TierInv
  <2>4. TierOf(j) = Firecracker
    BY SMT, <1>3 DEF TierInv
  <2>5. ReturnInv(j)'
    BY <1>2, <1>3, <2>1, <2>4 DEF ReturnInv, NeverRan, Returned, ContainerInv, CauseInv, TierInv, Present
  <2> QED BY SMT, <1>1, <2>2, <2>3, <2>5
<1>4. CASE prepareVM(j)
  <2>1. CASE /\ clone' = [clone EXCEPT ![j] = "present"]
             /\ waiter' = [waiter EXCEPT ![j] = "waiting"]
             /\ Go(j, "vm")
             /\ UNCHANGED result
    <3>1. "vm" \in Steps
      BY SMT DEF Steps, VMSteps
    <3>2. pc' \in [Job -> Steps] /\ pc'[j] = "vm" /\ \A k \in Job \ {j} : pc'[k] = pc[k]
      BY SMT, <2>1, <3>1, GoStep
    <3> USE DEF SandboxTypeOK, DockerSteps, VMSteps, JobSafe, StepOf, Untouched
    <3>3. pc[j] = "clone" /\ UNCHANGED <<container, ended, cause>>
      BY SMT, <1>4 DEF prepareVM, daemonVars
    <3>4. SandboxTypeOK' /\ \A k \in Job \ {j} : Untouched(k)
      BY <1>1, <2>1, <3>2, <3>3
    <3>5. ContainerInv(j)' /\ CauseInv(j)' /\ TierInv(j)' /\ ReturnInv(j)'
      BY <1>2, <2>1, <3>2, <3>3 DEF ContainerInv, CauseInv, TierInv, ReturnInv, NeverRan, Returned
    <3> QED BY SMT, <1>1, <3>4, <3>5
  <2>2. CASE /\ \E s \in {"none", "present"} : clone' = [clone EXCEPT ![j] = s]
             /\ Return(j, "clone", "none")
             /\ UNCHANGED waiter
    <3>1. "clone" \in RunEnd /\ "none" \in CleanupEnd
      BY SMT DEF RunEnd, CleanupEnd
    <3>2. pc[j] = "clone" /\ UNCHANGED <<container, ended, cause>>
      BY SMT, <1>4 DEF prepareVM, daemonVars
    <3> QED BY <1>3, <2>2, <3>1, <3>2
  <2> QED BY SMT, <1>4, <2>1, <2>2 DEF prepareVM
<1>5. CASE finalize(j)
  <2>1. cause[j] \in RunEnd /\ cause[j] # "clone" /\ "ok" \in CleanupEnd /\ "release" \in CleanupEnd
    BY SMT DEF SandboxTypeOK, RunEnd, CleanupEnd
  <2>2. pc[j] = "finalize" /\ UNCHANGED <<container, ended, waiter, cause>>
    BY SMT, <1>5 DEF finalize, daemonVars
  <2>3. CASE clone' = [clone EXCEPT ![j] = "released"] /\ Return(j, cause[j], "ok")
    BY <1>3, <2>1, <2>2, <2>3
  <2>4. CASE UNCHANGED clone /\ Return(j, cause[j], "release")
    BY <1>3, <2>1, <2>2, <2>4
  <2> QED BY <1>5, <2>3, <2>4 DEF finalize
<1> QED BY SMT, <1>4, <1>5

-----------------------------------------------------------------------------
\* The initial states satisfy the invariant.
LEMMA InitSandboxInv == SandboxInit => SandboxInv
<1> SUFFICES ASSUME SandboxInit PROVE SandboxInv
  OBVIOUS
<1>1. SandboxTypeOK
  BY SMT DEF SandboxInit, SandboxTypeOK, Steps, RunEnd, CleanupEnd
<1>2. \A j \in Job : JobSafe(j)
  BY SMT DEF SandboxInit, JobSafe, ContainerInv, CauseInv, TierInv, ReturnInv, NeverRan, Returned, DockerSteps, VMSteps
<1> QED BY SMT, <1>1, <1>2 DEF SandboxInv

\* Every step preserves it: each is a step of one job, and leaves the others'
\* state alone whatever names they share.
LEMMA StepSandboxInv == SandboxInv /\ [SandboxNext]_sandboxVars => SandboxInv'
<1> SUFFICES ASSUME SandboxInv, [SandboxNext]_sandboxVars PROVE SandboxInv'
  OBVIOUS
<1>1. CASE UNCHANGED sandboxVars
  <2>1. scenario' = scenario /\ \A k \in Job : Untouched(k)
    BY SMT, <1>1 DEF sandboxVars, Untouched
  <2>2. SandboxTypeOK'
    BY SMT, <1>1 DEF sandboxVars, SandboxInv, SandboxTypeOK
  <2> QED BY SMT, <2>1, <2>2, Frame DEF SandboxInv
<1>2. ASSUME NEW j \in Job, StepOf(j)
      PROVE  SandboxInv'
  <2>1. \A k \in Job \ {j} : JobSafe(k)'
    BY SMT, <1>2, Frame DEF SandboxInv, StepOf
  <2> QED BY SMT, <1>2, <2>1 DEF SandboxInv, StepOf
<1>3. ASSUME NEW j \in Job,
             \/ Execute(j) \/ Cancel(j) \/ Runner(j)
             \/ WorkloadEnds(j) \/ WaitContainer(j) \/ RemovalEnds(j) \/ HelperEnds(j)
      PROVE  StepOf(j)
  <2>1. SandboxTypeOK /\ JobSafe(j)
    BY SMT DEF SandboxInv
  <2> QED BY SMT, <1>3, <2>1, BeginSteps, LaunchSteps, OutsideSteps, SelectSteps, CleanupSteps,
             CloneSteps DEF Runner, Docks, RunsVM
<1> QED BY SMT, <1>1, <1>2, <1>3 DEF SandboxNext, Finished

\* SandboxInv is an invariant of the sandbox, for any jobs, scenarios and faults.
THEOREM SandboxInvariance == SandboxSpec => []SandboxInv
BY InitSandboxInv, StepSandboxInv, PTL DEF SandboxSpec

\* A container or clone that is left behind is reported by the error of the
\* cleanup, or was made for a request that failed and never run (runner_docker.go,
\* runner_firecracker.go: Execute).
THEOREM LeftoversAlwaysReported == SandboxSpec => []LeftoversReported
<1>1. SandboxInv => LeftoversReported
  BY DEF SandboxInv, JobSafe, ReturnInv, LeftoversReported
<1> QED BY <1>1, SandboxInvariance, PTL

\* A job reported as successful ran its workload to the workload's own end.
THEOREM SuccessAlwaysRan == SandboxSpec => []SuccessMeansRan
<1>1. SandboxInv => SuccessMeansRan
  BY SMT DEF SandboxInv, JobSafe, ReturnInv, SuccessMeansRan
<1> QED BY <1>1, SandboxInvariance, PTL
=============================================================================
