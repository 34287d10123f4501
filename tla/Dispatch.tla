------------------------------ MODULE Dispatch ------------------------------
(***************************************************************************)
(* Hardware-aware dispatch: the capability registry and its syncer         *)
(* (dispatch/capability_registry.go, capability_syncer.go), the stateful   *)
(* part of the policy engine (policy_engine_v2.go), and the three tools    *)
(* that route work through it (tools/dispatch_tools.go,                    *)
(* dispatch_hardware_aware_tools.go, sparse_agent_tools.go with its        *)
(* guardrail), up to the telemetry of a decision (telemetry.go,            *)
(* anomaly_monitor.go).                                                    *)
(*                                                                         *)
(* Each call runs in its own goroutine.  Its steps are the points where it *)
(* touches shared state: the registry's snapshot, the three loads or       *)
(* stores of the engine's autoDisabled flag, each Enqueue, each Publish.   *)
(* Every tool owns one engine; an escalation makes a fresh one without the *)
(* sparse assist, so nothing is latched in it.                             *)
(*                                                                         *)
(* The age of a capability record stands for now - LastUpdatedAt, kept at  *)
(* TTL + 1 once it is past the TTL.  Left out: what a job does once it is   *)
(* accepted (JobsManager), redaction, and the latency anomaly, which       *)
(* depends on wall-clock time only.                                        *)
(***************************************************************************)
EXTENDS PolicyEngine

CONSTANTS
  Caller,        \* goroutines that each serve one tool call
  Calls,         \* the calls each of them may be asked to serve
  HalStates,     \* what the HAL may report: sets of capability records
  Seeds,         \* what New may leave in the registry
  Plugins,       \* what the score plugin may answer
  TTL,           \* snapshot TTL, in ticks
  MaxBatch,      \* the batch tool's limit (JobQueueSize)
  HasHAL,        \* is a HAL socket configured for the escalation?
  SparseGuardrail, \* is SparseQualityGuardrailEnabled set?
  HostRAMCap,    \* the most RAM a sparse agent may ask for
  MaxEpoch       \* bound: upserts of a behaviour

IsCapability(cap) ==
  {"id", "queue", "health"} \subseteq DOMAIN cap /\ cap.id \in Provider /\ cap.queue \in Int

ASSUME SizesAssumption ==
  /\ {TTL, MaxBatch, HostRAMCap} \subseteq Nat \ {0} /\ MaxEpoch \in Nat
  /\ SparseGuardrail \in BOOLEAN
ASSUME CapabilitiesAssumption ==
  \A caps \in HalStates \cup Seeds : IsFiniteSet(caps) /\ \A cap \in caps : IsCapability(cap)
ASSUME PluginsAssumption ==
  \A plugin \in Plugins : plugin.kind = "scores" => \A p \in Provider : plugin.answers[p] \in Int

VARIABLES
  items,         \* CapabilityRegistry.items: records by provider id
  age,           \* ticks since each record was stored
  epoch,         \* CapabilityRegistry.epoch
  sync,          \* records that SyncOnce has fetched and not yet upserted
  autoDisabled,  \* PolicyEngineV2.autoDisabled of each tool's engine
  open,          \* has the job manager not been closed?
  call,          \* the state of each caller
  events,        \* decision and agent events on the broker
  agents,        \* SparseAgentRegistry
  created        \* agents that the sparse sidecar has made

registry == <<items, age, epoch>>
vars == <<registry, sync, autoDisabled, open, call, events, agents, created>>

Tool == {"batch", "hw", "sparse"}

ById(caps) == [p \in {c.id : c \in caps} |-> CHOOSE c \in caps : c.id = p]

---------------------------------------------------------------------------
(* Capability registry and syncer *)

validateCapability(cap) ==
  cap.queue >= 0 /\ cap.health \in {"healthy", "degraded", "unavailable"}

applyStaleness(cap, a) ==
  IF a > TTL /\ cap.health = "healthy" THEN [cap EXCEPT !.health = "degraded"] ELSE cap

Snapshot == [epoch |-> epoch,
             caps |-> {applyStaleness(items[p], age[p]) : p \in DOMAIN items}]

\* Only a provider that is new to the registry starts an epoch.
MutUpsert(cap) ==
  /\ epoch' = IF cap.id \in DOMAIN items THEN epoch ELSE epoch + 1
  /\ items' = [p \in DOMAIN items \cup {cap.id} |-> IF p = cap.id THEN cap ELSE items[p]]
  /\ age' = [age EXCEPT ![cap.id] = 0]

Upsert(cap) ==
  /\ epoch' = epoch + 1
  /\ items' = [p \in DOMAIN items \cup {cap.id} |-> IF p = cap.id THEN cap ELSE items[p]]
  /\ age' = [age EXCEPT ![cap.id] = 0]

\* SyncOnce has fetched; a failed fetch changes nothing.
Fetch ==
  /\ sync = {}
  /\ sync' \in {caps \in HalStates : epoch + Cardinality(caps) <= MaxEpoch}
  /\ UNCHANGED <<registry, autoDisabled, open, call, events, agents, created>>

\* One record of the fetched list, which the HAL keeps in the order of ids; an
\* invalid one is skipped.
SyncOnce ==
  /\ \E cap \in sync :
       /\ \A other \in sync \ {cap} : IdBefore(cap.id, other.id)
       /\ sync' = sync \ {cap}
       /\ IF validateCapability(cap) THEN Upsert(cap) ELSE UNCHANGED registry
  /\ UNCHANGED <<autoDisabled, open, call, events, agents, created>>

Tick ==
  /\ age' = [p \in Provider |->
               IF p \in DOMAIN items /\ age[p] <= TTL THEN age[p] + 1 ELSE age[p]]
  /\ UNCHANGED <<items, epoch, sync, autoDisabled, open, call, events, agents, created>>

---------------------------------------------------------------------------
(* Calls *)

LongContextFloor == 32768
RealtimeContextCeiling == 8192

\* The routing matrix of ProfileTask: the workload's tags and sequence label.
ProfileTask(r) ==
  IF r.context >= LongContextFloor
    THEN [tags |-> {"long-context"}, seqLen |-> r.context]
  ELSE [seqLen |-> -1,
        tags |-> IF r.latency = "realtime" /\ r.context <= RealtimeContextCeiling
                   THEN {"realtime"}
                 ELSE IF r.latency = "batch" /\ r.mechanical
                   THEN {"deterministic-edit", "inference-heavy"}
                 ELSE {"inference-heavy"}]

deriveBatchWorkloadTags(specs) ==
  {"default"} \cup ({specs[i].profile : i \in DOMAIN specs} \ {""})

\* The caller's own tags are added to those of the profile.
mergeWorkloadTags(r) == [ProfileTask(r) EXCEPT !.tags = @ \cup r.tags]

EscalationTags == {"inference-heavy", "deterministic-edit"}

\* The PolicyInput of each tool.
Input(r) ==
  CASE r.tool = "batch" -> [tags |-> deriveBatchWorkloadTags(r.specs), seqLen |-> -1]
    [] r.tool = "hw" -> mergeWorkloadTags(r)
    [] r.tool = "sparse" -> [tags |-> EscalationTags, seqLen |-> -1]

ASSUME CallsAssumption ==
  \A c \in Caller : \A r \in Calls[c] :
    r.tool \in Tool /\ IsFiniteSet(Input(r).tags) /\ Input(r).seqLen \in Int

MaxTimeoutSeconds == 3600

\* Each Execute's checks of its arguments, once their defaults are filled in,
\* before it touches anything.
AcceptsBatch(r) == Len(r.specs) \in 1..MaxBatch /\ r.timeout \in 1..MaxTimeoutSeconds

AcceptsHardwareAware(r) ==
  r.context >= 0 /\ r.latency \in {"realtime", "batch"} /\ r.quality <= 100

AcceptsSparseAgent(r) == r.maxRAM \in 1..HostRAMCap /\ r.quality <= 100

Accepts(r) ==
  CASE r.tool = "batch" -> AcceptsBatch(r)
    [] r.tool = "hw" -> AcceptsHardwareAware(r)
    [] r.tool = "sparse" -> AcceptsSparseAgent(r)

\* A quality below zero stands for none.
QualityGuardrailBreached(r, minScore) ==
  r.tool # "batch" /\ r.quality >= 0 /\ r.quality < minScore

\* The guardrail of the sparse tool is there only with the policy engine, and
\* has the configured score.
Escalates(r) ==
  SparseGuardrail /\ RawPolicy.enabled
    /\ QualityGuardrailBreached(r, RawPolicy.sparse.minQuality)

\* Sequence of items to enqueue, by whether validateDispatchSpec accepts them.
Specs(r) == IF r.tool = "batch" THEN r.specs ELSE <<[ok |-> TRUE]>>

NoSnapshot == [epoch |-> 0, caps |-> {}]

Idle == [pc |-> "idle", req |-> [tool |-> "none"], snap |-> NoSnapshot,
         late |-> FALSE, assist |-> FALSE, decision |-> baselineDecision(0, "none"),
         item |-> 1, last |-> Baseline, accepted |-> <<>>, refused |-> FALSE]

At(c, pc) == call[c].pc = pc

\* The latch is not consulted.
MutIsActive(tool) == tool # "sparse" /\ Policy.sparse.enabled

isSparseQuantizedActive(tool) ==
  tool # "sparse" /\ Policy.sparse.enabled /\ ~autoDisabled[tool]

\* late records that the engine's assist was already latched off.
Begin(c) ==
  /\ At(c, "idle")
  /\ \E r \in Calls[c] :
       call' = [call EXCEPT ![c].req = r, ![c].late = autoDisabled[r.tool],
                  ![c].pc = IF ~Accepts(r) THEN "done"
                            ELSE IF r.tool = "sparse" /\ ~Escalates(r)
                              THEN "create"
                            ELSE IF r.tool = "batch" /\ ~Policy.enabled THEN "guard"
                            ELSE "snapshot"]
  /\ UNCHANGED <<registry, sync, autoDisabled, open, events, agents, created>>

TakeSnapshot(c) ==
  /\ At(c, "snapshot")
  /\ call' = [call EXCEPT ![c].snap = Snapshot, ![c].pc = "guard"]
  /\ UNCHANGED <<registry, sync, autoDisabled, open, events, agents, created>>

DenseTags == EscalationTags \cup {"default"}

providerSupportsDenseInference(cap) == cap.tags \cap DenseTags # {}

FirstDenseGPUProvider(caps) ==
  {c \in caps : /\ c.id # Baseline /\ c.health = "healthy"
                /\ providerSupportsDenseInference(c)}

\* When the policy yields the baseline, the first dense provider by id goes in
\* front of its chain.
SelectDenseGPUEscalation(d, caps) ==
  LET dense == {c.id : c \in FirstDenseGPUProvider(caps)}
      first == CHOOSE p \in dense : \A q \in dense \ {p} : IdBefore(p, q)
  IN IF d.selected = Baseline /\ dense # {}
     THEN [d EXCEPT !.selected = first, !.chain = <<first>> \o Without(@, first),
                    !.reason = "quality_guardrail_autodisable"]
     ELSE [d EXCEPT !.reason = "quality_guardrail_autodisable"]

ForTool(r, d, caps) == IF r.tool = "sparse" THEN SelectDenseGPUEscalation(d, caps) ELSE d

Decided(c, d) ==
  LET e == ForTool(call[c].req, d, call[c].snap.caps)
  IN call' = [call EXCEPT ![c].decision = e, ![c].last = e.selected, ![c].pc = "enqueue"]

\* Select up to the guardrail: the first load of autoDisabled and, on a breach,
\* the store.
SelectGuard(c) ==
  /\ At(c, "guard")
  /\ LET tool == call[c].req.tool
         snap == call[c].snap
         none == scoreCandidates(snap.caps, Input(call[c].req).tags) = {}
         trips == /\ Policy.enabled /\ ~none /\ isSparseQuantizedActive(tool)
                  /\ QualityGuardrailBreached(call[c].req, Policy.sparse.minQuality)
         reason == IF ~Policy.enabled THEN "feature_disabled"
                   ELSE IF none THEN "no_eligible_provider"
                   ELSE "quality_guardrail_autodisable"
     IN /\ autoDisabled' = [autoDisabled EXCEPT ![tool] = @ \/ trips]
        /\ IF ~Policy.enabled \/ none \/ trips
             THEN Decided(c, baselineDecision(snap.epoch, reason))
             ELSE call' = [call EXCEPT ![c].pc = "assist"]
  /\ UNCHANGED <<registry, sync, open, events, agents, created>>

\* The second load: is the sparse assist applied to this call?
SelectAssist(c) ==
  /\ At(c, "assist")
  /\ call' = [call EXCEPT ![c].assist = isSparseQuantizedActive(call[c].req.tool),
                          ![c].pc = "reason"]
  /\ UNCHANGED <<registry, sync, autoDisabled, open, events, agents, created>>

\* The rest of Select, with the third load.
SelectReason(c) ==
  /\ At(c, "reason")
  /\ \E plugin \in Plugins :
       \E ranked \in {Ranked(Candidates(call[c].snap, Input(call[c].req), call[c].assist, plugin))} :
         Decided(c, Decide(ranked, call[c].snap, Input(call[c].req), call[c].assist,
                           autoDisabled[call[c].req.tool], plugin))
  /\ UNCHANGED <<registry, sync, autoDisabled, open, events, agents, created>>

---------------------------------------------------------------------------
(* Enqueueing *)

Refusal == IF open THEN "capacity_exhausted" ELSE "unavailable"

\* The batch tool emits its decision whatever was accepted, the hardware-aware
\* tool returns its error before that, and an escalation emits nothing.
Emits(r, accepted) == r.tool = "batch" \/ (r.tool = "hw" /\ accepted # <<>>)

\* The batch tool hops only with the policy enabled, an escalation never.
HopsOnRefusal(r) == r.tool = "hw" \/ (r.tool = "batch" /\ Policy.enabled)

\* After item: the next one, or the end of Execute.
NextItem(c, accepted) ==
  LET r == call[c].req IN
  IF call[c].item < Len(Specs(r)) THEN "enqueue"
  ELSE IF Emits(r, accepted) THEN "emit"
  ELSE "done"

\* The escalation returns without a job when no HAL is configured.
Enqueues(r) == r.tool # "sparse" \/ HasHAL

Accept(c) ==
  /\ open
  /\ LET accepted == Append(call[c].accepted, call[c].last)
     IN call' = [call EXCEPT ![c].accepted = accepted, ![c].refused = FALSE,
                             ![c].item = @ + 1, ![c].pc = NextItem(c, accepted)]

\* refused records that the manager refused an item after the last it accepted.
Skip(c, refused) ==
  call' = [call EXCEPT ![c].refused = refused, ![c].item = @ + 1,
                       ![c].pc = NextItem(c, call[c].accepted)]

InvalidItem(c) ==
  /\ At(c, "enqueue")
  /\ ~Specs(call[c].req)[call[c].item].ok \/ ~Enqueues(call[c].req)
  /\ Skip(c, call[c].refused)
  /\ UNCHANGED <<registry, sync, autoDisabled, open, events, agents, created>>

Enqueue(c) ==
  /\ At(c, "enqueue")
  /\ Specs(call[c].req)[call[c].item].ok /\ Enqueues(call[c].req)
  /\ Accept(c)
  /\ UNCHANGED <<registry, sync, autoDisabled, open, events, agents, created>>

\* The manager refuses: its queue is full or it is closed.  One hop down the
\* chain, which later items keep, or the item is rejected.
EnqueueRefused(c) ==
  /\ At(c, "enqueue")
  /\ Specs(call[c].req)[call[c].item].ok /\ Enqueues(call[c].req)
  /\ LET r == call[c].req
         hop == FallbackOnFailure(call[c].decision, call[c].last, Refusal)
     IN IF HopsOnRefusal(r) /\ hop.selected # call[c].last
        THEN call' = [call EXCEPT ![c].decision = hop, ![c].last = hop.selected,
                                  ![c].pc = "retry"]
        ELSE Skip(c, TRUE)
  /\ UNCHANGED <<registry, sync, autoDisabled, open, events, agents, created>>

Retry(c) ==
  /\ At(c, "retry")
  /\ Accept(c) \/ Skip(c, TRUE)
  /\ UNCHANGED <<registry, sync, autoDisabled, open, events, agents, created>>

CloseManager ==
  /\ open
  /\ open' = FALSE
  /\ UNCHANGED <<registry, sync, autoDisabled, call, events, agents, created>>

---------------------------------------------------------------------------
(* Telemetry *)

DecisionEvent(c) == [kind |-> "decision", by |-> c, provider |-> call[c].decision.selected,
                     chain |-> call[c].decision.chain]

\* The event names the provider that was selected first.
MutEmitDecision(c) ==
  /\ At(c, "emit")
  /\ events' = events \cup {[DecisionEvent(c) EXCEPT !.provider = call[c].decision.chain[1]]}
  /\ call' = [call EXCEPT ![c].pc = "observe"]
  /\ UNCHANGED <<registry, sync, autoDisabled, open, agents, created>>

\* EmitDecision publishes the decision; the broker may refuse it, and then
\* nothing more is published.
EmitDecision(c) ==
  /\ At(c, "emit")
  /\ \/ /\ events' = events \cup {DecisionEvent(c)}
        /\ call' = [call EXCEPT ![c].pc = "observe"]
     \/ /\ call' = [call EXCEPT ![c].pc = "done"]
        /\ UNCHANGED events
  /\ UNCHANGED <<registry, sync, autoDisabled, open, agents, created>>

\* The anomaly monitor: a chain of more than one provider counts as a fallback.
ObserveDecision(c) ==
  /\ At(c, "observe")
  /\ call' = [call EXCEPT ![c].pc = "done"]
  /\ \/ /\ Len(call[c].decision.chain) > 1
        /\ events' = events \cup {[DecisionEvent(c) EXCEPT !.kind = "fallback_engaged"]}
     \/ UNCHANGED events
  /\ UNCHANGED <<registry, sync, autoDisabled, open, agents, created>>

---------------------------------------------------------------------------
(* Sparse micro-agents *)

\* The sidecar makes the agent; the reply may be lost, and then the tool
\* reports an error.
CreateAgent(c) ==
  /\ At(c, "create")
  /\ \/ created' = created \cup {c} /\ call' = [call EXCEPT ![c].pc = "register"]
     \/ created' \in {created, created \cup {c}} /\ call' = [call EXCEPT ![c].pc = "done"]
  /\ UNCHANGED <<registry, sync, autoDisabled, open, events, agents>>

RegisterAgent(c) ==
  /\ At(c, "register")
  /\ agents' = agents \cup {c}
  /\ call' = [call EXCEPT ![c].pc = "telemetry"]
  /\ UNCHANGED <<registry, sync, autoDisabled, open, events, created>>

PublishAgent(c) ==
  /\ At(c, "telemetry")
  /\ events' \in {events, events \cup {[kind |-> "agent", by |-> c]}}
  /\ call' = [call EXCEPT ![c].pc = "done"]
  /\ UNCHANGED <<registry, sync, autoDisabled, open, agents, created>>

---------------------------------------------------------------------------

\* After New: the baseline and either what the first sync found or the static
\* catalog.
Init ==
  /\ \E seed \in Seeds : items = ById(seed) /\ epoch = Cardinality(seed)
  /\ age = [p \in Provider |-> 0]
  /\ sync = {}
  /\ autoDisabled = [t \in Tool |-> FALSE]
  /\ open = TRUE
  /\ call = [c \in Caller |-> Idle]
  /\ events = {} /\ agents = {} /\ created = {}

CallStep(c) ==
  \/ TakeSnapshot(c) \/ SelectGuard(c) \/ SelectAssist(c) \/ SelectReason(c)
  \/ InvalidItem(c) \/ Enqueue(c) \/ EnqueueRefused(c) \/ Retry(c)
  \/ EmitDecision(c) \/ ObserveDecision(c)
  \/ CreateAgent(c) \/ RegisterAgent(c) \/ PublishAgent(c)

Next ==
  \/ Fetch \/ SyncOnce \/ Tick \/ CloseManager
  \/ \E c \in Caller : Begin(c) \/ CallStep(c)

Spec == Init /\ [][Next]_vars

---------------------------------------------------------------------------
(* Properties *)

Chosen(c) == call[c].pc \in {"enqueue", "retry", "emit", "observe", "done"}

\* Once a quality breach has latched the engine of the hardware-aware tool, no
\* later call of it is ranked with the sparse assist or trips the guardrail
\* again (policy_engine_v2.go: shouldAutoDisableSparseQuantized, Select).
AutoDisableSticks ==
  \A c \in Caller :
    call[c].req.tool = "hw" /\ call[c].late =>
      /\ ~call[c].assist
      /\ call[c].decision.reason \notin {"quality_guardrail_autodisable",
                                         "sparse_quantized_assist_selected"}

SameUnlessAged(a, b) ==
  \/ a = b
  \/ /\ [a EXCEPT !.health = ""] = [b EXCEPT !.health = ""]
     /\ {a.health, b.health} = {"healthy", "degraded"}

\* Two calls whose snapshots carry the same epoch saw the same records, but for
\* one that has gone stale in between: an epoch in a decision event names one content of
\* the registry (capability_registry.go: "deterministic, replay-friendly view").
SameEpochSameView ==
  \A c, d \in Caller :
    call[c].snap.epoch = call[d].snap.epoch =>
      \A a \in call[c].snap.caps : \E b \in call[d].snap.caps : SameUnlessAged(a, b)

\* The tags of which a provider must support one; an escalation also takes a
\* provider of default workloads.
Wanted(r) == IF r.tool = "sparse" THEN DenseTags ELSE Input(r).tags

Usable(r, caps, p) ==
  \/ p = Baseline
  \/ \E cap \in caps : /\ cap.id = p /\ cap.health # "unavailable"
                      /\ cap.tags \cap Wanted(r) # {}

\* Every accepted job runs on a provider that its call's snapshot showed usable
\* for the workload, or on the baseline, however many hops the batch made.
JobsOnEligibleProviders ==
  \A c \in Caller : \A i \in DOMAIN call[c].accepted :
    Usable(call[c].req, call[c].snap.caps, call[c].accepted[i])

\* What a decision event says of the provider: it has taken the last job that the
\* call placed.  The batch tool may have placed none, or may have been refused an
\* item after that, and then the provider of the last attempt is named.
NamesProvider(u, provider) ==
  \/ u.req.tool = "batch" /\ (u.accepted = <<>> \/ u.refused)
  \/ u.accepted # <<>> /\ provider = u.accepted[Len(u.accepted)]

\* A decision event names the provider that took the last job of its call, and
\* its chain has the provider of every job that the call placed; an anomaly
\* follows the event of its decision, and an agent's event is on the broker only
\* when the registry can resolve the agent (dispatch_tools.go: Execute).
EventsTellWhatHappened ==
  \A e \in events :
    /\ e.kind # "agent" =>
         /\ NamesProvider(call[e.by], e.provider)
         /\ \A i \in DOMAIN call[e.by].accepted : \E j \in DOMAIN e.chain :
              call[e.by].accepted[i] = e.chain[j]
    /\ e.kind = "fallback_engaged" => [e EXCEPT !.kind = "decision"] \in events
    /\ e.kind = "agent" => e.by \in agents /\ e.by \in created

\* A task with a long context goes to an SSM provider that its snapshot showed
\* healthy (profiler.go: "LongContextFloor is the context size at or above which
\* SSM (linear context scaling) routing applies regardless of latency intent").
LongContextGoesToSSM ==
  \A c \in Caller :
    LET r == call[c].req IN
    /\ r.tool = "hw" /\ Chosen(c) /\ r.quality < 0
    /\ r.context >= LongContextFloor
    /\ \E cap \in call[c].snap.caps :
         cap.health = "healthy" /\ "ssm" \in cap.flags /\ "long-context" \in cap.tags
    => \E cap \in call[c].snap.caps :
         "ssm" \in cap.flags /\ \E i \in DOMAIN call[c].decision.chain :
                                  call[c].decision.chain[i] = cap.id
=============================================================================
