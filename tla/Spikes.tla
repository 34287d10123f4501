------------------------------- MODULE Spikes -------------------------------
(***************************************************************************)
(* Detection of write spikes: the feeder of write_shadow_file              *)
(* (tools/shadow_tools.go), the volume monitor                             *)
(* (dispatch/ast_spike_monitor.go) and the semantic filter with its        *)
(* conflict pre-warning (dispatch/ast_spike_filter.go), joined by the      *)
(* fan-out of write_event_sink.go.                                         *)
(*                                                                         *)
(* Every write runs in the goroutine of its tool call.  It reads the clock *)
(* first, then takes the monitor's lock, publishes, takes the filter's     *)
(* lock and publishes again, so the two detectors may meet writes in an    *)
(* order that is not the order of their times.  MaxLag bounds how far the  *)
(* clock runs ahead of a write that is still on its way.                   *)
(*                                                                         *)
(* The symbol of a write is its path, as the feeder has it.  The detectors *)
(* go over all their samples each time, so a list of samples is modelled   *)
(* as the set of the writes that left them.  Left out: redaction, the      *)
(* signal path and the latency fields of an event.                         *)
(***************************************************************************)
EXTENDS SpikeKinds, Sequences

CONSTANTS
  Writer,          \* the writes, one goroutine each
  Write,           \* what a write may be: [workspace, path, sig]
  Window,          \* the monitor's window
  Threshold,       \* writes in the window that make a spike
  Debounce,        \* least time between two spikes of a workspace
  MaxHotPaths,     \* paths named by a volume spike
  ConflictWindow,  \* the filter's window
  SignatureTTL,    \* how long a symbol's signature is known
  MaxConflictPeers,
  SemanticThreshold,
  WorkspaceOrder,  \* the workspaces in lexicographic order
  PathOrder,       \* the paths in lexicographic order
  MaxLag,          \* bound: how long a write may be under way
  MaxClock         \* bound

ASSUME WindowsAssumption ==
  /\ Window \in Nat \ {0} /\ Threshold \in Nat \ {0} /\ Debounce \in Nat \ {0}
  /\ ConflictWindow \in Nat \ {0} /\ SignatureTTL \in Nat \ {0}
  /\ MaxHotPaths \in Nat \ {0} /\ MaxConflictPeers \in Nat \ {0}
  /\ MaxLag \in Nat /\ MaxClock \in Nat

VARIABLES
  clock,
  write,           \* the state of each writer
  samples,         \* the writes in spikeWindow.samples of each workspace
  lastSpikeAt,     \* spikeWindow.lastSpikeAt, Never for the zero time
  signatures,      \* the filter's last signature of each path, by path
  writers,         \* the filter's recent semantic writers of each path
  published        \* the events the broker took: [topic, by]

monitorVars == <<samples, lastSpikeAt>>
filterVars == <<signatures, writers>>
spikesVars == <<clock, write, monitorVars, filterVars, published>>

Workspace == {WorkspaceOrder[i] : i \in DOMAIN WorkspaceOrder}
Path == {PathOrder[i] : i \in DOMAIN PathOrder}

ASSUME WriteAssumption == \A ev \in Write : ev.workspace \in Workspace /\ ev.path \in Path

\* The orders name each workspace and each path once.
ASSUME OrderAssumption ==
  /\ WorkspaceOrder \in Seq(Workspace) /\ PathOrder \in Seq(Path)
  /\ \A i, j \in DOMAIN WorkspaceOrder : WorkspaceOrder[i] = WorkspaceOrder[j] => i = j
  /\ \A i, j \in DOMAIN PathOrder : PathOrder[i] = PathOrder[j] => i = j

Never == -1
NoWrite == [workspace |-> WorkspaceOrder[1], path |-> PathOrder[1], sig |-> ""]

Idle == [pc |-> "idle", ev |-> NoWrite, at |-> 0, volume |-> FALSE, hot |-> <<>>,
         kind |-> "none", peers |-> {}]

At(w, pc) == write[w].pc = pc

---------------------------------------------------------------------------
(* The feeder *)

\* The sidecar has accepted the write; the event carries the time of now.
feedWriteEvent(w) ==
  /\ At(w, "idle")
  /\ \E ev \in Write :
       write' = [write EXCEPT ![w].pc = "monitor", ![w].ev = ev, ![w].at = clock]
  /\ UNCHANGED <<clock, monitorVars, filterVars, published>>

---------------------------------------------------------------------------
(* The volume monitor *)

\* The paths of a window by falling frequency, then by name, cut off at the
\* limit.
topPaths(win) ==
  LET count(p) == Cardinality({s \in win : write[s].ev.path = p})
      before(p, q) ==
        \/ count(p) > count(q)
        \/ /\ count(p) = count(q)
           /\ \E i, j \in DOMAIN PathOrder : i < j /\ PathOrder[i] = p /\ PathOrder[j] = q
      seen == {p \in Path : count(p) > 0}
      place(p) == 1 + Cardinality({q \in seen : before(q, p)})
      size == IF Cardinality(seen) > MaxHotPaths THEN MaxHotPaths ELSE Cardinality(seen)
  IN [n \in 1..size |-> CHOOSE p \in seen : place(p) = n]

\* Samples that are newer than the write are dropped as well.
MutKeptSamples(win, at) == {s \in win : write[s].at > at - Window /\ write[s].at <= at}

KeptSamples(win, at) == {s \in win : write[s].at > at - Window}

\* A write older than the last spike is not held back.
MutDebounced(last, at) == last # Never /\ at >= last /\ at - last < Debounce

Debounced(last, at) == last # Never /\ at - last < Debounce

\* record, under the monitor's lock.  A write without a spike goes on to the
\* filter; one with a spike publishes it first.
record(w) ==
  /\ At(w, "monitor")
  /\ LET ws == write[w].ev.workspace
         at == write[w].at
         win == KeptSamples(samples[ws], at) \cup {w}
         spike == Cardinality(win) >= Threshold /\ ~Debounced(lastSpikeAt[ws], at)
     IN /\ samples' = [samples EXCEPT ![ws] = win]
        /\ lastSpikeAt' = [lastSpikeAt EXCEPT ![ws] = IF spike THEN at ELSE @]
        /\ write' = [write EXCEPT ![w].volume = spike,
                                  ![w].hot = IF spike THEN topPaths(win) ELSE <<>>,
                                  ![w].pc = IF spike THEN "volume" ELSE "filter"]
  /\ UNCHANGED <<clock, filterVars, published>>

---------------------------------------------------------------------------
(* The semantic filter *)

pruneSignatures(sigs, at) ==
  [p \in {p \in DOMAIN sigs : sigs[p].at > at - SignatureTTL} |-> sigs[p]]

Recent(known, at) == {s \in known : write[s].at > at - ConflictWindow}

Precedes(x, y) ==
  \E i, j \in DOMAIN WorkspaceOrder : i < j /\ WorkspaceOrder[i] = x /\ WorkspaceOrder[j] = y

\* The first MaxConflictPeers of the sorted peers.
FirstPeers(peers) ==
  {x \in peers : Cardinality({y \in peers : Precedes(y, x)}) < MaxConflictPeers}

\* A workspace that is known as a writer is not recorded again.
MutDetectConflict(w, at) ==
  LET recent == Recent(writers[write[w].ev.path], at)
      known == {write[s].ev.workspace : s \in recent}
  IN [writers |-> IF write[w].ev.workspace \in known THEN recent ELSE recent \cup {w},
      peers |-> FirstPeers(known \ {write[w].ev.workspace})]

\* The symbol's writers after this one, and the peers to warn about.
detectConflict(w, at) ==
  LET recent == Recent(writers[write[w].ev.path], at)
      others == {write[s].ev.workspace : s \in recent} \ {write[w].ev.workspace}
  IN [writers |-> recent \cup {w}, peers |-> FirstPeers(others)]

\* classify, under the filter's lock.
classify(w) ==
  /\ At(w, "filter")
  /\ LET ev == write[w].ev
         at == write[w].at
         seen == ev.path \in DOMAIN signatures
         kind == HeuristicSemanticScorer(ev.sig, IF seen THEN signatures[ev.path].sig ELSE "", seen)
         known == [p \in DOMAIN signatures \cup {ev.path} |->
                     IF p = ev.path THEN [sig |-> ev.sig, at |-> at] ELSE signatures[p]]
         found == detectConflict(w, at)
     IN /\ signatures' = pruneSignatures(known, at)
        /\ IF rank(kind) < thresholdRank(SemanticThreshold)
           THEN /\ write' = [write EXCEPT ![w].pc = "done"]
                /\ UNCHANGED writers
           ELSE /\ write' = [write EXCEPT ![w].kind = kind, ![w].peers = found.peers,
                                          ![w].pc = "semantic"]
                /\ writers' = [writers EXCEPT ![ev.path] = found.writers]
  /\ UNCHANGED <<clock, monitorVars, published>>

---------------------------------------------------------------------------
(* Publishing *)

Put(w, topic) == published' = published \cup {[topic |-> topic, by |-> w]}

\* The fan-out goes on to the filter whether or not the broker took the spike.
PublishVolume(w) ==
  /\ At(w, "volume")
  /\ Put(w, "ast/spike") \/ UNCHANGED published
  /\ write' = [write EXCEPT ![w].pc = "filter"]
  /\ UNCHANGED <<clock, monitorVars, filterVars>>

\* A refused spike does not keep the warning from being published.
MutPublishSemantic(w) ==
  /\ At(w, "semantic")
  /\ Put(w, "ast/semantic-spike") \/ UNCHANGED published
  /\ write' = [write EXCEPT ![w].pc = IF write[w].peers = {} THEN "done" ELSE "warning"]
  /\ UNCHANGED <<clock, monitorVars, filterVars>>

\* A spike that the broker refuses ends ObserveWrite.
PublishSemantic(w) ==
  /\ At(w, "semantic")
  /\ \/ /\ Put(w, "ast/semantic-spike")
        /\ write' = [write EXCEPT ![w].pc = IF write[w].peers = {} THEN "done" ELSE "warning"]
     \/ /\ UNCHANGED published
        /\ write' = [write EXCEPT ![w].pc = "done"]
  /\ UNCHANGED <<clock, monitorVars, filterVars>>

PublishWarning(w) ==
  /\ At(w, "warning")
  /\ Put(w, "ast/conflict-warning") \/ UNCHANGED published
  /\ write' = [write EXCEPT ![w].pc = "done"]
  /\ UNCHANGED <<clock, monitorVars, filterVars>>

---------------------------------------------------------------------------

UnderWay(w) == write[w].pc \notin {"idle", "done"}

Tick ==
  /\ clock < MaxClock
  /\ \A w \in Writer : UnderWay(w) => clock - write[w].at < MaxLag
  /\ clock' = clock + 1
  /\ UNCHANGED <<write, monitorVars, filterVars, published>>

SpikesInit ==
  /\ clock = 0
  /\ write = [w \in Writer |-> Idle]
  /\ samples = [x \in Workspace |-> {}]
  /\ lastSpikeAt = [x \in Workspace |-> Never]
  /\ signatures = [p \in {} |-> NoWrite]
  /\ writers = [p \in Path |-> {}]
  /\ published = {}

WriterStep(w) ==
  \/ feedWriteEvent(w) \/ record(w) \/ PublishVolume(w)
  \/ classify(w) \/ PublishSemantic(w) \/ PublishWarning(w)

SpikesNext == Tick \/ \E w \in Writer : WriterStep(w)

SpikesSpec == SpikesInit /\ [][SpikesNext]_spikesVars

---------------------------------------------------------------------------
(* Properties *)

Recorded(ws) ==
  {w \in Writer : write[w].pc \notin {"idle", "monitor"} /\ write[w].ev.workspace = ws}

VolumeSpikes(ws) == {w \in Recorded(ws) : write[w].volume}

\* A burst never goes unnoticed: once Threshold writes of one workspace that lie
\* well inside a window have been recorded, in whatever order they took the
\* lock, the workspace has a spike within the debounce of one of them
\* (ast_spike_monitor.go: record).
NoBurstMissed ==
  \A ws \in Workspace : \A burst \in SUBSET Recorded(ws) :
    /\ Cardinality(burst) >= Threshold
    /\ \A v, w \in burst : write[v].at - write[w].at + MaxLag < Window
    => \E v \in VolumeSpikes(ws), w \in burst :
         /\ write[v].at > write[w].at - Debounce
         /\ write[v].at <= write[w].at + MaxLag

\* Two spikes of a workspace are at least the debounce apart, also when a write
\* that read the clock earlier takes the lock later (ast_spike_monitor.go: "a
\* single burst yields at most one spike per window").
SpikesDebounced ==
  \A ws \in Workspace : \A v, w \in VolumeSpikes(ws) :
    v # w /\ write[v].at >= write[w].at => write[v].at - write[w].at >= Debounce

Semantic == {w \in Writer : write[w].kind # "none"}

\* The report of w is full of workspaces that come before x.
CrowdedOut(w, x) == Cardinality({y \in write[w].peers : Precedes(y, x)}) >= MaxConflictPeers

\* Of two semantic writes of different workspaces to one symbol that lie well
\* inside the conflict window, one is reported as the other's peer, unless the
\* report names MaxConflictPeers workspaces that come before it in the sorted
\* list (ast_spike_filter.go: detectConflict).
ConflictsFound ==
  \A v, w \in Semantic :
    /\ write[v].ev.path = write[w].ev.path
    /\ write[v].ev.workspace # write[w].ev.workspace
    /\ write[v].at >= write[w].at
    /\ write[v].at - write[w].at + MaxLag < ConflictWindow
    => \/ write[v].ev.workspace \in write[w].peers \/ CrowdedOut(w, write[v].ev.workspace)
       \/ write[w].ev.workspace \in write[v].peers \/ CrowdedOut(v, write[w].ev.workspace)

\* A conflict warning on the broker comes with the semantic spike that caused
\* it, whichever publications the broker refuses (ast_spike_filter.go:
\* ObserveWrite).
WarningsExplained ==
  \A e \in published :
    e.topic = "ast/conflict-warning" =>
      [topic |-> "ast/semantic-spike", by |-> e.by] \in published
=============================================================================
