--------------------------- MODULE RolloutService ---------------------------
(***************************************************************************)
(* The rollout service behind the REST handlers (rollout/service.go,       *)
(* api_handler.go, node_registry.go, evaluator_registry.go, client.go):    *)
(* tasks and their sessions, trajectory groups built from the sidecar's    *)
(* one capture queue, and the executor nodes with their assignments.       *)
(*                                                                         *)
(* A caller is the goroutine of one HTTP request; the call it serves is    *)
(* drawn with the workload.  A task is named after the caller that made    *)
(* it.  Everything between two holds of the service's lock, and every      *)
(* drain, is a step of its own.  The stages of the gateway are those of    *)
(* RolloutGateway; here a session it was given is assigned to a node and   *)
(* then reports.                                                           *)
(*                                                                         *)
(* Left out: the reward events that fill a status answer, the callback     *)
(* address, prefix statistics, and error texts.                            *)
(***************************************************************************)
EXTENDS Trajectory

CONSTANTS
  Caller,
  Workload,      \* records [calls, builder]: what the callers ask for
  SessionName,   \* the session ids drawn for each caller's task, in order
  Record,        \* the completion records, in the order they are captured
  Node,          \* node ids, as naturals: their order is the code's
  Gateway,       \* TRUE if a gateway is attached
  Plugins,       \* enabled evaluator plugins, sorted by id
  MaxSamples,    \* maxNumSamples
  QueueCapacity, \* records the sidecar's queue holds
  DrainLimit,    \* records a drain asks for
  MaxAge,        \* heartbeats older than this are stale
  MaxClock, MaxFaults  \* bounds

ASSUME LimitsAssumption ==
  /\ QueueCapacity \in Nat
  /\ MaxSamples \in Nat \ {0} /\ DrainLimit \in Nat \ {0} /\ MaxAge \in Nat
  /\ MaxClock \in Nat /\ MaxFaults \in Nat /\ Node \subseteq Nat

\* Request ids are unique.
ASSUME RecordAssumption ==
  /\ Record \in Seq(CompletionRecord)
  /\ \A i, j \in DOMAIN Record : Record[i].id = Record[j].id => i = j

IsGroup(g) == g = [chains |-> g.chains, records |-> g.records, rewards |-> g.rewards,
                   partial |-> g.partial, none |-> g.none]

\* What a trainer posts comes from elsewhere than the capture queue; the chains
\* in it are not looked at.
ASSUME WorkloadAssumption ==
  \A w \in Workload : \A c \in Caller :
    LET o == w.calls[c]
    IN /\ o.op = "submit" => o.num \in Int
       /\ o.op = "offline" => o.sources \in Seq(Range(o.sources))
       /\ o.op = "complete" => IsGroup(o.group) /\ o.group.chains = <<>> /\ o.group.records = {}
       /\ o.op \in {"register", "heartbeat"} => o.node \in Node

VARIABLES
  workload,      \* the calls of this behaviour and the builder's settings
  call,          \* the callers
  tasks,         \* Service.tasks
  session,       \* gateway sessions by id: [task, stage, group, timedOut]
  captured,      \* number of records captured so far
  capture,       \* the sidecar's queue
  nodes,         \* Service.nodes
  registry,      \* NodeRegistry.nodes: time of the last heartbeat
  assignments,   \* NodeRegistry.assignments by task
  nextIdx,       \* NodeRegistry.lastAssignedIdx
  recent,        \* history: nodes assigned since the registry last changed
  reaping,       \* nodes the reaper has removed from the registry only
  clock, faults

taskVars == <<tasks, session>>
captureVars == <<captured, capture>>
nodeVars == <<nodes, registry, assignments, nextIdx, recent, reaping>>
vars == <<workload, call, taskVars, captureVars, nodeVars, clock, faults>>

NoGroup == [chains |-> <<>>, records |-> {}, rewards |-> <<>>, partial |-> 0, none |-> TRUE]
Group(chains, records) ==
  [chains |-> chains, records |-> records, rewards |-> <<>>, partial |-> 0, none |-> FALSE]

Op(c) == workload.calls[c]
At(c, pc, ops) == call[c].pc = pc /\ Op(c).op \in ops
Goto(c, pc) == call' = [call EXCEPT ![c].pc = pc]
Carry(c, pc, group) == call' = [call EXCEPT ![c].pc = pc, ![c].group = group]

\* m[k] = v in a map.
Put(m, k, v) == [x \in DOMAIN m \cup {k} |-> IF x = k THEN v ELSE m[x]]

\* Tasks of more than one session keep a group per session.
Multi(task) == task.num > 1
Done(task) == Cardinality(DOMAIN task.groups) >= task.num

---------------------------------------------------------------------------
(* The capture queue and the client *)

\* try_enqueue: the sidecar captures the next completion, and drops it if the
\* queue is full.
Capture ==
  /\ captured < Len(Record)
  /\ captured' = captured + 1
  /\ capture' = IF Len(capture) < QueueCapacity THEN Append(capture, Record[captured + 1])
                ELSE capture
  /\ UNCHANGED <<workload, call, taskVars, nodeVars, clock, faults>>

Take == IF Len(capture) < DrainLimit THEN Len(capture) ELSE DrainLimit
Drained == SubSeq(capture, 1, Take)

\* One queue for all sessions: whoever drains gets the oldest records.
DrainCapture == capture' = SubSeq(capture, Take + 1, Len(capture)) /\ UNCHANGED captured

\* The group a drain gives; a failed call may have emptied the queue or not.
BuildFromDrainWithConfig(taskStrategy) ==
  Group(assembleTrajectoryGroup(Drained, workload.builder, taskStrategy), Range(Drained))

DrainSucceeds(group) ==
  /\ DrainCapture
  /\ ValidateTrajectoryGroup(group.chains)
  /\ UNCHANGED faults

DrainFails ==
  /\ faults < MaxFaults /\ faults' = faults + 1
  /\ DrainCapture \/ UNCHANGED captureVars

---------------------------------------------------------------------------
(* Tasks *)

normalizeBuilderStrategy(s) == s \in {"", "per_request", "prefix_merge"}

NewTask(num, sessions, strategy, offline) ==
  [status |-> "running", num |-> num, sessions |-> sessions, failed |-> FALSE,
   group |-> NoGroup, groups |-> [s \in {} |-> 0], partials |-> {},
   strategy |-> strategy, offline |-> offline]

\* resolvePrefixKey: a prewarm that fails refuses the task.
resolvePrefixKey(c, refused) ==
  IF refused THEN Op(c).prewarm /\ faults < MaxFaults /\ faults' = faults + 1
  ELSE UNCHANGED faults

NumSamples(c) == IF Op(c).num <= 0 THEN 1 ELSE Op(c).num
SessionIDs(c) ==
  IF NumSamples(c) = 1 THEN <<c>> ELSE [i \in 1..NumSamples(c) |-> SessionName[c][i]]

SubmitTask(c) ==
  /\ At(c, "start", {"submit"})
  /\ \E refused \in BOOLEAN :
       /\ resolvePrefixKey(c, refused)
       /\ IF /\ NumSamples(c) <= MaxSamples /\ normalizeBuilderStrategy(Op(c).strategy)
             /\ ~refused
          THEN /\ tasks' = Put(tasks, c, NewTask(NumSamples(c), SessionIDs(c), Op(c).strategy, FALSE))
               /\ Goto(c, IF Gateway THEN "gateway" ELSE "done")
          ELSE Goto(c, "done") /\ UNCHANGED tasks
  /\ UNCHANGED <<workload, session, captureVars, nodeVars, clock>>

\* StartSession, one session after the other.
startGatewaySessions(c) ==
  /\ At(c, "gateway", {"submit"})
  /\ LET i == call[c].i + 1
         s == tasks[c].sessions[i]
     IN /\ session' = Put(session, s, [task |-> c, stage |-> "ready", group |-> NoGroup,
                                      timedOut |-> FALSE])
        /\ call' = [call EXCEPT ![c].i = i,
                      ![c].pc = IF i = Len(tasks[c].sessions) THEN "done" ELSE "gateway"]
  /\ UNCHANGED <<workload, tasks, captureVars, nodeVars, clock, faults>>

GenerateOfflineTask(c) ==
  /\ At(c, "start", {"offline"})
  /\ LET sources == Op(c).sources
     IN IF Len(sources) \in 1..MaxSamples /\ normalizeBuilderStrategy(Op(c).strategy)
        THEN /\ tasks' = Put(tasks, c, NewTask(Len(sources), sources, Op(c).strategy, TRUE))
             /\ Goto(c, "offlineDrain")
        ELSE Goto(c, "done") /\ UNCHANGED tasks
  /\ UNCHANGED <<workload, session, captureVars, nodeVars, clock, faults>>

markTaskFailed(task) == [task EXCEPT !.status = "failed", !.failed = TRUE]

\* The drain for the next source session.
OfflineDrain(c) ==
  /\ At(c, "offlineDrain", {"offline"})
  /\ \/ LET group == BuildFromDrainWithConfig(tasks[c].strategy)
        IN /\ DrainSucceeds(group)
           /\ call' = [call EXCEPT ![c].pc = "complete", ![c].group = group, ![c].i = call[c].i + 1]
           /\ UNCHANGED tasks
     \/ /\ DrainFails
        /\ tasks' = [tasks EXCEPT ![c] = markTaskFailed(@)]
        /\ Goto(c, "snapshot")
  /\ UNCHANGED <<workload, session, nodeVars, clock>>

---------------------------------------------------------------------------
(* CompleteSession, for a callback and for an offline source *)

CompletedTask(c) == IF Op(c).op = "offline" THEN c ELSE Op(c).task
CompletedSession(c) ==
  IF Op(c).op = "offline" THEN Op(c).sources[call[c].i] ELSE Op(c).session

\* AttachEvaluations: one reward per plugin, appended; none at all if a plugin
\* failed.
ApplyEvaluations(group, failed) ==
  IF group.none \/ failed THEN group ELSE [group EXCEPT !.rewards = @ \o Plugins]

\* The task is looked up and the plugins run, outside the lock.  Their error is
\* not looked at; the built-in plugins return none, a registered one may.
EvaluateSession(c) ==
  /\ \E failed \in BOOLEAN :
       /\ IF failed THEN Plugins # <<>> /\ faults < MaxFaults /\ faults' = faults + 1
          ELSE UNCHANGED faults
       /\ \/ /\ At(c, "start", {"complete"})
             /\ failed => Op(c).task \in DOMAIN tasks /\ ~Op(c).group.none
             /\ Carry(c, IF Op(c).task \in DOMAIN tasks THEN "apply" ELSE "done",
                      ApplyEvaluations(Op(c).group, failed))
          \/ /\ At(c, "complete", {"offline"})
             /\ Carry(c, "apply", ApplyEvaluations(call[c].group, failed))
  /\ UNCHANGED <<workload, taskVars, captureVars, nodeVars, clock>>

\* A partial result is kept before the session id is looked at.
WithPartial(task, group) ==
  IF group.partial = 0 THEN task
  ELSE [task EXCEPT !.partials = IF Multi(task) THEN @ \cup {group.partial} ELSE {group.partial}]

\* The last session's report is not enough.
MutReported(task) == IF Cardinality(DOMAIN task.groups) > task.num
                     THEN [task EXCEPT !.status = "completed"] ELSE task

Reported(task) == IF Done(task) THEN [task EXCEPT !.status = "completed"] ELSE task

CompleteSession(task, s, group) ==
  LET kept == WithPartial(task, group)
  IN IF ~Multi(task)
     THEN [kept EXCEPT !.status = "completed", !.group = IF group.none THEN @ ELSE group]
     ELSE IF s \notin Range(task.sessions) THEN kept
     ELSE Reported([kept EXCEPT !.groups = Put(@, s, group)])

AfterReport(c) ==
  IF Op(c).op = "complete" THEN "done"
  ELSE IF call[c].i < Len(Op(c).sources) THEN "offlineDrain" ELSE "snapshot"

ApplySession(c) ==
  /\ At(c, "apply", {"complete", "offline"})
  /\ LET t == CompletedTask(c)
     IN tasks' = [tasks EXCEPT ![t] = CompleteSession(@, CompletedSession(c), call[c].group)]
  /\ Carry(c, AfterReport(c), NoGroup)
  /\ UNCHANGED <<workload, session, captureVars, nodeVars, clock, faults>>

---------------------------------------------------------------------------
(* GetTask *)

ReadTask(c) == IF Op(c).op = "offline" THEN c ELSE Op(c).task

readTrajectorySummaries(task) ==
  LET reported(n) == task.sessions[n] \in DOMAIN task.groups
      out[n \in 0..Len(task.sessions)] ==
        IF n = 0 THEN <<>>
        ELSE IF reported(n) THEN out[n - 1] \o summariesFromGroup(task.groups[task.sessions[n]].chains)
        ELSE out[n - 1]
  IN IF Multi(task) THEN out[Len(task.sessions)] ELSE summariesFromGroup(task.group.chains)

\* The snapshot under the read lock: a single-session task that has no
\* trajectory yet is built now.
GetTask(c) ==
  /\ At(c, "start", {"get"}) \/ At(c, "snapshot", {"offline"})
  /\ LET t == ReadTask(c)
         build == /\ t \in DOMAIN tasks
                  /\ readTrajectorySummaries(tasks[t]) = <<>>
                  /\ tasks[t].group.none /\ ~Multi(tasks[t])
     IN Goto(c, IF build THEN "drain" ELSE "done")
  /\ UNCHANGED <<workload, taskVars, captureVars, nodeVars, clock, faults>>

\* Without the lock; a drain that gives no chain is dropped.
GetTaskDrain(c) ==
  /\ At(c, "drain", {"get", "offline"})
  /\ \/ LET group == BuildFromDrainWithConfig(tasks[ReadTask(c)].strategy)
        IN /\ DrainSucceeds(group)
           /\ IF group.chains = <<>> THEN Goto(c, "done") ELSE Carry(c, "store", group)
     \/ DrainFails /\ Goto(c, "done")
  /\ UNCHANGED <<workload, taskVars, nodeVars, clock>>

\* The group that arrived in the meantime is replaced.
MutGetTaskStore(c) ==
  /\ At(c, "store", {"get", "offline"})
  /\ tasks' = [tasks EXCEPT ![ReadTask(c)].group = call[c].group]
  /\ Carry(c, "done", NoGroup)
  /\ UNCHANGED <<workload, session, captureVars, nodeVars, clock, faults>>

GetTaskStore(c) ==
  /\ At(c, "store", {"get", "offline"})
  /\ LET t == ReadTask(c)
     IN tasks' = IF tasks[t].group.none THEN [tasks EXCEPT ![t].group = call[c].group] ELSE tasks
  /\ Carry(c, "done", NoGroup)
  /\ UNCHANGED <<workload, session, captureVars, nodeVars, clock, faults>>

---------------------------------------------------------------------------
(* Nodes *)

\* The position in the round is not moved.
MutSelected(active) == active[1]

\* getActiveNodesLocked sorts by id; the index runs on whoever is registered.
Selected(active) == active[(nextIdx % Len(active)) + 1]

getActiveNodesLocked ==
  Ordered(DOMAIN registry, {mn \in (DOMAIN registry) \X (DOMAIN registry) : mn[1] < mn[2]})

\* AssignTask: one assignment is kept per task, the last session's.
AssignTask(t, s) ==
  IF DOMAIN registry = {} THEN UNCHANGED <<assignments, nextIdx, recent>>
  ELSE LET n == Selected(getActiveNodesLocked)
       IN /\ assignments' = Put(assignments, t, [session |-> s, node |-> n])
          /\ nextIdx' = nextIdx + 1
          /\ recent' = Append(recent, n)

RegisterNode(c) ==
  /\ At(c, "start", {"register"})
  /\ nodes' = nodes \cup {Op(c).node}
  /\ Goto(c, "registry")
  /\ UNCHANGED <<workload, taskVars, captureVars, registry, assignments, nextIdx, recent,
                 reaping, clock, faults>>

\* The second half of RegisterNode, after the service's lock is released.
RegistryRegister(c) ==
  /\ At(c, "registry", {"register"})
  /\ registry' = Put(registry, Op(c).node, clock)
  /\ recent' = IF Op(c).node \in DOMAIN registry THEN recent ELSE <<>>
  /\ Goto(c, "done")
  /\ UNCHANGED <<workload, taskVars, captureVars, nodes, assignments, nextIdx, reaping, clock, faults>>

HeartbeatNode(c) ==
  /\ At(c, "start", {"heartbeat"})
  /\ LET n == Op(c).node
     IN registry' = IF n \in nodes \cap DOMAIN registry THEN [registry EXCEPT ![n] = clock]
                    ELSE registry
  /\ Goto(c, "done")
  /\ UNCHANGED <<workload, taskVars, captureVars, nodes, assignments, nextIdx, recent, reaping,
                 clock, faults>>

DeregisterStaleNodes ==
  LET stale == {n \in DOMAIN registry : clock - registry[n] > MaxAge}
  IN /\ reaping = {} /\ stale # {}
     /\ registry' = [n \in DOMAIN registry \ stale |-> registry[n]]
     /\ recent' = <<>>
     /\ reaping' = stale
     /\ UNCHANGED <<workload, call, taskVars, captureVars, nodes, assignments, nextIdx, clock, faults>>

\* The reaper goes on to the service's own map.
StartStaleNodeReaper ==
  /\ reaping # {}
  /\ nodes' = nodes \ reaping
  /\ reaping' = {}
  /\ UNCHANGED <<workload, call, taskVars, captureVars, registry, assignments, nextIdx, recent,
                 clock, faults>>

Tick ==
  /\ clock < MaxClock
  /\ clock' = clock + 1
  /\ UNCHANGED <<workload, call, taskVars, captureVars, nodeVars, faults>>

---------------------------------------------------------------------------
(* The gateway's sessions *)

\* dispatchReady: the assignment is best effort.
assignTaskToNode(s) ==
  /\ session[s].stage = "ready"
  /\ AssignTask(session[s].task, s)
  /\ session' = [session EXCEPT ![s].stage = "running"]
  /\ UNCHANGED <<workload, call, tasks, captureVars, nodes, registry, reaping, clock, faults>>

Outcome(k, group, late) == [k EXCEPT !.stage = "report", !.group = group, !.timedOut = late]

\* partialTraceFromClient: an empty group if nothing could be drained.
capturePostRun(s) ==
  /\ session[s].stage = "running"
  /\ \E late \in BOOLEAN :
       \/ LET group == BuildFromDrainWithConfig(tasks[session[s].task].strategy)
          IN /\ DrainSucceeds(group)
             /\ session' = [session EXCEPT ![s] = Outcome(@, group, late)]
       \/ /\ DrainFails
          /\ session' = [session EXCEPT ![s] = Outcome(@, Group(<<>>, {}), late)]
  /\ UNCHANGED <<workload, call, tasks, nodeVars, clock>>

applyTerminalStatus(task, late) ==
  IF Multi(task)
  THEN IF late THEN [task EXCEPT !.status = "failed", !.failed = TRUE] ELSE Reported(task)
  ELSE [task EXCEPT !.status = IF late THEN "failed" ELSE "completed", !.failed = @ \/ late]

storeSessionGroup(task, s, group) ==
  IF Multi(task) THEN [task EXCEPT !.groups = Put(@, s, group)] ELSE [task EXCEPT !.group = group]

ApplySessionOutcome(s) ==
  /\ session[s].stage = "report"
  /\ tasks' = [tasks EXCEPT ![session[s].task] =
                 applyTerminalStatus(storeSessionGroup(@, s, session[s].group), session[s].timedOut)]
  /\ session' = [session EXCEPT ![s] = [@ EXCEPT !.stage = "done", !.group = NoGroup]]
  /\ UNCHANGED <<workload, call, captureVars, nodeVars, clock, faults>>

---------------------------------------------------------------------------
Init ==
  /\ workload \in Workload
  /\ call = [c \in Caller |-> [pc |-> "start", i |-> 0, group |-> NoGroup]]
  /\ tasks = [t \in {} |-> 0]
  /\ session = [s \in {} |-> 0]
  /\ captured = 0
  /\ capture = <<>>
  /\ nodes = {}
  /\ registry = [n \in {} |-> 0]
  /\ assignments = [t \in {} |-> 0]
  /\ nextIdx = 0
  /\ recent = <<>>
  /\ reaping = {}
  /\ clock = 0
  /\ faults = 0

Next ==
  \/ Capture \/ Tick \/ DeregisterStaleNodes \/ StartStaleNodeReaper
  \/ \E c \in Caller :
       \/ SubmitTask(c) \/ startGatewaySessions(c) \/ GenerateOfflineTask(c) \/ OfflineDrain(c)
       \/ EvaluateSession(c) \/ ApplySession(c)
       \/ GetTask(c) \/ GetTaskDrain(c) \/ GetTaskStore(c)
       \/ RegisterNode(c) \/ RegistryRegister(c) \/ HeartbeatNode(c)
  \/ \E s \in DOMAIN session :
       assignTaskToNode(s) \/ capturePostRun(s) \/ ApplySessionOutcome(s)

Spec == Init /\ [][Next]_vars

---------------------------------------------------------------------------
(* Properties *)

\* Where groups are stored: on a task, or for a session of it.
Stored ==
  {<<"task", t>> : t \in DOMAIN tasks}
    \cup UNION {{<<"report", t, s>> : s \in DOMAIN tasks[t].groups} : t \in DOMAIN tasks}
StoredGroup(p) == IF p[1] = "task" THEN tasks[p[2]].group ELSE tasks[p[2]].groups[p[3]]

\* A stored group trains on each of its drained records once, after exactly the
\* prompt the model was given, and on nothing else, whichever builder made it;
\* and no record is in two groups, although every session, status read and
\* offline task drains the same queue (trajectory.go, trajectory_builder.go,
\* client.go: BuildFromDrainWithConfig).
GroupsFaithful ==
  /\ \A p \in Stored : Faithful(StoredGroup(p).chains, StoredGroup(p).records)
  /\ \A p, q \in Stored : p # q => StoredGroup(p).records \cap StoredGroup(q).records = {}

\* A status read that drained the queue never replaces the group a session has
\* reported meanwhile (service.go: GetTask reads the task again under the lock).
ReadsKeepReports ==
  [][\A c \in Caller : call[c].pc = "store" /\ call'[c].pc = "done" =>
       \A t \in DOMAIN tasks : ~tasks[t].group.none => tasks'[t].group = tasks[t].group]_vars

\* FleetStatus: the sessions of running tasks that have not reported.
FleetStatus ==
  LET running == {t \in DOMAIN tasks : tasks[t].status = "running"}
      open(t) == IF Multi(tasks[t]) /\ DOMAIN tasks[t].groups # {}
                 THEN tasks[t].num - Cardinality(DOMAIN tasks[t].groups) ELSE tasks[t].num
  IN [t \in running |-> open(t)]

\* A running task is still waiting for a session: it counts at least one open
\* session, and, if its session ids differ, as many as have not reported, whether
\* reports come by callback, from the gateway, or from an offline source
\* (service.go: CompleteSession, FleetStatus; gateway_session.go:
\* ApplySessionOutcome).
RunningMeansWaiting ==
  \A t \in DOMAIN FleetStatus :
    /\ FleetStatus[t] >= 1
    /\ Multi(tasks[t]) /\ IsInjective(tasks[t].sessions) =>
         FleetStatus[t] = Cardinality({i \in DOMAIN tasks[t].sessions :
                                         tasks[t].sessions[i] \notin DOMAIN tasks[t].groups})

\* As long as the nodes stay the same, sessions are dealt out in turn: no node
\* gets a second one before every other has had one (node_registry.go:
\* AssignTask, getActiveNodesLocked).
AssignedInTurn ==
  \A i, j \in DOMAIN recent :
    i < j /\ j - i < Cardinality(DOMAIN registry) => recent[i] # recent[j]

\* The comment on GenerateOfflineTask says the task is completed when all source
\* sessions have been assembled (service.go:164).
OfflineTaskCompletes ==
  \A c \in Caller :
    (Op(c).op = "offline" /\ call[c].pc = "done" /\ c \in DOMAIN tasks /\ ~tasks[c].failed)
      => tasks[c].status = "completed"
=============================================================================
