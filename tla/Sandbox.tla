------------------------------ MODULE Sandbox ------------------------------
(***************************************************************************)
(* The sandbox package: the body of a dispatched job runs one workload in  *)
(* a container or a microVM.  The tier router chooses the runner from the  *)
(* job's profile and the server's policy; the Docker runner (and gVisor,   *)
(* which is Docker with the runsc runtime) creates, starts, waits for and  *)
(* cleans up a container; the Firecracker runner clones a snapshot         *)
(* directory, runs a helper process on it and releases the clone.          *)
(*                                                                         *)
(* The Docker daemon and the file system are external: they carry out a    *)
(* request or fail it, with or without its effect.  A container's name is  *)
(* built from the agent role and the workspace of the job, so concurrent   *)
(* jobs may ask for the same name.                                         *)
(***************************************************************************)
EXTENDS Naturals, FiniteSets

CONSTANTS
  Job,
  Scenario,        \* what the jobs ask for and how the host is set up
  CleanupRetries,  \* attempts to remove a container
  MaxFaults        \* bound: requests that fail

ASSUME RetriesAssumption == CleanupRetries \in Nat \ {0} /\ MaxFaults \in Nat

Docker == "docker-trusted"
GVisor == "gvisor-fast-ephemeral"
Firecracker == "firecracker-secure-isolation"
ValidSandboxProfiles == {Docker, GVisor, Firecracker}
Refused == "refused"

ASSUME RunnerAssumption == \A s \in Scenario : s.runner \in {"router"} \cup ValidSandboxProfiles

VARIABLES
  scenario,   \* the scenario of this run
  pc,         \* where Execute of a job is
  ctx,        \* "live", or "done" once cancelled or timed out
  container,  \* what the daemon holds for the job's request
  ended,      \* history: how the job's workload ended
  waiter,     \* the goroutine in WaitContainer, or the one running the helper
  cause,      \* what the select of Execute found
  tries,      \* attempts to remove the container
  clone,      \* the snapshot clone's directory
  result,     \* what Execute returned
  faults

sandboxVars == <<scenario, pc, ctx, container, ended, waiter, cause, tries, clone, result, faults>>

daemonVars == <<container, ended>>
localVars == <<waiter, cause, tries, clone, result>>

NameOf(j) == scenario.name[j]

\* The containers of the daemon that hold the name n.
Present == {"created", "running", "stopped", "removing"}
Named(n) == {j \in Job : NameOf(j) = n /\ container[j] \in Present}

\* A daemon request, or a file operation, that fails.
Fault == faults < MaxFaults /\ faults' = faults + 1
NoFault == UNCHANGED faults

SandboxInit ==
  /\ scenario \in Scenario
  /\ pc = [j \in Job |-> "idle"]
  /\ ctx = [j \in Job |-> "live"]
  /\ container = [j \in Job |-> "none"]
  /\ ended = [j \in Job |-> "no"]
  /\ waiter = [j \in Job |-> "none"]
  /\ cause = [j \in Job |-> "none"]
  /\ tries = [j \in Job |-> 0]
  /\ clone = [j \in Job |-> "none"]
  /\ result = [j \in Job |-> [run |-> "none", cleanup |-> "none"]]
  /\ faults = 0

Go(j, l) == pc' = [pc EXCEPT ![j] = l]

\* Execute returns: what the run ended with, and what its cleanup ended with.
Return(j, run, cleanup) ==
  /\ Go(j, "returned")
  /\ result' = [result EXCEPT ![j] = [run |-> run, cleanup |-> cleanup]]

-----------------------------------------------------------------------------
(***************************************************************************)
(* The tier router                                                         *)
(***************************************************************************)
resolveDockerTrusted ==
  IF scenario.allowDockerTrusted /\ scenario.dockerWired THEN Docker ELSE GVisor

resolveFirecracker ==
  IF scenario.degradedMode \/ ~scenario.firecrackerWired THEN GVisor ELSE Firecracker

resolve(requested) ==
  CASE requested = "" -> GVisor
    [] requested \notin ValidSandboxProfiles -> Refused
    [] requested = Docker -> resolveDockerTrusted
    [] requested = GVisor -> GVisor
    [] requested = Firecracker -> resolveFirecracker

\* The server wires one runner, or the router over all of them.
TierOf(j) ==
  IF scenario.runner = "router" THEN resolve(scenario.profile[j]) ELSE scenario.runner

FirstStep(tier) ==
  CASE tier = Refused -> "refuse"
    [] tier = Docker -> "create"
    [] tier = GVisor -> "runtime"
    [] tier = Firecracker -> "preflight"

\* The job manager runs the body of the job.
Execute(j) ==
  /\ pc[j] = "idle"
  /\ Go(j, FirstStep(TierOf(j)))
  /\ UNCHANGED <<scenario, ctx, daemonVars, localVars, faults>>

Refuse(j) ==
  /\ pc[j] = "refuse"
  /\ Return(j, "profile", "none")
  /\ UNCHANGED <<scenario, ctx, daemonVars, waiter, cause, tries, clone, faults>>

\* The job is cancelled, or its deadline passes.
Cancel(j) ==
  /\ pc[j] \notin {"idle", "returned"}
  /\ ctx[j] = "live"
  /\ ctx' = [ctx EXCEPT ![j] = "done"]
  /\ UNCHANGED <<scenario, pc, daemonVars, localVars, faults>>

-----------------------------------------------------------------------------
(***************************************************************************)
(* The Docker runner, and gVisor on top of it                              *)
(***************************************************************************)

\* A request made with the job's context fails when the daemon fails it or
\* when the context is done.
RequestFails(j) == IF ctx[j] = "done" THEN NoFault ELSE Fault

\* gVisor asks the daemon for its runtimes before each execution.
ensureRuntime(j) ==
  /\ pc[j] = "runtime"
  /\ \/ ctx[j] = "live" /\ scenario.runsc /\ NoFault /\ Go(j, "create") /\ UNCHANGED result
     \/ (RequestFails(j) \/ (~scenario.runsc /\ NoFault)) /\ Return(j, "runtime", "none")
  /\ UNCHANGED <<scenario, ctx, daemonVars, waiter, cause, tries, clone>>

CreateContainer(j) ==
  /\ pc[j] = "create"
  /\ ctx[j] = "live"
  /\ NoFault
  /\ IF Named(NameOf(j)) = {}
       THEN /\ container' = [container EXCEPT ![j] = "created"]
            /\ Go(j, "start")
            /\ UNCHANGED result
       ELSE Return(j, "create", "none") /\ UNCHANGED container
  /\ UNCHANGED <<scenario, ctx, ended, waiter, cause, tries, clone>>

\* The create timeout passes, the context is done or the daemon fails: the
\* runner returns without an id, and the daemon may have made the container.
CreateFails(j) ==
  /\ pc[j] = "create"
  /\ RequestFails(j)
  /\ \E made \in BOOLEAN :
        /\ made => Named(NameOf(j)) = {}
        /\ container' = [container EXCEPT ![j] = IF made THEN "created" ELSE @]
  /\ Return(j, "create", "none")
  /\ UNCHANGED <<scenario, ctx, ended, waiter, cause, tries, clone>>

\* The container is started, and a goroutine waits for it on a context of
\* its own.
StartContainer(j) ==
  /\ pc[j] = "start"
  /\ ctx[j] = "live"
  /\ NoFault
  /\ container' = [container EXCEPT ![j] = "running"]
  /\ waiter' = [waiter EXCEPT ![j] = "waiting"]
  /\ Go(j, "select")
  /\ UNCHANGED <<scenario, ctx, ended, cause, tries, clone, result>>

StartFails(j) ==
  /\ pc[j] = "start"
  /\ RequestFails(j)
  /\ \E s \in {"created", "running"} : container' = [container EXCEPT ![j] = s]
  /\ cause' = [cause EXCEPT ![j] = "start"]
  /\ Go(j, "stop")
  /\ UNCHANGED <<scenario, ctx, ended, waiter, tries, clone, result>>

\* The workload ends by itself; it need not.
WorkloadEnds(j) ==
  /\ container[j] = "running"
  /\ container' = [container EXCEPT ![j] = "stopped"]
  /\ ended' = [ended EXCEPT ![j] = "self"]
  /\ UNCHANGED <<scenario, pc, ctx, localVars, faults>>

\* The goroutine would block for ever if its channel had no room.
MutWaitContainer(j) ==
  /\ waiter[j] = "waiting" /\ container[j] # "none"
  /\ pc[j] = "select"
  /\ container[j] # "running"
  /\ waiter' = [waiter EXCEPT ![j] = "ended"]
  /\ UNCHANGED <<scenario, pc, ctx, daemonVars, cause, tries, clone, result, faults>>

\* WaitContainer answers once the container is not running; it fails when the
\* container is gone before it asks, or when the daemon fails.  The answer goes
\* into a channel of one slot.
WaitContainer(j) ==
  /\ waiter[j] = "waiting" /\ container[j] # "none"
  /\ \/ /\ container[j] # "running" /\ NoFault
        /\ \E v \in IF container[j] = "gone" THEN {"ended", "failed"} ELSE {"ended"} :
              waiter' = [waiter EXCEPT ![j] = v]
     \/ container[j] = "running" /\ Fault /\ waiter' = [waiter EXCEPT ![j] = "failed"]
  /\ UNCHANGED <<scenario, pc, ctx, daemonVars, cause, tries, clone, result>>

\* The select forgets the context.
MutSelected(j) ==
  {c \in {"ctx", "wait", "ended"} :
     \/ c = "wait" /\ waiter[j] = "failed"
     \/ c = "ended" /\ waiter[j] = "ended"}

\* The cases of the select that are ready.
Selected(j) ==
  {c \in {"ctx", "wait", "ended"} :
     \/ c = "ctx" /\ ctx[j] = "done"
     \/ c = "wait" /\ waiter[j] = "failed"
     \/ c = "ended" /\ waiter[j] = "ended"}

\* The select takes a ready case; logs are collected and cleanup begins.
Select(j) ==
  /\ pc[j] = "select"
  /\ \E c \in Selected(j) : cause' = [cause EXCEPT ![j] = c]
  /\ Go(j, "stop")
  /\ UNCHANGED <<scenario, ctx, daemonVars, waiter, tries, clone, result, faults>>

-----------------------------------------------------------------------------
(***************************************************************************)
(* cleanup: stop, kill, remove with retries, and a list by name            *)
(***************************************************************************)

\* What runs under the job's container name is acted on as well.
MutTargets(j) == {k \in Named(NameOf(j)) : k = j \/ container[k] = "running"}

\* The container a request of the job's cleanup acts on: by id.
Targets(j) == {j} \cap Named(NameOf(j))

\* The daemon halts the running containers among T.
Halted(T) ==
  /\ container' = [k \in Job |-> IF k \in T /\ container[k] = "running" THEN "stopped" ELSE container[k]]
  /\ ended' = [k \in Job |-> IF k \in T /\ container[k] = "running" THEN "killed" ELSE ended[k]]

\* Stop or kill at label l: an answer that the container is absent or not
\* running is ignored; any other failure ends the cleanup.
Halt(j, l, next) ==
  /\ pc[j] = l
  /\ \/ NoFault /\ Halted(Targets(j)) /\ Go(j, next) /\ UNCHANGED result
     \/ Fault /\ (Halted(Targets(j)) \/ UNCHANGED daemonVars) /\ Return(j, cause[j], l)
  /\ UNCHANGED <<scenario, ctx, waiter, cause, tries, clone>>

StopContainer(j) == Halt(j, "stop", "kill")
KillContainer(j) == Halt(j, "kill", "remove")

\* A container that was still running is killed by the forced removal.
Removed(T, s) ==
  /\ container' = [k \in Job |-> IF k \in T THEN s ELSE container[k]]
  /\ ended' = [k \in Job |-> IF k \in T /\ container[k] = "running" THEN "killed" ELSE ended[k]]

\* An absent container, and one whose removal is in progress, count as
\* removed.  A failed attempt may have begun the removal.
RemoveContainer(j) ==
  /\ pc[j] = "remove"
  /\ \/ /\ NoFault
        /\ Removed({k \in Targets(j) : container[k] # "removing"}, "gone")
        /\ Go(j, "list")
        /\ UNCHANGED <<tries, result>>
     \/ /\ Fault
        /\ Removed(Targets(j), "removing") \/ UNCHANGED daemonVars
        /\ tries' = [tries EXCEPT ![j] = @ + 1]
        /\ IF tries[j] + 1 = CleanupRetries THEN Return(j, cause[j], "remove")
                                             ELSE UNCHANGED <<pc, result>>
  /\ UNCHANGED <<scenario, ctx, waiter, cause, clone>>

\* The daemon completes a removal it began.
RemovalEnds(j) ==
  /\ container[j] = "removing"
  /\ container' = [container EXCEPT ![j] = "gone"]
  /\ UNCHANGED <<scenario, pc, ctx, ended, localVars, faults>>

\* The list is not looked at.
MutLeaked(j) == FALSE

\* Some container of that name is listed.
Leaked(j) == Named(NameOf(j)) # {}

VerifyCleanup(j) ==
  /\ pc[j] = "list"
  /\ \/ NoFault /\ Return(j, cause[j], IF Leaked(j) THEN "leaked" ELSE "ok")
     \/ Fault /\ Return(j, cause[j], "verify")
  /\ UNCHANGED <<scenario, ctx, daemonVars, waiter, cause, tries, clone>>

-----------------------------------------------------------------------------
(***************************************************************************)
(* The Firecracker runner                                                  *)
(***************************************************************************)

\* The binaries and the KVM device are looked for before each execution.
Preflight(j) ==
  /\ pc[j] = "preflight"
  /\ IF scenario.kvm THEN Go(j, "clone") /\ UNCHANGED result
                     ELSE Return(j, "preflight", "none")
  /\ UNCHANGED <<scenario, ctx, daemonVars, waiter, cause, tries, clone, faults>>

\* The template and the clone are directories; the launch of the helper's VM
\* object cannot fail, and the helper runs in a goroutine.  A clone whose
\* template reference cannot be written keeps its directory.
prepareVM(j) ==
  /\ pc[j] = "clone"
  /\ \/ /\ NoFault
        /\ clone' = [clone EXCEPT ![j] = "present"]
        /\ waiter' = [waiter EXCEPT ![j] = "waiting"]
        /\ Go(j, "vm")
        /\ UNCHANGED result
     \/ /\ Fault
        /\ \E s \in {"none", "present"} : clone' = [clone EXCEPT ![j] = s]
        /\ Return(j, "clone", "none")
        /\ UNCHANGED waiter
  /\ UNCHANGED <<scenario, ctx, daemonVars, cause, tries>>

\* The helper process ends by itself, or is killed with its context; the
\* outcome goes into a channel of one slot.
HelperEnds(j) ==
  /\ waiter[j] = "waiting" /\ clone[j] # "none"
  /\ IF ctx[j] = "done"
       THEN waiter' = [waiter EXCEPT ![j] = "failed"] /\ UNCHANGED ended
       ELSE /\ \E v \in {"ended", "failed"} : waiter' = [waiter EXCEPT ![j] = v]
            /\ ended' = [ended EXCEPT ![j] = "self"]
  /\ UNCHANGED <<scenario, pc, ctx, container, cause, tries, clone, result, faults>>

SelectVM(j) ==
  /\ pc[j] = "vm"
  /\ \E c \in Selected(j) : cause' = [cause EXCEPT ![j] = c]
  /\ Go(j, "finalize")
  /\ UNCHANGED <<scenario, ctx, daemonVars, waiter, tries, clone, result, faults>>

\* Shutdown and Cleanup of the helper's VM do nothing; the clone is released.
finalize(j) ==
  /\ pc[j] = "finalize"
  /\ \/ NoFault /\ clone' = [clone EXCEPT ![j] = "released"] /\ Return(j, cause[j], "ok")
     \/ Fault /\ UNCHANGED clone /\ Return(j, cause[j], "release")
  /\ UNCHANGED <<scenario, ctx, daemonVars, waiter, cause, tries>>

-----------------------------------------------------------------------------
Docks(j) ==
  \/ ensureRuntime(j) \/ CreateContainer(j) \/ CreateFails(j)
  \/ StartContainer(j) \/ StartFails(j) \/ Select(j)
  \/ StopContainer(j) \/ KillContainer(j) \/ RemoveContainer(j) \/ VerifyCleanup(j)

RunsVM(j) == Preflight(j) \/ prepareVM(j) \/ SelectVM(j) \/ finalize(j)

\* The steps of a job's goroutine once its body runs.
Runner(j) == Refuse(j) \/ Docks(j) \/ RunsVM(j)

AllReturned == \A j \in Job : pc[j] = "returned"
Finished == AllReturned /\ UNCHANGED sandboxVars

SandboxNext ==
  \/ \E j \in Job :
        \/ Execute(j) \/ Cancel(j)
        \/ Runner(j)
        \/ WorkloadEnds(j) \/ WaitContainer(j) \/ RemovalEnds(j) \/ HelperEnds(j)
  \/ Finished

\* Goroutines run on; the daemon answers requests and completes removals; the
\* kernel kills a helper whose context is done.  A workload may run for ever
\* and nobody need cancel it.
Fairness ==
  \A j \in Job :
    /\ WF_sandboxVars(Runner(j))
    /\ WF_sandboxVars(WaitContainer(j) /\ container[j] # "running")
    /\ WF_sandboxVars(RemovalEnds(j))
    /\ WF_sandboxVars(HelperEnds(j) /\ ctx[j] = "done")

SandboxSpec == SandboxInit /\ [][SandboxNext]_sandboxVars /\ Fairness

-----------------------------------------------------------------------------
(***************************************************************************)
(* Properties                                                              *)
(***************************************************************************)
Returned(j) == pc[j] = "returned"

\* Nothing of the job was started, and nothing waits for it.
NeverRan(j) == waiter[j] = "none" /\ container[j] \in {"none", "created"}

\* What a job leaves behind is reported.  When Execute has returned and the
\* job's container is still in the daemon, or its clone still on disk, the
\* error is the cleanup's.  The one exception is what was made for a request
\* that failed (its cleanup is nobody's): then the error is that request's, and
\* the container was never started, the clone never run.  A removal that the
\* daemon has only begun counts as removed to the retry loop; the list by name
\* is what catches it.
LeftoversReported ==
  \A j \in Job :
    Returned(j) /\ (container[j] \in Present \/ clone[j] = "present") =>
      \/ result[j].cleanup \notin {"none", "ok"}
      \/ result[j].run \in {"create", "clone"} /\ NeverRan(j)

\* A job that returned without error ran its workload to the workload's own
\* end, in the tier the router chose, whatever jobs of the same container name
\* were created, cancelled and cleaned up meanwhile: cleanup acts on the
\* container's id and never stops another job's container.
SuccessMeansRan ==
  \A j \in Job :
    Returned(j) /\ result[j].run = "ended" =>
      /\ ended[j] = "self"
      /\ (TierOf(j) = Firecracker) <=> (clone[j] # "none")

\* Execute of a cancelled or timed out job returns, even when the workload
\* never ends by itself.
ExecuteReturns == \A j \in Job : ctx[j] = "done" ~> Returned(j)

\* No goroutine is left waiting for a workload whose Execute has returned and
\* cleaned up.
WaitersEnd ==
  \A j \in Job : Returned(j) /\ result[j].cleanup = "ok" ~> waiter[j] # "waiting"
=============================================================================
