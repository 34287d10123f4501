--------------------------- MODULE RolloutGateway ---------------------------
(***************************************************************************)
(* The staged rollout gateway (orchestrator/internal/rollout/gateway.go,   *)
(* gateway_session.go) with the part of the rollout service that its       *)
(* sessions and their trainers change: the status of a task, and which of  *)
(* its sessions have been reported, with a trajectory group or without.    *)
(*                                                                         *)
(* A session is handed from goroutine to goroutine: SubmitTask's caller    *)
(* sends it to the INIT pool, an INIT worker to the ready queue, the       *)
(* dispatcher to the RUNNING pool, a RUNNING worker to the POSTRUN pool,   *)
(* and a POSTRUN worker applies its outcome.  place[s] says who has it.    *)
(*                                                                         *)
(* Left out: the assignment of an executor node, whose result              *)
(* dispatchReady ignores; the evaluator's prewarm, a goroutine nobody waits *)
(* for; and what a trajectory group contains.                              *)
(***************************************************************************)
EXTENDS Naturals, Sequences, FiniteSets

CONSTANTS
  Task,          \* the tasks that clients submit
  Session,       \* all their sessions
  Sessions,      \* [Task -> Seq(Session)]: the sessions of each, in order
  InitWorkers, RunWorkers, PostWorkers, ReadyBuffer,   \* GatewayConfig
  RunHook,       \* is SessionHooks.Run installed?
  Callbacks      \* the sets of sessions whose trainers may post a result

SeqRange(q) == {q[i] : i \in DOMAIN q}

SessionsOf == [t \in Task |-> SeqRange(Sessions[t])]

ASSUME SessionsAssumption ==
  /\ Sessions \in [Task -> Seq(Session)]
  /\ \A s \in Session : \E t \in Task : s \in SessionsOf[t]
  /\ \A t, u \in Task : t # u => SessionsOf[t] \cap SessionsOf[u] = {}
  /\ \A t \in Task : Cardinality(SessionsOf[t]) = Len(Sessions[t])

ASSUME SizesAssumption ==
  /\ {InitWorkers, RunWorkers, PostWorkers, ReadyBuffer} \subseteq Nat \ {0}
  /\ RunHook \in BOOLEAN
  /\ Callbacks \subseteq SUBSET Session

VARIABLES
  status,    \* Task.Status ("none" before the task exists)
  reported,  \* keys of Task.SessionGroups; the session of a completed single-sample task
  groups,    \* sessions whose TrajectoryGroup is stored on their task
  place,     \* where each session is
  queue,     \* the channels of the four stages
  dispatcher,\* is dispatchReady still looping?
  expired,   \* running sessions whose deadline has passed
  timedOut,  \* sessions whose run was reported as timed out
  closing,   \* how far Close has come
  crashed,   \* a send on a closed channel has ended the process
  posting,   \* sessions whose trainer may yet post its result
  emptied    \* sessions whose trainer posted no trajectory

service == <<status, reported, groups, posting, emptied>>
stages == <<place, queue, dispatcher, expired, timedOut>>
gatewayVars == <<service, stages, closing, crashed>>

Stage == {"init", "ready", "run", "post"}
Place == {"none", "todo", "sendInit", "initQ", "init", "readyQ", "dispatch",
          "sendRun", "runQ", "run", "ran", "sendPost", "postQ", "post",
          "done", "dropped"}

Max2(a, b) == IF a > b THEN a ELSE b

Workers == [init |-> InitWorkers, run |-> RunWorkers, post |-> PostWorkers]

\* newStagePool: a queue is never shorter than its pool.
Capacity == [p \in Stage |->
  IF p = "ready" THEN ReadyBuffer ELSE Max2(Workers[p], ReadyBuffer)]

\* The places in which a worker of the pool is busy with the session.
Busy == [init |-> {"init"}, run |-> {"run", "ran", "sendPost"}, post |-> {"post"}]

AtWork(p) == {s \in Session : place[s] \in Busy[p]}

TaskOf == [s \in Session |-> CHOOSE t \in Task : s \in SessionsOf[t]]

Move(s, from, to) ==
  /\ ~crashed
  /\ place[s] = from
  /\ place' = [place EXCEPT ![s] = to]

---------------------------------------------------------------------------
(* Close *)

CloseStep == <<"open", "cancelled", "init", "run", "post", "ready", "closed">>

\* The steps from the given one on.
From == [step \in SeqRange(CloseStep) |->
  {CloseStep[j] : j \in {j \in DOMAIN CloseStep :
                          \E i \in 1..j : CloseStep[i] = step}}]

Reached(step) == closing \in From[step]

Cancelled == Reached("cancelled")

\* close(queue) of the stage has happened.
Closed(p) == Reached(p)

\* stagePool.close's wg.Wait: the queue is drained and every worker is back.
PoolDrained(p) == queue[p] = <<>> /\ AtWork(p) = {}

\* The RUNNING pool's workers are not waited for.
MutClose ==
  /\ ~crashed
  /\ \/ closing = "open" /\ closing' = "cancelled"
     \/ closing = "cancelled" /\ closing' = "init"
     \/ closing = "init" /\ PoolDrained("init") /\ closing' = "run"
     \/ closing = "run" /\ closing' = "post"
     \/ closing = "post" /\ PoolDrained("post") /\ closing' = "ready"
     \/ closing = "ready" /\ ~dispatcher /\ closing' = "closed"
  /\ UNCHANGED <<service, stages, crashed>>

\* Each step marks one thing closed, once the previous stage has drained; the
\* pool's closed flag is set together with the close of its queue.
Close ==
  /\ ~crashed
  /\ \/ closing = "open" /\ closing' = "cancelled"
     \/ closing = "cancelled" /\ closing' = "init"
     \/ closing = "init" /\ PoolDrained("init") /\ closing' = "run"
     \/ closing = "run" /\ PoolDrained("run") /\ closing' = "post"
     \/ closing = "post" /\ PoolDrained("post") /\ closing' = "ready"
     \/ closing = "ready" /\ ~dispatcher /\ closing' = "closed"
  /\ UNCHANGED <<service, stages, crashed>>

---------------------------------------------------------------------------
(* stagePool and the channels between the stages *)

\* select { case queue <- s: ; case <-rootCtx.Done(): }, in which a send on a
\* closed channel panics.
Send(s, from, p, to) ==
  \/ /\ ~Closed(p)
     /\ Len(queue[p]) < Capacity[p]
     /\ Move(s, from, to)
     /\ queue' = [queue EXCEPT ![p] = Append(@, s)]
     /\ UNCHANGED crashed
  \/ /\ Cancelled
     /\ Move(s, from, "dropped")
     /\ UNCHANGED <<queue, crashed>>
  \/ /\ Closed(p)
     /\ Move(s, from, "dropped")
     /\ crashed' = TRUE
     /\ UNCHANGED queue

\* A goroutine of the pool receives the next job; a closed queue is drained.
Receive(p, to) ==
  /\ queue[p] # <<>>
  /\ Cardinality(AtWork(p)) < Workers[p]
  /\ Move(Head(queue[p]), place[Head(queue[p])], to)
  /\ queue' = [queue EXCEPT ![p] = Tail(@)]

---------------------------------------------------------------------------
(* The clients: SubmitTask and the trainer's callback *)

AcceptTask(t) ==
  /\ ~crashed
  /\ status[t] = "none"
  /\ status' = [status EXCEPT ![t] = "running"]
  /\ place' = [s \in Session |-> IF s \in SessionsOf[t] THEN "todo" ELSE place[s]]
  /\ UNCHANGED <<reported, groups, posting, emptied, queue, dispatcher, expired, timedOut,
                 closing, crashed>>

\* startGatewaySessions starts the sessions in order, each when the send of
\* the one before has returned.  A closed gateway ignores the session.
StartSession(s) ==
  LET ids == Sessions[TaskOf[s]] IN
  /\ \A i, j \in DOMAIN ids :
       i < j /\ ids[j] = s => place[ids[i]] \notin {"todo", "sendInit"}
  /\ Move(s, "todo", IF closing = "open" THEN "sendInit" ELSE "dropped")
  /\ UNCHANGED <<service, queue, dispatcher, expired, timedOut,
                 closing, crashed>>

SubmitInit(s) ==
  /\ Send(s, "sendInit", "init", "initQ")
  /\ UNCHANGED <<service, dispatcher, expired, timedOut, closing>>

\* CompleteSession.  A trainer may post no trajectory: the session of several
\* samples then has its key without a group, in place of the one it may have had;
\* the task of a single sample is completed with the group it has, if any.
TrainerCallback(s) ==
  LET t == TaskOf[s] IN
  /\ ~crashed
  /\ s \in posting
  /\ status[t] # "none"
  /\ posting' = posting \ {s}
  /\ reported' = reported \cup {s}
  /\ \/ groups' = groups \cup {s} /\ UNCHANGED emptied
     \/ /\ groups' = IF Len(Sessions[t]) > 1 THEN groups \ {s} ELSE groups
        /\ emptied' = emptied \cup {s}
  /\ status' = [status EXCEPT ![t] =
       IF SessionsOf[t] \subseteq reported' THEN "completed" ELSE @]
  /\ UNCHANGED <<stages, closing, crashed>>

---------------------------------------------------------------------------
(* The stages *)

TakeInit ==
  /\ Receive("init", "init")
  /\ UNCHANGED <<service, dispatcher, expired, timedOut, closing, crashed>>

RunInit(s) ==
  /\ Send(s, "init", "ready", "readyQ")
  /\ UNCHANGED <<service, dispatcher, expired, timedOut, closing>>

\* dispatchReady's select; it has one job at a time.
DispatchReady ==
  /\ ~crashed
  /\ dispatcher
  /\ \A s \in Session : place[s] \notin {"dispatch", "sendRun"}
  /\ \/ /\ queue["ready"] # <<>>
        /\ Move(Head(queue["ready"]), "readyQ", "dispatch")
        /\ queue' = [queue EXCEPT !["ready"] = Tail(@)]
        /\ UNCHANGED dispatcher
     \/ /\ Cancelled
        /\ dispatcher' = FALSE
        /\ UNCHANGED <<place, queue>>
  /\ UNCHANGED <<service, expired, timedOut, closing, crashed>>

\* stagePool.submit looks at the closed flag before it selects.
CheckRun(s) ==
  /\ Move(s, "dispatch", IF Closed("run") THEN "dropped" ELSE "sendRun")
  /\ UNCHANGED <<service, queue, dispatcher, expired, timedOut,
                 closing, crashed>>

SubmitRun(s) ==
  /\ Send(s, "sendRun", "run", "runQ")
  /\ UNCHANGED <<service, dispatcher, expired, timedOut, closing>>

TakeRun ==
  /\ Receive("run", "run")
  /\ UNCHANGED <<service, dispatcher, expired, timedOut, closing, crashed>>

\* The deadline is set only when there is no hook to pass it to.
MutExpire(s) ==
  /\ ~crashed
  /\ ~Cancelled
  /\ ~RunHook
  /\ place[s] = "run"
  /\ s \notin expired
  /\ expired' = expired \cup {s}
  /\ UNCHANGED <<service, place, queue, dispatcher, timedOut, closing, crashed>>

\* SessionTimeout passes before the gateway is closed.
Expire(s) ==
  /\ ~crashed
  /\ ~Cancelled
  /\ place[s] = "run"
  /\ s \notin expired
  /\ expired' = expired \cup {s}
  /\ UNCHANGED <<service, place, queue, dispatcher, timedOut, closing, crashed>>

\* executeRun.  A hook returns when it likes, with or without an error; without
\* a hook the run lasts until its context is done.  Only an error after the
\* deadline counts as a timeout.
ExecuteRun(s) ==
  \E failed \in BOOLEAN :
    /\ RunHook \/ (failed /\ (s \in expired \/ Cancelled))
    /\ Move(s, "run", "ran")
    /\ timedOut' = IF failed /\ s \in expired THEN timedOut \cup {s} ELSE timedOut
    /\ UNCHANGED <<service, queue, dispatcher, expired, closing, crashed>>

CheckPost(s) ==
  /\ Move(s, "ran", IF Closed("post") THEN "dropped" ELSE "sendPost")
  /\ UNCHANGED <<service, queue, dispatcher, expired, timedOut,
                 closing, crashed>>

SubmitPost(s) ==
  /\ Send(s, "sendPost", "post", "postQ")
  /\ UNCHANGED <<service, dispatcher, expired, timedOut, closing>>

TakePost ==
  /\ Receive("post", "post")
  /\ UNCHANGED <<service, dispatcher, expired, timedOut, closing, crashed>>

\* A session that finishes in time completes the task.
MutTerminalStatus(s, stored) ==
  IF s \in timedOut THEN "failed" ELSE "completed"

\* The status a task gets from one session's outcome (applyTerminalStatus).
TerminalStatus(s, stored) ==
  LET t == TaskOf[s] IN
  IF s \in timedOut THEN "failed"
  ELSE IF SessionsOf[t] \subseteq stored THEN "completed"
  ELSE status[t]

\* ApplySessionOutcome.  capturePostRun always yields a group, if only an empty one.
runPostRun(s) ==
  /\ Move(s, "post", "done")
  /\ reported' = reported \cup {s} /\ groups' = groups \cup {s}
  /\ status' = [status EXCEPT ![TaskOf[s]] = TerminalStatus(s, reported \cup {s})]
  /\ UNCHANGED <<posting, emptied, queue, dispatcher, expired, timedOut, closing, crashed>>

---------------------------------------------------------------------------

GatewayInit ==
  /\ status = [t \in Task |-> "none"]
  /\ reported = {} /\ groups = {}
  /\ place = [s \in Session |-> "none"]
  /\ queue = [p \in Stage |-> <<>>]
  /\ dispatcher = TRUE
  /\ expired = {} /\ timedOut = {}
  /\ closing = "open"
  /\ crashed = FALSE
  /\ posting \in Callbacks /\ emptied = {}

\* What a goroutine of the gateway, or a call into it, does next.
Handle(s) ==
  \/ StartSession(s)
  \/ SubmitInit(s)
  \/ RunInit(s)
  \/ CheckRun(s)
  \/ SubmitRun(s)
  \/ ExecuteRun(s)
  \/ CheckPost(s)
  \/ SubmitPost(s)
  \/ runPostRun(s)

TakeNext == TakeInit \/ DispatchReady \/ TakeRun \/ TakePost

GatewayNext ==
  \/ TakeNext
  \/ Close
  \/ \E s \in Session :
       \/ Handle(s)
       \/ Expire(s)
       \/ TrainerCallback(s)
  \/ \E t \in Task : AcceptTask(t)

GatewaySpec == GatewayInit /\ [][GatewayNext]_gatewayVars

\* The run of s must end: its context is done.
RunOver(s) == s \in expired \/ Cancelled

\* Goroutines of the gateway are scheduled, deadlines pass, a Close that has
\* begun goes on, and a run ends once its context is done.  Nobody is obliged
\* to submit, to call back or to begin Close.
GatewayFairSpec ==
  /\ GatewaySpec
  /\ WF_gatewayVars(TakeInit) /\ WF_gatewayVars(DispatchReady)
  /\ WF_gatewayVars(TakeRun) /\ WF_gatewayVars(TakePost)
  /\ WF_gatewayVars(closing # "open" /\ Close)
  /\ \A s \in Session :
       /\ WF_gatewayVars((place[s] = "run" => RunOver(s)) /\ Handle(s))
       /\ WF_gatewayVars(Expire(s))

---------------------------------------------------------------------------
(* Properties *)

\* The place of a job that waits in the queue of a stage.
QueuePlace == [init |-> "initQ", ready |-> "readyQ", run |-> "runQ", post |-> "postQ"]

\* "Isolated worker pools" (gateway.go:56): a session is in exactly the one
\* queue its stage says, once; no queue is over its capacity and no pool runs
\* more jobs than it has workers, so that a slow stage cannot take the workers
\* of another, nor a session be run or reported twice.
StagesIsolated ==
  /\ \A p \in Stage :
       /\ Len(queue[p]) <= Capacity[p]
       /\ Cardinality(SeqRange(queue[p])) = Len(queue[p])
       /\ SeqRange(queue[p]) = {s \in Session : place[s] = QueuePlace[p]}
  /\ \A p \in DOMAIN Workers : Cardinality(AtWork(p)) <= Workers[p]
  /\ Cardinality({s \in Session : place[s] \in {"dispatch", "sendRun"}}) <= 1

\* Close closes a channel only when the workers that send on it are gone: an
\* INIT worker never finds the ready queue closed, nor a RUNNING worker the
\* POSTRUN queue.  (The callers of StartSession and the dispatcher are not
\* waited for, and a send of theirs can meet a closed queue.)
WorkerSendsSafe ==
  \A s \in Session :
    /\ place[s] = "init" => ~Closed("ready")
    /\ place[s] = "sendPost" => ~Closed("post")

\* The pipeline hands each session on once within its bounds, and Close closes no
\* queue under a worker that sends on it.
StagesSafe == StagesIsolated /\ WorkerSendsSafe

\* A task is completed only when each of its sessions has a stored group, from
\* POSTRUN or from its trainer, in whatever order they arrive; the exception is a
\* session whose own trainer has posted no trajectory, which completes the task
\* of a single sample, and takes the place of POSTRUN's group in one of several
\* (service.go: CompleteSession; gateway_session.go: ApplySessionOutcome).
CompletedMeansAllReported ==
  \A t \in Task : status[t] = "completed" => SessionsOf[t] \subseteq groups \cup emptied

\* A session of an open gateway gets through all four stages: the blocking
\* sends from stage to stage never wait for each other.
SessionsFinish ==
  \A s \in Session :
    place[s] = "todo" ~> place[s] = "done" \/ closing # "open" \/ crashed

\* Close returns: every worker it waits for, and the dispatcher, gets away
\* from its blocking send.
CloseReturns ==
  closing = "cancelled" ~> closing = "closed" \/ crashed

\* Nothing hangs: sessions of an open gateway are reported, and Close returns.
GatewaySettles == SessionsFinish /\ CloseReturns

\* "Timeout still emits POSTRUN with partial captures + terminal status"
\* (task-T146.md:18): a task failed by a timed-out session stays failed.
TimeoutIsTerminal ==
  [][\A t \in Task :
       status[t] = "failed" => status'[t] = "failed"]_gatewayVars
=============================================================================
