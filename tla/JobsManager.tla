----------------------------- MODULE JobsManager -----------------------------
(***************************************************************************)
(* The asynchronous job manager (orchestrator/internal/jobs/manager.go): a *)
(* bounded queue, a pool of workers, cancellation by identifier, and Close. *)
(*                                                                         *)
(* Every goroutine moves between two of its synchronisation points in one  *)
(* step: a critical section of m.mu, a channel operation, an atomic access *)
(* or a call of the publisher.  Each call of Enqueue gets an identifier of *)
(* its own from nextID, so Job also names the calls.  The publisher is     *)
(* called outside m.mu; log[j] is what it has been told about j.           *)
(***************************************************************************)
EXTENDS Naturals, Sequences, FiniteSets

CONSTANTS
  Job,              \* job identifiers, one per call of Enqueue
  Worker,           \* the goroutines NewManager starts
  QueueSize,        \* capacity of m.queue
  Timed             \* the jobs submitted with Timeout > 0

ASSUME QueueSizeAssumption == QueueSize \in Nat \ {0}
ASSUME TimedAssumption == Timed \subseteq Job
ASSUME NoJobAssumption == "none" \notin Job

VARIABLES
  enq,              \* where the call of Enqueue for j is
  state,            \* m.jobs[j].job.State, "absent" when j is not in m.jobs
  started,          \* m.jobs[j].job.StartedAt # nil
  ctx,              \* the job's context: its error, "live" while it has none
  queue,            \* the channel m.queue
  wpc, wjob, wnext, \* each worker: its place, its record, the outcome of a run
  cpc, cjob,        \* the call of Close: its place, the record it drained
  closed,           \* m.closed
  rootDone,         \* m.rootCtx is cancelled
  early,            \* history: the jobs that were queued before Close began
  cancelPub,        \* calls of Cancel that changed a state and must publish it
  total,            \* m.totalCompleted and m.totalFailed
  log               \* the events published about j, as <<previous, state>>

jobVars == <<enq, state, started, ctx>>
workerVars == <<wpc, wjob, wnext>>
closeVars == <<cpc, cjob, closed, rootDone, early>>
vars == <<jobVars, queue, workerVars, closeVars, cancelPub, total, log>>

(***************************************************************************)
(* States and transitions.                                                 *)
(***************************************************************************)
State == {"queued", "running", "completed", "failed", "cancelled"}

isTerminal(s) == s \in {"completed", "failed", "cancelled"}

\* Mutant: a cancelled record may be started.
MutCanTransition(from, to) ==
  \/ from \in {"queued", "cancelled"} /\ to \in {"running", "cancelled"}
  \/ from = "running" /\ to \in {"completed", "failed", "cancelled"}

canTransition(from, to) ==
  \/ from = "queued"  /\ to \in {"running", "cancelled"}
  \/ from = "running" /\ to \in {"completed", "failed", "cancelled"}

\* context.CancelFunc and the deadline: the first cause stays.
Cancelled(c) == IF c = "live" THEN "canceled" ELSE c

Publish(j, prev, next) == log' = [log EXCEPT ![j] = Append(@, <<prev, next>>)]

\* A caller can name j once Enqueue returned it or an event about it was seen.
Disclosed(j) == enq[j] = "accepted" \/ log[j] # <<>>

Init ==
  /\ enq = [j \in Job |-> "new"]
  /\ state = [j \in Job |-> "absent"]
  /\ started = [j \in Job |-> FALSE]
  /\ ctx = [j \in Job |-> "none"]
  /\ queue = <<>>
  /\ wpc = [w \in Worker |-> "idle"]
  /\ wjob = [w \in Worker |-> "none"]
  /\ wnext = [w \in Worker |-> "none"]
  /\ cpc = "open"
  /\ cjob = "none"
  /\ closed = FALSE
  /\ rootDone = FALSE
  /\ early = {}
  /\ cancelPub = {}
  /\ total = [s \in {"completed", "failed"} |-> 0]
  /\ log = [j \in Job |-> <<>>]

(***************************************************************************)
(* Enqueue.                                                                *)
(***************************************************************************)
EnqueueCheck(j) ==
  /\ enq[j] = "new"
  /\ enq' = [enq EXCEPT ![j] = IF closed THEN "refused" ELSE "checked"]
  /\ UNCHANGED <<state, started, ctx, queue, workerVars, closeVars, cancelPub,
                 total, log>>

\* The context is derived from rootCtx, and the record enters m.jobs.
EnqueueStore(j) ==
  /\ enq[j] = "checked"
  /\ enq' = [enq EXCEPT ![j] = "stored"]
  /\ state' = [state EXCEPT ![j] = "queued"]
  /\ ctx' = [ctx EXCEPT ![j] = IF rootDone THEN "canceled" ELSE "live"]
  /\ UNCHANGED <<started, queue, workerVars, closeVars, cancelPub, total, log>>

EnqueueSend(j) ==
  /\ enq[j] = "stored"
  /\ Len(queue) < QueueSize
  /\ enq' = [enq EXCEPT ![j] = "sent"]
  /\ queue' = Append(queue, j)
  /\ UNCHANGED <<state, started, ctx, workerVars, closeVars, cancelPub, total,
                 log>>

EnqueueFull(j) ==
  /\ enq[j] = "stored"
  /\ Len(queue) >= QueueSize
  /\ enq' = [enq EXCEPT ![j] = "full"]
  /\ UNCHANGED <<state, started, ctx, queue, workerVars, closeVars, cancelPub,
                 total, log>>

EnqueueWithdraw(j) ==
  /\ enq[j] = "full"
  /\ enq' = [enq EXCEPT ![j] = "rejected"]
  /\ state' = [state EXCEPT ![j] = "absent"]
  /\ ctx' = [ctx EXCEPT ![j] = Cancelled(@)]
  /\ UNCHANGED <<started, queue, workerVars, closeVars, cancelPub, total, log>>

\* publishQueued, which comes after the send: the job may already have run.
EnqueuePublish(j) ==
  /\ enq[j] = "sent"
  /\ enq' = [enq EXCEPT ![j] = "accepted"]
  /\ Publish(j, "absent", "queued")
  /\ UNCHANGED <<state, started, ctx, queue, workerVars, closeVars, cancelPub,
                 total>>

(***************************************************************************)
(* Cancel, and the deadline of a job's context.                            *)
(***************************************************************************)
CancelQueued(j) ==
  /\ Disclosed(j)
  /\ state[j] = "queued"
  /\ state' = [state EXCEPT ![j] = "cancelled"]
  /\ ctx' = [ctx EXCEPT ![j] = Cancelled(@)]
  /\ cancelPub' = cancelPub \cup {j}
  /\ UNCHANGED <<enq, started, queue, workerVars, closeVars, total, log>>

CancelPublish(j) ==
  /\ j \in cancelPub
  /\ cancelPub' = cancelPub \ {j}
  /\ Publish(j, "queued", "cancelled")
  /\ UNCHANGED <<jobVars, queue, workerVars, closeVars, total>>

\* Mutant: Cancel ends a running job itself.
MutCancelRunning(j) ==
  /\ Disclosed(j)
  /\ state[j] = "running"
  /\ state' = [state EXCEPT ![j] = "cancelled"]
  /\ ctx' = [ctx EXCEPT ![j] = Cancelled(@)]
  /\ cancelPub' = cancelPub \cup {j}
  /\ UNCHANGED <<enq, started, queue, workerVars, closeVars, total, log>>

\* A running job only has its context cancelled; its worker decides the rest.
CancelRunning(j) ==
  /\ Disclosed(j)
  /\ state[j] = "running"
  /\ ctx' = [ctx EXCEPT ![j] = Cancelled(@)]
  /\ UNCHANGED <<enq, state, started, queue, workerVars, closeVars, cancelPub,
                 total, log>>

\* Mutant: the timeout only bounds the wait in the queue.
MutDeadlineExpires(j) ==
  /\ j \in Timed
  /\ state[j] = "queued"
  /\ ctx[j] = "live"
  /\ ctx' = [ctx EXCEPT ![j] = "deadline"]
  /\ UNCHANGED <<enq, state, started, queue, workerVars, closeVars, cancelPub,
                 total, log>>

DeadlineExpires(j) ==
  /\ j \in Timed
  /\ ctx[j] = "live"
  /\ ctx' = [ctx EXCEPT ![j] = "deadline"]
  /\ UNCHANGED <<enq, state, started, queue, workerVars, closeVars, cancelPub,
                 total, log>>

(***************************************************************************)
(* The workers: worker, runRecord and transitionWithResult.                *)
(***************************************************************************)
\* select of worker(): with rootCtx done and a record queued, either case.
WorkerExit(w) ==
  /\ wpc[w] = "idle"
  /\ rootDone
  /\ wpc' = [wpc EXCEPT ![w] = "exited"]
  /\ UNCHANGED <<jobVars, queue, wjob, wnext, closeVars, cancelPub, total,
                 log>>

WorkerTake(w) ==
  /\ wpc[w] = "idle"
  /\ queue # <<>>
  /\ wpc' = [wpc EXCEPT ![w] = "taken"]
  /\ wjob' = [wjob EXCEPT ![w] = Head(queue)]
  /\ queue' = Tail(queue)
  /\ UNCHANGED <<jobVars, wnext, closeVars, cancelPub, total, log>>

\* transition(id, StateRunning) under m.mu.
WorkerStart(w) ==
  LET j == wjob[w] IN
  /\ wpc[w] = "taken"
  /\ canTransition(state[j], "running")
  /\ state' = [state EXCEPT ![j] = "running"]
  /\ started' = [started EXCEPT ![j] = TRUE]
  /\ wpc' = [wpc EXCEPT ![w] = "announcing"]
  /\ UNCHANGED <<enq, ctx, queue, wjob, wnext, closeVars, cancelPub, total,
                 log>>

WorkerSkip(w) ==
  /\ wpc[w] = "taken"
  /\ ~canTransition(state[wjob[w]], "running")
  /\ wpc' = [wpc EXCEPT ![w] = "idle"]
  /\ wjob' = [wjob EXCEPT ![w] = "none"]
  /\ UNCHANGED <<jobVars, queue, wnext, closeVars, cancelPub, total, log>>

WorkerAnnounce(w) ==
  /\ wpc[w] = "announcing"
  /\ wpc' = [wpc EXCEPT ![w] = "body"]
  /\ Publish(wjob[w], "queued", "running")
  /\ UNCHANGED <<jobVars, queue, wjob, wnext, closeVars, cancelPub, total>>

\* What the job's function may return: no error, an error that wraps
\* context.Canceled, any other error.
Result == {"nil", "canceled", "error"}

Outcome(err, ctxErr) ==
  IF err = "nil" THEN "completed"
  ELSE IF err = "canceled" \/ ctxErr \in {"canceled", "deadline"}
       THEN "cancelled"
       ELSE "failed"

\* The job's function returns; its context's error is read, then r.cancel().
\* The function may return anything at any time, so a context that ends
\* between the return and the read adds no behaviour.
WorkerReturn(w, err) ==
  LET j == wjob[w] IN
  /\ wpc[w] = "body"
  /\ wpc' = [wpc EXCEPT ![w] = "finishing"]
  /\ wnext' = [wnext EXCEPT ![w] = Outcome(err, ctx[j])]
  /\ ctx' = [ctx EXCEPT ![j] = Cancelled(@)]
  /\ UNCHANGED <<enq, state, started, queue, wjob, closeVars, cancelPub, total,
                 log>>

\* transitionWithResult(id, outcome) under m.mu; it gives up silently when the
\* transition is not allowed.
WorkerFinish(w) ==
  LET j == wjob[w] IN
  /\ wpc[w] = "finishing"
  /\ IF canTransition(state[j], wnext[w])
     THEN /\ state' = [state EXCEPT ![j] = wnext[w]]
          /\ wpc' = [wpc EXCEPT ![w] =
                      IF wnext[w] \in {"completed", "failed"} THEN "counting"
                                                             ELSE "reporting"]
          /\ UNCHANGED <<wjob, wnext>>
     ELSE /\ wpc' = [wpc EXCEPT ![w] = "idle"]
          /\ wjob' = [wjob EXCEPT ![w] = "none"]
          /\ wnext' = [wnext EXCEPT ![w] = "none"]
          /\ UNCHANGED state
  /\ UNCHANGED <<enq, started, ctx, queue, closeVars, cancelPub, total, log>>

\* totalCompleted.Add(1) or totalFailed.Add(1), after the unlock.
WorkerCount(w) ==
  /\ wpc[w] = "counting"
  /\ total' = [total EXCEPT ![wnext[w]] = @ + 1]
  /\ wpc' = [wpc EXCEPT ![w] = "reporting"]
  /\ UNCHANGED <<jobVars, queue, wjob, wnext, closeVars, cancelPub, log>>

WorkerReport(w) ==
  /\ wpc[w] = "reporting"
  /\ Publish(wjob[w], "running", wnext[w])
  /\ wpc' = [wpc EXCEPT ![w] = "idle"]
  /\ wjob' = [wjob EXCEPT ![w] = "none"]
  /\ wnext' = [wnext EXCEPT ![w] = "none"]
  /\ UNCHANGED <<jobVars, queue, closeVars, cancelPub, total>>

(***************************************************************************)
(* Close.  Later calls return at once, so one call is enough.              *)
(***************************************************************************)
CloseBegin ==
  /\ cpc = "open"
  /\ cpc' = "draining"
  /\ closed' = TRUE
  /\ early' = {j \in Job : enq[j] \in {"sent", "accepted"}}
  /\ UNCHANGED <<jobVars, queue, workerVars, cjob, rootDone, cancelPub, total,
                 log>>

CloseDrain ==
  /\ cpc = "draining"
  /\ queue # <<>>
  /\ cpc' = "drained"
  /\ cjob' = Head(queue)
  /\ queue' = Tail(queue)
  /\ UNCHANGED <<jobVars, workerVars, closed, rootDone, early, cancelPub,
                 total, log>>

\* Mutant: cancelQueuedRecord without its check of the state.
MutCloseCancel ==
  /\ cpc = "drained"
  /\ ctx' = [ctx EXCEPT ![cjob] = Cancelled(@)]
  /\ state' = [state EXCEPT ![cjob] = "cancelled"]
  /\ cpc' = "reporting"
  /\ UNCHANGED <<enq, started, queue, workerVars, cjob, closed, rootDone,
                 early, cancelPub, total, log>>

\* cancelQueuedRecord: a record that is no longer queued is only dropped.
CloseCancel ==
  /\ cpc = "drained"
  /\ ctx' = [ctx EXCEPT ![cjob] = Cancelled(@)]
  /\ IF state[cjob] = "queued"
     THEN /\ state' = [state EXCEPT ![cjob] = "cancelled"]
          /\ cpc' = "reporting"
          /\ UNCHANGED cjob
     ELSE /\ cpc' = "draining"
          /\ cjob' = "none"
          /\ UNCHANGED state
  /\ UNCHANGED <<enq, started, queue, workerVars, closed, rootDone, early,
                 cancelPub, total, log>>

CloseReport ==
  /\ cpc = "reporting"
  /\ Publish(cjob, "queued", "cancelled")
  /\ cpc' = "draining"
  /\ cjob' = "none"
  /\ UNCHANGED <<jobVars, queue, workerVars, closed, rootDone, early,
                 cancelPub, total>>

\* The drain finds the queue empty and returns.
CloseDrained ==
  /\ cpc = "draining"
  /\ queue = <<>>
  /\ cpc' = "cancelling"
  /\ UNCHANGED <<jobVars, queue, workerVars, cjob, closed, rootDone, early,
                 cancelPub, total, log>>

\* rootCancel() cancels every context derived from rootCtx.
CloseRootCancel ==
  /\ cpc = "cancelling"
  /\ cpc' = "waiting"
  /\ rootDone' = TRUE
  /\ ctx' = [j \in Job |-> Cancelled(ctx[j])]
  /\ UNCHANGED <<enq, state, started, queue, workerVars, cjob, closed, early,
                 cancelPub, total, log>>

\* Mutant: Close does not wait for the workers.
MutCloseReturn ==
  /\ cpc = "waiting"
  /\ cpc' = "returned"
  /\ UNCHANGED <<jobVars, queue, workerVars, cjob, closed, rootDone, early,
                 cancelPub, total, log>>

CloseReturn ==
  /\ cpc = "waiting"
  /\ \A w \in Worker : wpc[w] = "exited"
  /\ cpc' = "returned"
  /\ UNCHANGED <<jobVars, queue, workerVars, cjob, closed, rootDone, early,
                 cancelPub, total, log>>

(***************************************************************************)
(* The specification.                                                      *)
(***************************************************************************)
Returned == {"accepted", "rejected", "refused"}

\* After Close nothing is left to do once the calls in flight have returned.
Stopped ==
  /\ cpc = "returned"
  /\ cancelPub = {}
  /\ \A j \in Job : enq[j] \in Returned
  /\ UNCHANGED vars

EnqueueStep(j) ==
  \/ EnqueueStore(j)
  \/ EnqueueSend(j)
  \/ EnqueueFull(j)
  \/ EnqueueWithdraw(j)
  \/ EnqueuePublish(j)

WorkerStep(w) ==
  \/ WorkerExit(w)
  \/ WorkerTake(w)
  \/ WorkerStart(w)
  \/ WorkerSkip(w)
  \/ WorkerAnnounce(w)
  \/ WorkerFinish(w)
  \/ WorkerCount(w)
  \/ WorkerReport(w)

CloseStep ==
  \/ CloseDrain
  \/ CloseCancel
  \/ CloseReport
  \/ CloseDrained
  \/ CloseRootCancel
  \/ CloseReturn

Next ==
  \/ \E j \in Job :
       \/ EnqueueCheck(j)
       \/ EnqueueStep(j)
       \/ CancelQueued(j)
       \/ CancelPublish(j)
       \/ CancelRunning(j)
       \/ DeadlineExpires(j)
  \/ \E w \in Worker :
       \/ WorkerStep(w)
       \/ \E err \in Result : WorkerReturn(w, err)
  \/ CloseBegin
  \/ CloseStep
  \/ Stopped

Spec == Init /\ [][Next]_vars

\* Goroutines are scheduled and timers fire.  Nobody has to call Enqueue,
\* Cancel or Close.  A job's function need not return until its context ends.
Fairness ==
  /\ \A j \in Job :
       /\ WF_vars(EnqueueStep(j))
       /\ WF_vars(CancelPublish(j))
       /\ WF_vars(DeadlineExpires(j))
  /\ \A w \in Worker :
       /\ WF_vars(WorkerStep(w))
       /\ WF_vars(/\ wpc[w] = "body"
                  /\ ctx[wjob[w]] # "live"
                  /\ \E err \in Result : WorkerReturn(w, err))
  /\ WF_vars(CloseStep)

FairSpec == Spec /\ Fairness

(***************************************************************************)
(* Properties.                                                             *)
(***************************************************************************)
Transition ==
  {<<"absent", "queued">>} \cup
  {t \in State \X State : canTransition(t[1], t[2])}

\* Every variable has its type.
TypeOK ==
  /\ enq \in [Job -> {"new", "checked", "stored", "sent", "full", "accepted",
                      "rejected", "refused"}]
  /\ state \in [Job -> State \cup {"absent"}]
  /\ started \in [Job -> BOOLEAN]
  /\ ctx \in [Job -> {"none", "live", "canceled", "deadline"}]
  /\ queue \in Seq(Job) /\ Len(queue) <= QueueSize
  /\ wpc \in [Worker -> {"idle", "taken", "announcing", "body", "finishing",
                         "counting", "reporting", "exited"}]
  /\ wjob \in [Worker -> Job \cup {"none"}]
  /\ wnext \in [Worker -> {"none", "completed", "failed", "cancelled"}]
  /\ cpc \in {"open", "draining", "drained", "reporting", "cancelling",
              "waiting", "returned"}
  /\ cjob \in Job \cup {"none"}
  /\ closed \in BOOLEAN /\ rootDone \in BOOLEAN
  /\ early \in SUBSET Job /\ cancelPub \in SUBSET Job
  /\ total \in [{"completed", "failed"} -> Nat]
  /\ log \in [Job -> Seq(Transition)]

\* A worker runs j: it has moved j to running and not yet out of it.
Runs(w, j) ==
  wjob[w] = j /\ wpc[w] \in {"announcing", "body", "finishing"}

\* A job is in StateRunning exactly while one worker, and only one, executes
\* it (runRecord): Cancel, Close or a second delivery never starts a job whose
\* record was cancelled, never leaves a job running that nobody works on, and
\* Stats().Active never exceeds the number of workers.
RunningIffOneWorker ==
  \A j \in Job :
    IF state[j] = "running"
    THEN \E w \in Worker : \A v \in Worker : Runs(v, j) <=> v = w
    ELSE \A w \in Worker : ~Runs(w, j)

\* When Close returns, each job whose Enqueue had put it into the queue before
\* Close was called has ended: Close cancels the queued ones and waits for the
\* workers to finish the rest, in whatever order they race for the queue.
CloseSettlesEarlierJobs ==
  cpc = "returned" => \A j \in early : isTerminal(state[j])

\* The transitions of j announced so far, those whose publication is still to
\* come, and all that j has made, read from its record.
Told(j) == {log[j][i] : i \in DOMAIN log[j]}

Untold(j) ==
  {<<"absent", "queued">> : e \in {enq[j]} \cap {"stored", "sent", "full"}}
  \cup {<<"queued", "running">> :
          w \in {v \in Worker : wjob[v] = j /\ wpc[v] = "announcing"}}
  \cup {<<"running", wnext[w]>> :
          w \in {v \in Worker :
                   wjob[v] = j /\ wpc[v] \in {"counting", "reporting"}}}
  \cup {<<"queued", "cancelled">> :
          i \in ({j} \cap cancelPub)
                \cup {k \in {j} : cjob = j /\ cpc = "reporting"}}

Made(j) ==
  IF state[j] = "absent" THEN {}
  ELSE {<<"absent", "queued">>}
       \cup {<<"queued", "running">> : b \in {started[j]} \cap {TRUE}}
       \cup {<<IF started[j] THEN "running" ELSE "queued", s>> :
               s \in {t \in {state[j]} : isTerminal(t)}}

\* Events are published outside m.mu, by whichever goroutine made the
\* transition; still each transition of a job is announced once and only once,
\* with the state it left, and a submission rejected with ErrQueueFull never.
EachTransitionAnnouncedOnce ==
  \A j \in Job :
    /\ Told(j) \cup Untold(j) = Made(j)
    /\ Told(j) \cap Untold(j) = {}
    /\ \A h, i \in DOMAIN log[j] : log[j][h] = log[j][i] => h = i

\* The counters of Stats run behind the states and ahead of the events: an
\* observer who has seen n "completed" events reads TotalCompleted >= n, and no
\* job is counted that has not ended so (same for "failed").
TotalsBetweenEventsAndStates ==
  \A s \in {"completed", "failed"} :
    /\ Cardinality({j \in Job : <<"running", s>> \in Told(j)}) <= total[s]
    /\ total[s] <= Cardinality({j \in Job : state[j] = s})

\* What the manager tells of its jobs adds up: each transition is announced once
\* and only once, and the totals of Stats lie between announcements and states.
TransitionsAccounted == EachTransitionAnnouncedOnce /\ TotalsBetweenEventsAndStates

\* The manager implements the abstract life cycle of its jobs.
Lifecycle ==
  INSTANCE JobLifecycle WITH
    life <- [j \in Job |->
               IF enq[j] = "rejected" THEN "rejected" ELSE state[j]],
    past <- [j \in Job |-> Made(j)],
    told <- log

\* Every behaviour of the manager is one the abstract life cycle allows: legal
\* transitions only, terminal states final, nothing announced twice or before
\* it happened, an outcome after its start, silence about withdrawn jobs.
ImplementsLifecycle == Lifecycle!Spec

\* A job that Enqueue accepted comes to an end unless the manager is closed:
\* no cancelled record, late deadline or full queue wedges the workers.
AcceptedJobsFinish ==
  \A j \in Job : enq[j] = "accepted" ~> (isTerminal(state[j]) \/ closed)

\* Close returns: its drain ends, and rootCancel reaches every worker and every
\* job's function.
CloseReturns == (cpc = "draining") ~> (cpc = "returned")

\* Nothing hangs: accepted jobs finish unless the manager is closed, and Close
\* returns, whatever cancellations and deadlines race with them.
JobsSettle == AcceptedJobsFinish /\ CloseReturns

\* TestCloseCancelsQueuedJobs: "queued state = %q, want cancelled".  Once Close
\* has returned, no job that Enqueue accepted is still queued.
CloseCancelsQueuedJobs ==
  cpc = "returned" =>
    \A j \in Job : enq[j] = "accepted" => state[j] # "queued"
=============================================================================
