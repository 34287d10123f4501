----------------------------- MODULE KernelProofs -----------------------------
(***************************************************************************)
(* Proofs about two parts of the kernel that share nothing: the job        *)
(* manager, and the detection of spikes in what the agents write.          *)
(*                                                                         *)
(* JobsManager, for any number of jobs and workers and any queue size.     *)
(* The inductive invariant follows a record through the manager: at any    *)
(* time it is in one place only, the queue, the hands of one worker or the *)
(* hands of Close, and its state agrees with the place.  On top of it come *)
(* the accounts of what has been announced and counted, and the refinement *)
(* of JobLifecycle.                                                        *)
(*                                                                         *)
(* Spikes, for any writes, windows and lag of the clock.  Writes reach the *)
(* monitor and the filter out of the order of their times; all the same    *)
(* the spikes of a workspace are debounced, a burst leaves a spike behind, *)
(* of two close semantic writes to one symbol one is reported to the       *)
(* other, and a conflict warning is never published without its semantic   *)
(* spike.                                                                  *)
(***************************************************************************)
EXTENDS JobsManager, Spikes, FiniteSetTheorems, WellFoundedInduction, TLAPS

\* Leaves are given to Zenon unless they name another prover.
USE Zenon

InQueue(q, j) == \E i \in 1..Len(q) : q[i] = j

Distinct(q) == \A h, i \in 1..Len(q) : q[h] = q[i] => h = i

\* Where the record of a submission can be, by the place of its Enqueue.
JobInv ==
  \A j \in Job :
    /\ enq[j] \in {"new", "checked", "rejected", "refused"}
         <=> state[j] = "absent"
    /\ enq[j] \in {"stored", "full"} => state[j] = "queued"
    /\ log[j] # <<>> => enq[j] \in {"sent", "accepted"}
    /\ j \in cancelPub => state[j] = "cancelled"

\* A queued record has been sent, is in the queue once, and has not started.
QueueInv ==
  /\ Distinct(queue)
  /\ \A j \in Job : InQueue(queue, j) =>
       /\ enq[j] \in {"sent", "accepted"}
       /\ state[j] \in {"queued", "cancelled"}
       /\ cjob # j
       /\ \A w \in Worker : wjob[w] # j

\* What a worker holds, and the state of its record at each of its places.
WorkerInv ==
  \A w \in Worker :
    /\ wjob[w] = "none" <=> wpc[w] \in {"idle", "exited"}
    /\ wjob[w] # "none" =>
         /\ enq[wjob[w]] \in {"sent", "accepted"}
         /\ cjob # wjob[w]
         /\ \A v \in Worker : wjob[v] = wjob[w] => v = w
    /\ wpc[w] = "taken" => state[wjob[w]] \in {"queued", "cancelled"}
    /\ wpc[w] \in {"announcing", "body", "finishing"} =>
         state[wjob[w]] = "running"
    /\ wpc[w] = "finishing" => wnext[w] # "none"
    /\ wpc[w] = "counting" => wnext[w] \in {"completed", "failed"}
    /\ wpc[w] \in {"counting", "reporting"} =>
         wnext[w] # "none" /\ state[wjob[w]] = wnext[w]

\* What Close holds, and what it has left behind.
CloseInv ==
  /\ cjob = "none" <=> cpc \notin {"drained", "reporting"}
  /\ cjob # "none" => enq[cjob] \in {"sent", "accepted"}
  /\ cpc = "drained" => state[cjob] \in {"queued", "cancelled"}
  /\ cpc = "reporting" => state[cjob] = "cancelled"
  /\ cpc = "open" => early = {}
  /\ cpc = "returned" => \A w \in Worker : wpc[w] = "exited"
  /\ \A j \in early :
       /\ enq[j] \in {"sent", "accepted"}
       /\ cpc \in {"cancelling", "waiting", "returned"} => ~InQueue(queue, j)

\* No record is forgotten: a running one has its worker, a queued one that was
\* sent is in the queue or in somebody's hands.
OwnerInv ==
  \A j \in Job :
    /\ state[j] = "running" => \E w \in Worker : Runs(w, j)
    /\ state[j] = "queued" /\ enq[j] \in {"sent", "accepted"} =>
         \/ InQueue(queue, j)
         \/ \E w \in Worker : wjob[w] = j /\ wpc[w] = "taken"
         \/ cjob = j /\ cpc = "drained"

IInv == TypeOK /\ JobInv /\ QueueInv /\ WorkerInv /\ CloseInv /\ OwnerInv

(***************************************************************************)
(* Facts about the queue.                                                  *)
(***************************************************************************)
\* Sending to m.queue adds the record to it, and keeps its records distinct.
LEMMA AppendFacts ==
  ASSUME NEW S, NEW q \in Seq(S), NEW x \in S
  PROVE  /\ Append(q, x) \in Seq(S)
         /\ Len(Append(q, x)) = Len(q) + 1
         /\ \A y : InQueue(Append(q, x), y) <=> InQueue(q, y) \/ y = x
         /\ Distinct(q) /\ ~InQueue(q, x) => Distinct(Append(q, x))
<1> DEFINE r == Append(q, x)
<1>1. /\ r \in Seq(S)
      /\ Len(r) = Len(q) + 1
      /\ \A i \in 1..Len(q) : r[i] = q[i]
      /\ r[Len(q) + 1] = x
      /\ Len(q) \in Nat
  BY SMT
<1> HIDE DEF r
<1>2. \A y : InQueue(r, y) <=> InQueue(q, y) \/ y = x
  <2> SUFFICES ASSUME NEW y PROVE InQueue(r, y) <=> InQueue(q, y) \/ y = x
    OBVIOUS
  <2>1. ASSUME InQueue(r, y) PROVE InQueue(q, y) \/ y = x
    BY SMT, <1>1, <2>1 DEF InQueue
  <2>2. ASSUME InQueue(q, y) PROVE InQueue(r, y)
    BY SMT, <1>1, <2>2 DEF InQueue
  <2>3. InQueue(r, x)
    BY SMT, <1>1 DEF InQueue
  <2> QED
    BY <2>1, <2>2, <2>3
<1>3. ASSUME Distinct(q), ~InQueue(q, x) PROVE Distinct(r)
  BY SMT, <1>1, <1>3 DEF Distinct, InQueue
<1> QED
  BY <1>1, <1>2, <1>3 DEF r

\* Receiving from m.queue takes its first record out of it, and only that one.
LEMMA TailFacts ==
  ASSUME NEW S, NEW q \in Seq(S), q # <<>>, Distinct(q)
  PROVE  /\ Head(q) \in S
         /\ InQueue(q, Head(q))
         /\ Tail(q) \in Seq(S)
         /\ Len(Tail(q)) = Len(q) - 1
         /\ \A y : InQueue(Tail(q), y) <=> InQueue(q, y) /\ y # Head(q)
         /\ Distinct(Tail(q))
<1> DEFINE r == Tail(q)
           h == Head(q)
<1>1. /\ r \in Seq(S)
      /\ Len(q) \in Nat \ {0}
      /\ Len(r) = Len(q) - 1
      /\ \A i \in 1..Len(r) : r[i] = q[i + 1]
      /\ h = q[1]
      /\ h \in S
  BY SMT
<1> HIDE DEF r, h
<1>2. InQueue(q, h)
  BY SMT, <1>1 DEF InQueue
<1>3. Distinct(r)
  BY SMT, <1>1 DEF Distinct
<1>4. \A y : InQueue(r, y) <=> InQueue(q, y) /\ y # h
  <2> SUFFICES ASSUME NEW y PROVE InQueue(r, y) <=> InQueue(q, y) /\ y # h
    OBVIOUS
  <2>1. ASSUME InQueue(r, y) PROVE InQueue(q, y) /\ y # h
    <3>1. PICK i \in 1..Len(r) : r[i] = y
      BY <2>1 DEF InQueue
    <3>2. i + 1 \in 1..Len(q) /\ q[i + 1] = y
      BY SMT, <1>1, <3>1
    <3>3. i + 1 # 1
      BY SMT, <3>1
    <3> QED
      BY SMT, <1>1, <3>2, <3>3 DEF InQueue, Distinct
  <2>2. ASSUME InQueue(q, y), y # h PROVE InQueue(r, y)
    <3>1. PICK i \in 1..Len(q) : q[i] = y
      BY <2>2 DEF InQueue
    <3>2. i - 1 \in 1..Len(r) /\ r[i - 1] = y
      BY SMT, <1>1, <2>2, <3>1
    <3> QED
      BY <3>2 DEF InQueue
  <2> QED
    BY <2>1, <2>2
<1> QED
  BY <1>1, <1>2, <1>3, <1>4 DEF r, h

\* The transitions the manager publishes are the edges of canTransition.
LEMMA TransitionFacts ==
  /\ <<"absent", "queued">> \in Transition
  /\ <<"queued", "running">> \in Transition
  /\ <<"queued", "cancelled">> \in Transition
  /\ \A s \in {"completed", "failed", "cancelled"} :
       <<"running", s>> \in Transition
BY DEF Transition, State, canTransition

\* Every step of Enqueue keeps the invariant.
LEMMA EnqueueKeepsIInv ==
  ASSUME IInv, NEW j \in Job,
         EnqueueCheck(j) \/ EnqueueStep(j)
  PROVE  IInv'
<1> USE NoJobAssumption DEF jobVars, workerVars, closeVars
<1>1. CASE EnqueueCheck(j)
  <2>1. TypeOK'
    BY <1>1 DEF EnqueueCheck, IInv, TypeOK
  <2>2. JobInv'
    BY SMT, <1>1 DEF EnqueueCheck, IInv, JobInv
  <2>3. QueueInv'
    BY SMT, <1>1 DEF EnqueueCheck, IInv, QueueInv
  <2>4. WorkerInv'
    BY SMT, <1>1 DEF EnqueueCheck, IInv, WorkerInv
  <2>5. CloseInv'
    BY SMT, <1>1 DEF EnqueueCheck, IInv, CloseInv
  <2>6. OwnerInv'
    BY SMT, <1>1 DEF EnqueueCheck, IInv, OwnerInv, Runs
  <2> QED
    BY <2>1, <2>2, <2>3, <2>4, <2>5, <2>6 DEF IInv
<1>2. CASE EnqueueStore(j)
  <2>1. TypeOK'
    BY <1>2 DEF EnqueueStore, State, IInv, TypeOK
  <2>2. JobInv'
    BY <1>2 DEF EnqueueStore, State, IInv, TypeOK, JobInv
  <2>3. QueueInv'
    BY SMT, <1>2 DEF EnqueueStore, State, IInv, QueueInv
  <2>4. WorkerInv'
    BY SMT, <1>2 DEF EnqueueStore, State, IInv, WorkerInv
  <2>5. CloseInv'
    BY SMT, <1>2 DEF EnqueueStore, State, IInv, CloseInv
  <2>6. OwnerInv'
    BY SMT, <1>2 DEF EnqueueStore, State, IInv, OwnerInv, Runs
  <2> QED
    BY <2>1, <2>2, <2>3, <2>4, <2>5, <2>6 DEF IInv
<1>3. CASE EnqueueSend(j)
  <2>1. /\ Append(queue, j) \in Seq(Job)
        /\ Len(Append(queue, j)) = Len(queue) + 1
        /\ \A k : InQueue(Append(queue, j), k) <=> InQueue(queue, k) \/ k = j
        /\ ~InQueue(queue, j)
        /\ Distinct(Append(queue, j))
    BY <1>3, AppendFacts DEF EnqueueSend, IInv, TypeOK, QueueInv
  <2>2. TypeOK'
    BY SMT, <1>3, <2>1, QueueSizeAssumption DEF EnqueueSend, IInv, TypeOK
  <2>3. JobInv'
    BY SMT, <1>3, <2>1 DEF EnqueueSend, IInv, JobInv
  <2>4. QueueInv'
    BY SMT, <1>3, <2>1 DEF EnqueueSend, IInv, TypeOK, JobInv, QueueInv, WorkerInv,
       CloseInv, OwnerInv, Runs
  <2>5. WorkerInv'
    BY SMT, <1>3, <2>1 DEF EnqueueSend, IInv, WorkerInv
  <2>6. CloseInv'
    BY SMT, <1>3, <2>1 DEF EnqueueSend, IInv, CloseInv
  <2>7. OwnerInv'
    BY SMT, <1>3, <2>1 DEF EnqueueSend, IInv, OwnerInv, Runs
  <2> QED
    BY <2>2, <2>3, <2>4, <2>5, <2>6, <2>7 DEF IInv
<1>4. CASE EnqueueFull(j)
  <2>1. TypeOK'
    BY <1>4 DEF EnqueueFull, IInv, TypeOK
  <2>2. JobInv'
    BY SMT, <1>4 DEF EnqueueFull, IInv, JobInv
  <2>3. QueueInv'
    BY SMT, <1>4 DEF EnqueueFull, IInv, QueueInv
  <2>4. WorkerInv'
    BY SMT, <1>4 DEF EnqueueFull, IInv, WorkerInv
  <2>5. CloseInv'
    BY SMT, <1>4 DEF EnqueueFull, IInv, CloseInv
  <2>6. OwnerInv'
    BY SMT, <1>4 DEF EnqueueFull, IInv, OwnerInv, Runs
  <2> QED
    BY <2>1, <2>2, <2>3, <2>4, <2>5, <2>6 DEF IInv
<1>5. CASE EnqueueWithdraw(j)
  <2>1. TypeOK'
    BY <1>5 DEF EnqueueWithdraw, Cancelled, IInv, TypeOK
  <2>2. JobInv'
    BY <1>5 DEF EnqueueWithdraw, IInv, TypeOK, JobInv
  <2>3. QueueInv'
    BY SMT, <1>5 DEF EnqueueWithdraw, IInv, QueueInv
  <2>4. WorkerInv'
    BY SMT, <1>5 DEF EnqueueWithdraw, IInv, WorkerInv
  <2>5. CloseInv'
    BY SMT, <1>5 DEF EnqueueWithdraw, IInv, CloseInv
  <2>6. OwnerInv'
    BY SMT, <1>5 DEF EnqueueWithdraw, IInv, OwnerInv, Runs
  <2> QED
    BY <2>1, <2>2, <2>3, <2>4, <2>5, <2>6 DEF IInv
<1>6. CASE EnqueuePublish(j)
  <2>1. log' \in [Job -> Seq(Transition)]
    BY SMT, <1>6, TransitionFacts DEF EnqueuePublish, Publish, IInv, TypeOK
  <2>2. TypeOK'
    BY <1>6, <2>1 DEF EnqueuePublish, IInv, TypeOK
  <2>3. JobInv'
    BY SMT, <1>6, <2>1 DEF EnqueuePublish, Publish, IInv, JobInv
  <2>4. QueueInv'
    BY SMT, <1>6, <2>1 DEF EnqueuePublish, IInv, QueueInv
  <2>5. WorkerInv'
    BY SMT, <1>6, <2>1 DEF EnqueuePublish, IInv, WorkerInv
  <2>6. CloseInv'
    BY SMT, <1>6, <2>1 DEF EnqueuePublish, IInv, CloseInv
  <2>7. OwnerInv'
    BY SMT, <1>6, <2>1 DEF EnqueuePublish, IInv, OwnerInv, Runs
  <2> QED
    BY <2>2, <2>3, <2>4, <2>5, <2>6, <2>7 DEF IInv
<1> QED
  BY <1>1, <1>2, <1>3, <1>4, <1>5, <1>6 DEF EnqueueStep

\* Every step of Cancel, and every deadline, keeps the invariant.
LEMMA CancelKeepsIInv ==
  ASSUME IInv, NEW j \in Job,
         \/ CancelQueued(j)
         \/ CancelPublish(j)
         \/ CancelRunning(j)
         \/ DeadlineExpires(j)
  PROVE  IInv'
<1> USE NoJobAssumption DEF jobVars, workerVars, closeVars
<1>1. CASE CancelQueued(j)
  <2>1. TypeOK'
    BY <1>1 DEF CancelQueued, Disclosed, State, Cancelled, IInv, TypeOK
  <2>2. JobInv'
    BY <1>1 DEF CancelQueued, Disclosed, State, IInv, TypeOK, JobInv
  <2>3. QueueInv'
    BY SMT, <1>1 DEF CancelQueued, Disclosed, State, IInv, QueueInv
  <2>4. WorkerInv'
    BY SMT, <1>1 DEF CancelQueued, Disclosed, State, IInv, TypeOK, WorkerInv
  <2>5. CloseInv'
    BY SMT, <1>1 DEF CancelQueued, Disclosed, State, IInv, CloseInv
  <2>6. OwnerInv'
    BY SMT, <1>1 DEF CancelQueued, Disclosed, State, IInv, OwnerInv, Runs
  <2> QED
    BY <2>1, <2>2, <2>3, <2>4, <2>5, <2>6 DEF IInv
<1>2. CASE CancelPublish(j)
  <2>1. log' \in [Job -> Seq(Transition)]
    BY SMT, <1>2, TransitionFacts DEF CancelPublish, Publish, IInv, TypeOK
  <2>2. TypeOK'
    BY <1>2, <2>1 DEF CancelPublish, IInv, TypeOK
  <2>3. JobInv'
    BY SMT, <1>2, <2>1 DEF CancelPublish, Publish, IInv, TypeOK, JobInv
  <2>4. QueueInv' /\ WorkerInv' /\ CloseInv' /\ OwnerInv'
    BY SMT, <1>2 DEF CancelPublish, IInv, QueueInv, WorkerInv, CloseInv, OwnerInv,
       Runs
  <2> QED
    BY <2>2, <2>3, <2>4 DEF IInv
<1>3. CASE CancelRunning(j)
  <2>1. TypeOK'
    BY <1>3 DEF CancelRunning, Cancelled, IInv, TypeOK
  <2>2. JobInv' /\ QueueInv' /\ WorkerInv' /\ CloseInv' /\ OwnerInv'
    BY SMT, <1>3 DEF CancelRunning, IInv, JobInv, QueueInv, WorkerInv, CloseInv,
       OwnerInv, Runs
  <2> QED
    BY <2>1, <2>2 DEF IInv
<1>4. CASE DeadlineExpires(j)
  <2>1. TypeOK'
    BY <1>4 DEF DeadlineExpires, IInv, TypeOK
  <2>2. JobInv' /\ QueueInv' /\ WorkerInv' /\ CloseInv' /\ OwnerInv'
    BY SMT, <1>4 DEF DeadlineExpires, IInv, JobInv, QueueInv, WorkerInv, CloseInv,
       OwnerInv, Runs
  <2> QED
    BY <2>1, <2>2 DEF IInv
<1> QED
  BY <1>1, <1>2, <1>3, <1>4

\* Every step of a worker (worker, runRecord, transitionWithResult) keeps
\* the invariant.
LEMMA WorkerKeepsIInv ==
  ASSUME IInv, NEW w \in Worker,
         WorkerStep(w) \/ \E err \in Result : WorkerReturn(w, err)
  PROVE  IInv'
<1> USE NoJobAssumption DEF jobVars, workerVars, closeVars
<1>1. CASE WorkerExit(w)
  <2>1. TypeOK'
    BY <1>1 DEF WorkerExit, IInv, TypeOK
  <2>2. WorkerInv'
    BY SMT, <1>1 DEF WorkerExit, IInv, WorkerInv
  <2>3. CloseInv'
    BY <1>1 DEF WorkerExit, IInv, CloseInv
  <2>4. OwnerInv'
    BY SMT, <1>1 DEF WorkerExit, IInv, OwnerInv, Runs
  <2>5. JobInv' /\ QueueInv'
    BY <1>1 DEF WorkerExit, IInv, JobInv, QueueInv
  <2> QED
    BY <2>1, <2>2, <2>3, <2>4, <2>5 DEF IInv
<1>2. CASE WorkerTake(w)
  <2>1. /\ Head(queue) \in Job
        /\ InQueue(queue, Head(queue))
        /\ Tail(queue) \in Seq(Job)
        /\ Len(Tail(queue)) = Len(queue) - 1
        /\ \A k : InQueue(Tail(queue), k)
                    <=> InQueue(queue, k) /\ k # Head(queue)
        /\ Distinct(Tail(queue))
    BY <1>2, TailFacts DEF WorkerTake, IInv, TypeOK, QueueInv
  <2>2. queue' \in Seq(Job) /\ Len(queue') <= QueueSize
    BY SMT, <1>2, <2>1, QueueSizeAssumption DEF WorkerTake, IInv, TypeOK
  <2>3. TypeOK'
    BY <1>2, <2>1, <2>2 DEF WorkerTake, IInv, TypeOK
  <2>4. QueueInv'
    BY SMT, <1>2, <2>1, <2>2 DEF WorkerTake, IInv, QueueInv
  <2>5. WorkerInv'
    BY SMT, <1>2, <2>1, <2>2 DEF WorkerTake, IInv, TypeOK, QueueInv, WorkerInv
  <2>6. CloseInv'
    BY <1>2, <2>1, <2>2 DEF WorkerTake, IInv, CloseInv
  <2>7. OwnerInv'
    BY SMT, <1>2, <2>1, <2>2 DEF WorkerTake, IInv, TypeOK, WorkerInv, OwnerInv, Runs
  <2>8. JobInv'
    BY <1>2 DEF WorkerTake, IInv, JobInv
  <2> QED
    BY <2>3, <2>4, <2>5, <2>6, <2>7, <2>8 DEF IInv
<1>3. CASE WorkerStart(w)
  <2>1. TypeOK'
    BY <1>3 DEF WorkerStart, canTransition, State, IInv, TypeOK
  <2>2. JobInv'
    BY SMT, <1>3 DEF WorkerStart, canTransition, State, IInv, TypeOK, JobInv,
       WorkerInv
  <2>3. QueueInv'
    BY SMT, <1>3 DEF WorkerStart, canTransition, State, IInv, QueueInv
  <2>4. WorkerInv'
    BY SMT, <1>3 DEF WorkerStart, canTransition, State, IInv, TypeOK, WorkerInv
  <2>5. CloseInv'
    BY SMT, <1>3 DEF WorkerStart, canTransition, State, IInv, TypeOK, WorkerInv,
       CloseInv
  <2>6. OwnerInv'
    BY SMT, <1>3 DEF WorkerStart, canTransition, State, IInv, TypeOK, OwnerInv, Runs
  <2> QED
    BY <2>1, <2>2, <2>3, <2>4, <2>5, <2>6 DEF IInv
<1>4. CASE WorkerSkip(w)
  <2>1. TypeOK'
    BY <1>4 DEF WorkerSkip, canTransition, IInv, TypeOK
  <2>2. QueueInv'
    BY SMT, <1>4 DEF WorkerSkip, canTransition, IInv, QueueInv
  <2>3. WorkerInv'
    BY SMT, <1>4 DEF WorkerSkip, canTransition, IInv, TypeOK, WorkerInv
  <2>4. CloseInv'
    BY <1>4 DEF WorkerSkip, canTransition, IInv, CloseInv
  <2>5. OwnerInv'
    BY SMT, <1>4 DEF WorkerSkip, canTransition, IInv, OwnerInv, Runs
  <2>6. JobInv'
    BY <1>4 DEF WorkerSkip, IInv, JobInv
  <2> QED
    BY <2>1, <2>2, <2>3, <2>4, <2>5, <2>6 DEF IInv
<1>5. CASE WorkerAnnounce(w)
  <2>1. wjob[w] \in Job
    BY <1>5 DEF WorkerAnnounce, IInv, TypeOK, WorkerInv
  <2>2. log' \in [Job -> Seq(Transition)]
    BY SMT, <1>5, <2>1, TransitionFacts DEF WorkerAnnounce, Publish, IInv, TypeOK
  <2>3. TypeOK'
    BY <1>5, <2>1, <2>2 DEF WorkerAnnounce, IInv, TypeOK
  <2>4. JobInv'
    BY SMT, <1>5, <2>1, <2>2 DEF WorkerAnnounce, Publish, IInv, TypeOK, JobInv,
       WorkerInv
  <2>5. WorkerInv'
    BY SMT, <1>5, <2>1, <2>2 DEF WorkerAnnounce, IInv, WorkerInv
  <2>6. CloseInv'
    BY <1>5, <2>1, <2>2 DEF WorkerAnnounce, IInv, CloseInv
  <2>7. OwnerInv'
    BY SMT, <1>5, <2>1, <2>2 DEF WorkerAnnounce, IInv, OwnerInv, Runs
  <2>8. QueueInv'
    BY <1>5 DEF WorkerAnnounce, IInv, QueueInv
  <2> QED
    BY <2>3, <2>4, <2>5, <2>6, <2>7, <2>8 DEF IInv
<1>6. CASE \E err \in Result : WorkerReturn(w, err)
  <2>1. PICK err \in Result : WorkerReturn(w, err)
    BY <1>6
  <2>2. Outcome(err, ctx[wjob[w]]) \in {"completed", "failed", "cancelled"}
    BY DEF Outcome
  <2>3. TypeOK'
    BY <2>1, <2>2 DEF WorkerReturn, Cancelled, IInv, TypeOK
  <2>4. WorkerInv'
    BY SMT, <2>1, <2>2 DEF WorkerReturn, IInv, TypeOK, WorkerInv
  <2>5. CloseInv'
    BY <2>1, <2>2 DEF WorkerReturn, IInv, CloseInv
  <2>6. OwnerInv'
    BY SMT, <2>1, <2>2 DEF WorkerReturn, IInv, OwnerInv, Runs
  <2>7. JobInv' /\ QueueInv'
    BY <2>1 DEF WorkerReturn, IInv, JobInv, QueueInv
  <2> QED
    BY <2>3, <2>4, <2>5, <2>6, <2>7 DEF IInv
<1>7. CASE WorkerFinish(w)
  <2>1. /\ wjob[w] \in Job
        /\ state[wjob[w]] = "running"
        /\ canTransition(state[wjob[w]], wnext[w])
        /\ wnext[w] \in {"completed", "failed", "cancelled"}
    BY <1>7 DEF WorkerFinish, canTransition, IInv, TypeOK, WorkerInv
  <2>2. /\ state' = [state EXCEPT ![wjob[w]] = wnext[w]]
        /\ wpc' = [wpc EXCEPT ![w] =
                    IF wnext[w] \in {"completed", "failed"} THEN "counting"
                                                           ELSE "reporting"]
        /\ UNCHANGED <<enq, started, ctx, queue, wjob, wnext, closeVars,
                       cancelPub, total, log>>
    BY <1>7, <2>1 DEF WorkerFinish
  <2>3. TypeOK'
    BY <2>1, <2>2 DEF State, IInv, TypeOK
  <2>4. JobInv'
    BY <2>1, <2>2 DEF IInv, TypeOK, JobInv
  <2>5. QueueInv'
    BY SMT, <2>1, <2>2 DEF IInv, QueueInv
  <2>6. WorkerInv'
    BY SMT, <2>1, <2>2 DEF IInv, TypeOK, WorkerInv
  <2>7. CloseInv'
    BY SMT, <2>1, <2>2 DEF IInv, TypeOK, WorkerInv, CloseInv
  <2>8. OwnerInv'
    BY SMT, <2>1, <2>2 DEF IInv, TypeOK, WorkerInv, OwnerInv, Runs
  <2> QED
    BY <2>3, <2>4, <2>5, <2>6, <2>7, <2>8 DEF IInv
<1>8. CASE WorkerCount(w)
  <2>1. TypeOK'
    BY SMT, <1>8 DEF WorkerCount, IInv, TypeOK, WorkerInv
  <2>2. WorkerInv'
    BY SMT, <1>8 DEF WorkerCount, IInv, WorkerInv
  <2>3. CloseInv'
    BY <1>8 DEF WorkerCount, IInv, CloseInv
  <2>4. OwnerInv'
    BY SMT, <1>8 DEF WorkerCount, IInv, OwnerInv, Runs
  <2>5. JobInv' /\ QueueInv'
    BY <1>8 DEF WorkerCount, IInv, JobInv, QueueInv
  <2> QED
    BY <2>1, <2>2, <2>3, <2>4, <2>5 DEF IInv
<1>9. CASE WorkerReport(w)
  <2>1. wjob[w] \in Job /\ <<"running", wnext[w]>> \in Transition
    BY <1>9, TransitionFacts DEF WorkerReport, IInv, TypeOK, WorkerInv
  <2>2. log' \in [Job -> Seq(Transition)]
    BY SMT, <1>9, <2>1 DEF WorkerReport, Publish, IInv, TypeOK
  <2>3. TypeOK'
    BY <1>9, <2>1, <2>2 DEF WorkerReport, IInv, TypeOK
  <2>4. JobInv'
    BY SMT, <1>9, <2>1, <2>2 DEF WorkerReport, Publish, IInv, TypeOK, JobInv,
       WorkerInv
  <2>5. QueueInv'
    BY SMT, <1>9, <2>1, <2>2 DEF WorkerReport, IInv, QueueInv
  <2>6. WorkerInv'
    BY SMT, <1>9, <2>1, <2>2 DEF WorkerReport, IInv, TypeOK, WorkerInv
  <2>7. CloseInv'
    BY <1>9, <2>1, <2>2 DEF WorkerReport, IInv, CloseInv
  <2>8. OwnerInv'
    <3>1. \A v \in Worker, k \in Job :
            /\ Runs(v, k) => Runs(v, k)'
            /\ wjob[v] = k /\ wpc[v] = "taken"
                 => (wjob[v] = k /\ wpc[v] = "taken")'
      BY <1>9 DEF WorkerReport, IInv, TypeOK, Runs
    <3> QED
      BY SMT, <1>9, <3>1 DEF WorkerReport, IInv, OwnerInv
  <2> QED
    BY <2>3, <2>4, <2>5, <2>6, <2>7, <2>8 DEF IInv
<1> QED
  BY <1>1, <1>2, <1>3, <1>4, <1>5, <1>6, <1>7, <1>8, <1>9 DEF WorkerStep

\* Every step of Close keeps the invariant.
LEMMA CloseKeepsIInv ==
  ASSUME IInv,
         CloseBegin \/ CloseStep
  PROVE  IInv'
<1> USE NoJobAssumption DEF jobVars, workerVars, closeVars
<1>1. CASE CloseBegin
  <2>1. TypeOK'
    BY <1>1 DEF CloseBegin, IInv, TypeOK
  <2>2. CloseInv'
    BY <1>1 DEF CloseBegin, IInv, CloseInv
  <2>3. OwnerInv'
    BY <1>1 DEF CloseBegin, IInv, OwnerInv, Runs
  <2>4. JobInv' /\ QueueInv' /\ WorkerInv'
    BY SMT, <1>1 DEF CloseBegin, IInv, JobInv, QueueInv, WorkerInv
  <2> QED
    BY <2>1, <2>2, <2>3, <2>4 DEF IInv
<1>2. CASE CloseDrain
  <2>1. /\ Head(queue) \in Job
        /\ InQueue(queue, Head(queue))
        /\ Tail(queue) \in Seq(Job)
        /\ Len(Tail(queue)) = Len(queue) - 1
        /\ \A k : InQueue(Tail(queue), k)
                    <=> InQueue(queue, k) /\ k # Head(queue)
        /\ Distinct(Tail(queue))
    BY <1>2, TailFacts DEF CloseDrain, IInv, TypeOK, QueueInv
  <2>2. queue' \in Seq(Job) /\ Len(queue') <= QueueSize
    BY SMT, <1>2, <2>1, QueueSizeAssumption DEF CloseDrain, IInv, TypeOK
  <2>3. TypeOK'
    BY <1>2, <2>1, <2>2 DEF CloseDrain, IInv, TypeOK
  <2>4. QueueInv'
    BY <1>2, <2>1, <2>2 DEF CloseDrain, IInv, QueueInv
  <2>5. WorkerInv'
    BY SMT, <1>2, <2>1, <2>2 DEF CloseDrain, IInv, TypeOK, QueueInv, WorkerInv
  <2>6. CloseInv'
    BY <1>2, <2>1, <2>2 DEF CloseDrain, IInv, TypeOK, QueueInv, CloseInv
  <2>7. OwnerInv'
    BY SMT, <1>2, <2>1, <2>2 DEF CloseDrain, IInv, OwnerInv, Runs
  <2>8. JobInv'
    BY <1>2 DEF CloseDrain, IInv, JobInv
  <2> QED
    BY <2>3, <2>4, <2>5, <2>6, <2>7, <2>8 DEF IInv
<1>3. CASE CloseCancel
  <2>1. cjob \in Job /\ cjob # "none"
    BY <1>3 DEF CloseCancel, IInv, TypeOK, CloseInv
  <2>2. TypeOK'
    BY <1>3, <2>1 DEF CloseCancel, Cancelled, State, IInv, TypeOK
  <2>3. JobInv'
    BY SMT, <1>3, <2>1 DEF CloseCancel, IInv, TypeOK, JobInv, CloseInv
  <2>4. QueueInv'
    BY SMT, <1>3, <2>1 DEF CloseCancel, IInv, TypeOK, QueueInv
  <2>5. WorkerInv'
    BY SMT, <1>3, <2>1 DEF CloseCancel, IInv, TypeOK, WorkerInv
  <2>6. CloseInv'
    BY SMT, <1>3, <2>1 DEF CloseCancel, IInv, TypeOK, CloseInv
  <2>7. OwnerInv'
    BY SMT, <1>3, <2>1 DEF CloseCancel, IInv, TypeOK, QueueInv, OwnerInv, Runs
  <2> QED
    BY <2>2, <2>3, <2>4, <2>5, <2>6, <2>7 DEF IInv
<1>4. CASE CloseReport
  <2>1. cjob \in Job
    BY <1>4 DEF CloseReport, IInv, TypeOK, CloseInv
  <2>2. log' \in [Job -> Seq(Transition)]
    BY SMT, <1>4, <2>1, TransitionFacts DEF CloseReport, Publish, IInv, TypeOK
  <2>3. TypeOK'
    BY <1>4, <2>1, <2>2 DEF CloseReport, IInv, TypeOK
  <2>4. JobInv'
    BY SMT, <1>4, <2>1, <2>2 DEF CloseReport, Publish, IInv, TypeOK, JobInv,
       CloseInv
  <2>5. QueueInv'
    BY <1>4, <2>1, <2>2 DEF CloseReport, IInv, QueueInv
  <2>6. WorkerInv'
    BY <1>4, <2>1, <2>2 DEF CloseReport, IInv, WorkerInv
  <2>7. CloseInv'
    BY <1>4, <2>1, <2>2 DEF CloseReport, IInv, CloseInv
  <2>8. OwnerInv'
    BY ZenonT(40), <1>4, <2>1, <2>2 DEF CloseReport, IInv, OwnerInv, Runs
  <2> QED
    BY <2>3, <2>4, <2>5, <2>6, <2>7, <2>8 DEF IInv
<1>5. CASE CloseDrained
  <2>1. TypeOK'
    BY <1>5 DEF CloseDrained, IInv, TypeOK
  <2>2. CloseInv'
    BY SMT, <1>5 DEF CloseDrained, IInv, CloseInv, InQueue
  <2>3. OwnerInv'
    BY <1>5 DEF CloseDrained, IInv, OwnerInv, Runs
  <2>4. JobInv' /\ QueueInv' /\ WorkerInv'
    BY SMT, <1>5 DEF CloseDrained, IInv, JobInv, QueueInv, WorkerInv
  <2> QED
    BY <2>1, <2>2, <2>3, <2>4 DEF IInv
<1>6. CASE CloseRootCancel
  <2>1. TypeOK'
    BY <1>6 DEF CloseRootCancel, Cancelled, IInv, TypeOK
  <2>2. CloseInv'
    BY <1>6 DEF CloseRootCancel, IInv, CloseInv
  <2>3. OwnerInv'
    BY <1>6 DEF CloseRootCancel, IInv, OwnerInv, Runs
  <2>4. JobInv' /\ QueueInv' /\ WorkerInv'
    BY SMT, <1>6 DEF CloseRootCancel, IInv, JobInv, QueueInv, WorkerInv
  <2> QED
    BY <2>1, <2>2, <2>3, <2>4 DEF IInv
<1>7. CASE CloseReturn
  <2>1. TypeOK'
    BY <1>7 DEF CloseReturn, IInv, TypeOK
  <2>2. CloseInv'
    BY <1>7 DEF CloseReturn, IInv, CloseInv
  <2>3. OwnerInv'
    BY <1>7 DEF CloseReturn, IInv, OwnerInv, Runs
  <2>4. JobInv' /\ QueueInv' /\ WorkerInv'
    BY SMT, <1>7 DEF CloseReturn, IInv, JobInv, QueueInv, WorkerInv
  <2> QED
    BY <2>1, <2>2, <2>3, <2>4 DEF IInv
<1> QED
  BY <1>1, <1>2, <1>3, <1>4, <1>5, <1>6, <1>7 DEF CloseStep

\* The manager NewManager builds satisfies the invariant.
LEMMA InitIInv == Init => IInv
<1> SUFFICES ASSUME Init PROVE IInv
  OBVIOUS
<1>1. queue \in Seq(Job) /\ Len(queue) = 0 /\ \A j : ~InQueue(queue, j)
  BY SMT DEF Init, InQueue
<1>2. TypeOK
  <2>1. log \in [Job -> Seq(Transition)]
    BY SMT DEF Init
  <2>2. Len(queue) <= QueueSize
    BY SMT, <1>1, QueueSizeAssumption
  <2>3. total \in [{"completed", "failed"} -> Nat]
    BY DEF Init
  <2>4. /\ enq \in [Job -> {"new"}]
        /\ state \in [Job -> {"absent"}]
        /\ started \in [Job -> BOOLEAN]
        /\ ctx \in [Job -> {"none"}]
        /\ wpc \in [Worker -> {"idle"}]
        /\ wjob \in [Worker -> {"none"}]
        /\ wnext \in [Worker -> {"none"}]
        /\ closed \in BOOLEAN /\ rootDone \in BOOLEAN
    BY DEF Init
  <2>5. cpc = "open" /\ cjob = "none" /\ early = {} /\ cancelPub = {}
    BY DEF Init
  <2> QED
    BY SMT, <1>1, <2>1, <2>2, <2>3, <2>4, <2>5 DEF TypeOK
<1>3. JobInv /\ WorkerInv /\ CloseInv /\ OwnerInv
  BY <1>1 DEF Init, JobInv, WorkerInv, CloseInv, OwnerInv
<1>4. QueueInv
  BY SMT, <1>1 DEF QueueInv, Distinct
<1> QED
  BY <1>2, <1>3, <1>4 DEF IInv

\* Steps that change nothing keep the invariant.
LEMMA StutterKeepsIInv == IInv /\ UNCHANGED vars => IInv'
BY SMT DEF vars, jobVars, workerVars, closeVars, IInv, TypeOK, JobInv, QueueInv,
       WorkerInv, CloseInv, OwnerInv, Runs

\* The invariant is inductive: it holds in every state the manager reaches.
THEOREM Invariance == Spec => []IInv
<1>1. IInv /\ [Next]_vars => IInv'
  <2> SUFFICES ASSUME IInv, [Next]_vars PROVE IInv'
    OBVIOUS
  <2>1. CASE \E j \in Job : EnqueueCheck(j) \/ EnqueueStep(j)
    BY <2>1, EnqueueKeepsIInv
  <2>2. CASE \E j \in Job : \/ CancelQueued(j)
                            \/ CancelPublish(j)
                            \/ CancelRunning(j)
                            \/ DeadlineExpires(j)
    BY <2>2, CancelKeepsIInv
  <2>3. CASE \E w \in Worker :
               WorkerStep(w) \/ \E err \in Result : WorkerReturn(w, err)
    BY <2>3, WorkerKeepsIInv
  <2>4. CASE CloseBegin \/ CloseStep
    BY <2>4, CloseKeepsIInv
  <2>5. CASE Stopped \/ UNCHANGED vars
    BY <2>5, StutterKeepsIInv DEF Stopped
  <2> QED
    BY <2>1, <2>2, <2>3, <2>4, <2>5 DEF Next
<1> QED
  BY <1>1, InitIInv, PTL DEF Spec

\* Every variable keeps its type, the queue its bound, in every execution of
\* the manager with any number of jobs and workers.
THEOREM TypeCorrect == Spec => []TypeOK
<1>1. IInv => TypeOK
  BY DEF IInv
<1> QED
  BY <1>1, Invariance, PTL

\* A job is in StateRunning exactly while one worker executes it, whatever
\* Cancel, the deadlines and Close do meanwhile.
THEOREM RunningOwned == Spec => []RunningIffOneWorker
<1>1. IInv => RunningIffOneWorker
  <2> SUFFICES ASSUME IInv, NEW j \in Job
               PROVE  IF state[j] = "running"
                      THEN \E w \in Worker :
                             \A v \in Worker : Runs(v, j) <=> v = w
                      ELSE \A w \in Worker : ~Runs(w, j)
    BY DEF RunningIffOneWorker
  <2>1. CASE state[j] = "running"
    <3>1. PICK w \in Worker : Runs(w, j)
      BY <2>1 DEF IInv, OwnerInv
    <3>2. \A v \in Worker : Runs(v, j) => v = w
      BY <3>1, NoJobAssumption DEF IInv, WorkerInv, Runs
    <3> QED
      BY <2>1, <3>1, <3>2
  <2>2. CASE state[j] # "running"
    BY <2>2 DEF IInv, WorkerInv, Runs
  <2> QED
    BY <2>1, <2>2
<1> QED
  BY <1>1, Invariance, PTL

\* When Close returns, every job sent before Close was called has ended.
THEOREM CloseSettles == Spec => []CloseSettlesEarlierJobs
<1>1. IInv => CloseSettlesEarlierJobs
  <2> SUFFICES ASSUME IInv, cpc = "returned", NEW j \in early
               PROVE  isTerminal(state[j])
    BY DEF CloseSettlesEarlierJobs
  <2>1. j \in Job /\ enq[j] \in {"sent", "accepted"} /\ ~InQueue(queue, j)
    BY DEF IInv, TypeOK, CloseInv
  <2>2. \A w \in Worker : wpc[w] = "exited"
    BY DEF IInv, CloseInv
  <2>3. state[j] # "running"
    BY <2>1, <2>2 DEF IInv, OwnerInv, Runs
  <2>4. state[j] # "queued"
    BY <2>1, <2>2 DEF IInv, OwnerInv
  <2>5. state[j] # "absent"
    BY <2>1 DEF IInv, JobInv
  <2> QED
    BY <2>1, <2>3, <2>4, <2>5 DEF IInv, TypeOK, State, isTerminal
<1> QED
  BY <1>1, Invariance, PTL

(***************************************************************************)
(* What the publisher is told.                                             *)
(***************************************************************************)
Submission == <<"absent", "queued">>
Start == <<"queued", "running">>
Cancellation == <<"queued", "cancelled">>
End(s) == <<"running", s>>

EndStates == {"completed", "failed", "cancelled"}

\* Which records have been started, and who may still have to announce what.
StartInv ==
  /\ \A j \in Job :
       /\ started[j] => state[j] \in {"running", "completed", "failed", "cancelled"}
       /\ state[j] \in {"running", "completed", "failed"} => started[j]
       /\ j \in cancelPub => ~started[j] /\ ~(cjob = j /\ cpc = "reporting")
       /\ InQueue(queue, j) => ~started[j]
  /\ cpc = "reporting" => ~started[cjob]
  /\ \A w \in Worker :
       /\ wpc[w] = "taken" => ~started[wjob[w]]
       /\ wjob[w] # "none" /\ wpc[w] # "taken" => started[wjob[w]]

\* Each transition has been announced exactly when it was made and the goroutine
\* that made it has got past its call of the publisher.
TellInv ==
  \A j \in Job :
    /\ Distinct(log[j])
    /\ InQueue(log[j], Submission) <=> enq[j] = "accepted"
    /\ InQueue(log[j], Start) <=>
         started[j] /\ \A w \in Worker : ~(wjob[w] = j /\ wpc[w] = "announcing")
    /\ InQueue(log[j], Cancellation) <=>
         /\ state[j] = "cancelled" /\ ~started[j]
         /\ j \notin cancelPub /\ ~(cjob = j /\ cpc = "reporting")
    /\ \A s \in EndStates :
         InQueue(log[j], End(s)) <=>
           /\ state[j] = s /\ started[j]
           /\ \A w \in Worker : ~(wjob[w] = j /\ wpc[w] \in {"counting", "reporting"})

\* The transitions of a job are different from each other.
LEMMA TransitionsDiffer ==
  /\ Submission # Start /\ Submission # Cancellation /\ Start # Cancellation
  /\ \A s \in EndStates : End(s) # Submission /\ End(s) # Start /\ End(s) # Cancellation
  /\ \A s, t \in EndStates : End(s) = End(t) => s = t
  /\ Submission \in Transition /\ Start \in Transition /\ Cancellation \in Transition
  /\ \A s \in EndStates : End(s) \in Transition
  /\ \A t \in Transition :
       t \in {Submission, Start, Cancellation} \/ \E s \in EndStates : t = End(s)
BY SMT DEF Submission, Start, Cancellation, End, EndStates, Transition, State, canTransition

Adds(j, t) ==
  /\ \A k \in Job \ {j} : log'[k] = log[k]
  /\ \A u : InQueue(log'[j], u) <=> InQueue(log[j], u) \/ u = t
  /\ Distinct(log[j]) /\ ~InQueue(log[j], t) => Distinct(log'[j])

\* A publication adds one announcement to the log of its job.
LEMMA PublishFacts ==
  ASSUME log \in [Job -> Seq(Transition)], NEW j \in Job, NEW p, NEW n, <<p, n>> \in Transition,
         Publish(j, p, n)
  PROVE  Adds(j, <<p, n>>)
<1> DEFINE t == <<p, n>>
<1>1. log' = [log EXCEPT ![j] = Append(log[j], t)]
  BY DEF Publish
<1>2. log'[j] = Append(log[j], t) /\ \A k \in Job \ {j} : log'[k] = log[k]
  BY <1>1
<1>3. PICK q \in Seq(Transition) : q = log[j]
  OBVIOUS
<1>4. /\ \A u : InQueue(Append(q, t), u) <=> InQueue(q, u) \/ u = t
      /\ Distinct(q) /\ ~InQueue(q, t) => Distinct(Append(q, t))
  BY SMT, <1>3, AppendFacts
<1> QED BY <1>2, <1>3, <1>4 DEF Adds

\* A publication of a transition that was not announced before changes the account
\* of that transition and of no other.
LEMMA AddsTell ==
  ASSUME TellInv, NEW j \in Job, NEW t, Adds(j, t), ~InQueue(log[j], t)
  PROVE  \A k \in Job :
           /\ Distinct(log'[k])
           /\ \A u : InQueue(log'[k], u) <=> InQueue(log[k], u) \/ (k = j /\ u = t)
<1>1. \A k \in Job : Distinct(log[k])
  BY DEF TellInv
<1>2. ASSUME NEW k \in Job, k # j
      PROVE  /\ Distinct(log'[k])
             /\ \A u : InQueue(log'[k], u) <=> InQueue(log[k], u) \/ (k = j /\ u = t)
  <2>1. log'[k] = log[k]
    BY <1>2 DEF Adds
  <2> QED BY <1>1, <1>2, <2>1
<1>3. /\ Distinct(log'[j])
      /\ \A u : InQueue(log'[j], u) <=> InQueue(log[j], u) \/ u = t
  BY <1>1 DEF Adds
<1> QED BY <1>2, <1>3

\* A step that changes none of the variables the two invariants read.
LEMMA SilentTells ==
  ASSUME StartInv, TellInv,
         UNCHANGED <<enq, state, started, queue, wpc, wjob, cpc, cjob, cancelPub, log>>
  PROVE  StartInv' /\ TellInv'
<1>1. StartInv'
  BY SMT DEF StartInv
<1>2. TellInv'
  BY SMT DEF TellInv
<1> QED BY <1>1, <1>2

\* The steps of Enqueue, Cancel and the deadlines.
LEMMA CallersTell ==
  ASSUME IInv, StartInv, TellInv, NEW j \in Job,
         \/ EnqueueCheck(j) \/ EnqueueStep(j)
         \/ CancelQueued(j) \/ CancelPublish(j) \/ CancelRunning(j) \/ DeadlineExpires(j)
  PROVE  StartInv' /\ TellInv'
<1> USE NoJobAssumption DEF jobVars, workerVars, closeVars
<1>1. CASE EnqueueCheck(j)
  <2>1. StartInv'
    BY <1>1 DEF EnqueueCheck, StartInv
  <2>2. TellInv'
    BY SMT, <1>1 DEF EnqueueCheck, IInv, TypeOK, TellInv
  <2> QED BY <2>1, <2>2
<1>2. CASE EnqueueStore(j)
  <2>1. state[j] = "absent"
    BY <1>2 DEF EnqueueStore, IInv, JobInv
  <2>2. StartInv'
    BY SMT, <1>2, <2>1 DEF EnqueueStore, IInv, TypeOK, JobInv, StartInv
  <2>3. TellInv'
    BY SMT, <1>2, <2>1 DEF EnqueueStore, IInv, TypeOK, TellInv, EndStates
  <2> QED BY <2>2, <2>3
<1>3. CASE EnqueueSend(j)
  <2>1. StartInv'
    <3>1. \A k : InQueue(queue', k) <=> InQueue(queue, k) \/ k = j
      BY <1>3, AppendFacts DEF EnqueueSend, IInv, TypeOK
    <3>2. state[j] = "queued"
      BY <1>3 DEF EnqueueSend, IInv, JobInv
    <3> QED BY <1>3, <3>1, <3>2 DEF EnqueueSend, StartInv
  <2>2. TellInv'
    BY SMT, <1>3 DEF EnqueueSend, IInv, TypeOK, TellInv
  <2> QED BY <2>1, <2>2
<1>4. CASE EnqueueFull(j)
  <2>1. StartInv'
    BY <1>4 DEF EnqueueFull, StartInv
  <2>2. TellInv'
    BY SMT, <1>4 DEF EnqueueFull, IInv, TypeOK, TellInv
  <2> QED BY <2>1, <2>2
<1>5. CASE EnqueueWithdraw(j)
  <2>1. state[j] = "queued"
    BY <1>5 DEF EnqueueWithdraw, IInv, JobInv
  <2>2. StartInv'
    BY SMT, <1>5, <2>1 DEF EnqueueWithdraw, IInv, TypeOK, JobInv, StartInv
  <2>3. TellInv'
    BY SMT, <1>5, <2>1 DEF EnqueueWithdraw, IInv, TypeOK, TellInv, EndStates
  <2> QED BY <2>2, <2>3
<1>6. CASE EnqueuePublish(j)
  <2>1. StartInv'
    BY <1>6 DEF EnqueuePublish, StartInv
  <2>2. Adds(j, Submission)
    BY <1>6, PublishFacts, TransitionsDiffer DEF EnqueuePublish, IInv, TypeOK, Submission
  <2>3. TellInv'
    BY SMT, <1>6, <2>2, TransitionsDiffer DEF EnqueuePublish, IInv, TypeOK, TellInv, Adds
  <2> QED BY <2>1, <2>3
<1>7. CASE CancelQueued(j)
  <2>1. StartInv'
    BY ZenonT(40), <1>7 DEF CancelQueued, IInv, TypeOK, CloseInv, StartInv
  <2>2. TellInv'
    BY SMT, <1>7 DEF CancelQueued, IInv, TypeOK, StartInv, TellInv, EndStates
  <2> QED BY <2>1, <2>2
<1>8. CASE CancelPublish(j)
  <2>1. StartInv'
    BY <1>8 DEF CancelPublish, StartInv
  <2>2. Adds(j, Cancellation)
    BY <1>8, PublishFacts, TransitionsDiffer DEF CancelPublish, IInv, TypeOK, Cancellation
  <2>3. TellInv'
    <3>1. /\ enq' = enq /\ state' = state /\ started' = started /\ wpc' = wpc /\ wjob' = wjob
          /\ cjob' = cjob /\ cpc' = cpc /\ j \in cancelPub /\ cancelPub' = cancelPub \ {j}
      BY <1>8 DEF CancelPublish
    <3>2. state[j] = "cancelled" /\ ~started[j] /\ ~(cjob = j /\ cpc = "reporting")
      BY <3>1 DEF IInv, JobInv, StartInv
    <3>3. ~InQueue(log[j], Cancellation)
      BY <3>1 DEF TellInv
    <3>4. \A k \in Job :
            /\ Distinct(log'[k])
            /\ \A u : InQueue(log'[k], u) <=> InQueue(log[k], u) \/ (k = j /\ u = Cancellation)
      BY <2>2, <3>3, AddsTell
    <3>5. ASSUME NEW k \in Job
          PROVE  /\ InQueue(log'[k], Submission) <=> InQueue(log[k], Submission)
                 /\ InQueue(log'[k], Start) <=> InQueue(log[k], Start)
                 /\ \A s \in EndStates : InQueue(log'[k], End(s)) <=> InQueue(log[k], End(s))
      <4>1. Start # Cancellation /\ Submission # Cancellation /\ \A s \in EndStates : End(s) # Cancellation
        BY TransitionsDiffer
      <4>2. \A u : u # Cancellation => (InQueue(log'[k], u) <=> InQueue(log[k], u))
        BY <3>4
      <4>3. InQueue(log'[k], Submission) <=> InQueue(log[k], Submission)
        BY <4>1, <4>2
      <4>4. InQueue(log'[k], Start) <=> InQueue(log[k], Start)
        BY <4>1, <4>2
      <4>5. \A s \in EndStates : InQueue(log'[k], End(s)) <=> InQueue(log[k], End(s))
        BY <4>1, <4>2
      <4> QED BY <4>3, <4>4, <4>5
    <3>6. ASSUME NEW k \in Job
          PROVE  InQueue(log'[k], Cancellation) <=>
                   /\ state[k] = "cancelled" /\ ~started[k]
                   /\ k \notin cancelPub' /\ ~(cjob = k /\ cpc = "reporting")
      <4>1. CASE k = j
        BY <3>1, <3>2, <3>4, <4>1
      <4>2. CASE k # j
        BY <3>1, <3>4, <4>2 DEF TellInv
      <4> QED BY <4>1, <4>2
    <3> SUFFICES ASSUME NEW k \in Job
                 PROVE  /\ Distinct(log'[k])
                        /\ InQueue(log'[k], Submission) <=> enq[k] = "accepted"
                        /\ InQueue(log'[k], Start) <=>
                             /\ started[k]
                             /\ \A v \in Worker : ~(wjob[v] = k /\ wpc[v] = "announcing")
                        /\ InQueue(log'[k], Cancellation) <=>
                             /\ state[k] = "cancelled" /\ ~started[k]
                             /\ k \notin cancelPub' /\ ~(cjob = k /\ cpc = "reporting")
                        /\ \A s \in EndStates :
                             InQueue(log'[k], End(s)) <=>
                               /\ state[k] = s /\ started[k]
                               /\ \A v \in Worker : ~(wjob[v] = k /\ wpc[v] \in {"counting", "reporting"})
      BY <3>1 DEF TellInv
    <3>7. /\ InQueue(log[k], Submission) <=> enq[k] = "accepted"
          /\ InQueue(log[k], Start) <=>
               started[k] /\ \A v \in Worker : ~(wjob[v] = k /\ wpc[v] = "announcing")
          /\ \A s \in EndStates :
               InQueue(log[k], End(s)) <=>
                 /\ state[k] = s /\ started[k]
                 /\ \A v \in Worker : ~(wjob[v] = k /\ wpc[v] \in {"counting", "reporting"})
      BY DEF TellInv
    <3> QED BY <3>4, <3>5, <3>6, <3>7
  <2> QED BY <2>1, <2>3
<1>9. CASE CancelRunning(j)
  BY SMT, <1>9, SilentTells DEF CancelRunning
<1>10. CASE DeadlineExpires(j)
  BY SMT, <1>10, SilentTells DEF DeadlineExpires
<1> QED
  BY <1>1, <1>2, <1>3, <1>4, <1>5, <1>6, <1>7, <1>8, <1>9, <1>10 DEF EnqueueStep

\* The workers keep the account of announcements.
LEMMA WorkersTell ==
  ASSUME IInv, StartInv, TellInv, NEW w \in Worker,
         WorkerStep(w) \/ \E err \in Result : WorkerReturn(w, err)
  PROVE  StartInv' /\ TellInv'
<1> USE NoJobAssumption DEF jobVars, workerVars, closeVars
<1>1. CASE WorkerExit(w)
  <2>1. StartInv'
    BY SMT, <1>1 DEF WorkerExit, IInv, TypeOK, WorkerInv, StartInv
  <2>2. TellInv'
    BY SMT, <1>1 DEF WorkerExit, IInv, TypeOK, WorkerInv, TellInv
  <2> QED BY <2>1, <2>2
<1>2. CASE WorkerTake(w)
  <2>1. /\ Head(queue) \in Job /\ InQueue(queue, Head(queue))
        /\ \A k : InQueue(queue', k) => InQueue(queue, k)
    BY <1>2, TailFacts DEF WorkerTake, IInv, TypeOK, QueueInv
  <2>2. state[Head(queue)] \in {"queued", "cancelled"} /\ \A v \in Worker : wjob[v] # Head(queue)
    BY <2>1 DEF IInv, QueueInv
  <2>3. StartInv'
    <3>1. /\ wjob[w] = "none" /\ wjob' = [wjob EXCEPT ![w] = Head(queue)]
          /\ wpc' = [wpc EXCEPT ![w] = "taken"]
          /\ UNCHANGED <<state, started, cpc, cjob, cancelPub>>
      BY <1>2 DEF WorkerTake, IInv, WorkerInv
    <3>2. ~started[Head(queue)]
      BY <2>1 DEF StartInv
    <3> QED BY <2>1, <3>1, <3>2 DEF IInv, TypeOK, StartInv
  <2>4. TellInv'
    BY SMT, <1>2, <2>1, <2>2 DEF WorkerTake, IInv, TypeOK, WorkerInv, TellInv
  <2> QED BY <2>3, <2>4
<1>3. CASE WorkerStart(w)
  <2>1. wjob[w] \in Job /\ state[wjob[w]] = "queued"
    BY <1>3 DEF WorkerStart, canTransition, IInv, TypeOK, WorkerInv
  <2>2. StartInv'
    BY SMT, <1>3, <2>1 DEF WorkerStart, IInv, TypeOK, JobInv, QueueInv, WorkerInv, CloseInv, StartInv
  <2>3. TellInv'
    BY SMT, <1>3, <2>1 DEF WorkerStart, IInv, TypeOK, WorkerInv, StartInv, TellInv, EndStates
  <2> QED BY <2>2, <2>3
<1>4. CASE WorkerSkip(w)
  <2>1. StartInv'
    BY SMT, <1>4 DEF WorkerSkip, IInv, TypeOK, WorkerInv, StartInv
  <2>2. TellInv'
    <3>1. /\ wpc[w] = "taken" /\ wpc' = [wpc EXCEPT ![w] = "idle"]
          /\ wjob' = [wjob EXCEPT ![w] = "none"]
          /\ UNCHANGED <<enq, state, started, cpc, cjob, cancelPub, log>>
      BY <1>4 DEF WorkerSkip
    <3>2. /\ \A v \in Worker \ {w} : wpc'[v] = wpc[v] /\ wjob'[v] = wjob[v]
          /\ wpc'[w] = "idle"
      BY <3>1 DEF IInv, TypeOK
    <3> QED BY SMT, <3>1, <3>2 DEF TellInv
  <2> QED BY <2>1, <2>2
<1>5. CASE WorkerAnnounce(w)
  <2>1. PICK j \in Job : j = wjob[w]
    BY <1>5 DEF WorkerAnnounce, IInv, TypeOK, WorkerInv
  <2>2. started[j] /\ \A v \in Worker : wjob[v] = j => v = w
    BY <1>5, <2>1 DEF WorkerAnnounce, IInv, WorkerInv, StartInv
  <2>3. StartInv'
    BY SMT, <1>5 DEF WorkerAnnounce, IInv, TypeOK, WorkerInv, StartInv
  <2>4. Adds(j, Start)
    BY <1>5, <2>1, PublishFacts, TransitionsDiffer DEF WorkerAnnounce, IInv, TypeOK, Start
  <2>5. /\ wpc[w] = "announcing" /\ wpc' = [wpc EXCEPT ![w] = "body"]
        /\ UNCHANGED <<enq, state, started, wjob, cjob, cpc, cancelPub>>
    BY <1>5 DEF WorkerAnnounce
  <2>6. TellInv'
    <3>1. \A v \in Worker \ {w} : wpc'[v] = wpc[v]
      BY <2>5 DEF IInv, TypeOK
    <3>2. wpc'[w] = "body"
      BY <2>5 DEF IInv, TypeOK
    <3>3. ~InQueue(log[j], Start)
      BY <2>1, <2>5 DEF TellInv
    <3>4. \A k \in Job :
            /\ Distinct(log'[k])
            /\ \A u : InQueue(log'[k], u) <=> InQueue(log[k], u) \/ (k = j /\ u = Start)
      BY <2>4, <3>3, AddsTell
    <3>5. ASSUME NEW k \in Job
          PROVE  /\ InQueue(log'[k], Submission) <=> InQueue(log[k], Submission)
                 /\ InQueue(log'[k], Cancellation) <=> InQueue(log[k], Cancellation)
                 /\ \A s \in EndStates : InQueue(log'[k], End(s)) <=> InQueue(log[k], End(s))
      <4>1. Cancellation # Start /\ Submission # Start /\ \A s \in EndStates : End(s) # Start
        BY TransitionsDiffer
      <4>2. \A u : u # Start => (InQueue(log'[k], u) <=> InQueue(log[k], u))
        BY <3>4
      <4>3. InQueue(log'[k], Submission) <=> InQueue(log[k], Submission)
        BY <4>1, <4>2
      <4>4. InQueue(log'[k], Cancellation) <=> InQueue(log[k], Cancellation)
        BY <4>1, <4>2
      <4>5. \A s \in EndStates : InQueue(log'[k], End(s)) <=> InQueue(log[k], End(s))
        BY <4>1, <4>2
      <4> QED BY <4>3, <4>4, <4>5
    <3>6. ASSUME NEW k \in Job
          PROVE  InQueue(log'[k], Start) <=>
                   started[k] /\ \A v \in Worker : ~(wjob[v] = k /\ wpc'[v] = "announcing")
      <4>1. CASE k = j
        BY <2>2, <3>2, <3>4, <4>1
      <4>2. CASE k # j
        <5>1. \A v \in Worker : wjob[v] = k => wpc'[v] = wpc[v]
          BY <2>1, <3>1, <4>2
        <5> QED BY <3>4, <4>2, <5>1 DEF TellInv
      <4> QED BY <4>1, <4>2
    <3>7. \A v \in Worker : wpc'[v] \in {"counting", "reporting"} <=> wpc[v] \in {"counting", "reporting"}
      BY <2>5, <3>1, <3>2
    <3>8. /\ enq' = enq /\ state' = state /\ started' = started /\ wjob' = wjob
          /\ cjob' = cjob /\ cpc' = cpc /\ cancelPub' = cancelPub
      BY <2>5
    <3> SUFFICES ASSUME NEW k \in Job
                 PROVE  /\ Distinct(log'[k])
                        /\ InQueue(log'[k], Submission) <=> enq[k] = "accepted"
                        /\ InQueue(log'[k], Start) <=>
                             /\ started[k]
                             /\ \A v \in Worker : ~(wjob[v] = k /\ wpc'[v] = "announcing")
                        /\ InQueue(log'[k], Cancellation) <=>
                             /\ state[k] = "cancelled" /\ ~started[k]
                             /\ k \notin cancelPub /\ ~(cjob = k /\ cpc = "reporting")
                        /\ \A s \in EndStates :
                             InQueue(log'[k], End(s)) <=>
                               /\ state[k] = s /\ started[k]
                               /\ \A v \in Worker : ~(wjob[v] = k /\ wpc'[v] \in {"counting", "reporting"})
      BY <3>8 DEF TellInv
    <3>9. /\ InQueue(log[k], Submission) <=> enq[k] = "accepted"
          /\ InQueue(log[k], Cancellation) <=>
               /\ state[k] = "cancelled" /\ ~started[k]
               /\ k \notin cancelPub /\ ~(cjob = k /\ cpc = "reporting")
          /\ \A s \in EndStates :
               InQueue(log[k], End(s)) <=>
                 /\ state[k] = s /\ started[k]
                 /\ \A v \in Worker : ~(wjob[v] = k /\ wpc[v] \in {"counting", "reporting"})
      BY DEF TellInv
    <3>10. \A s \in EndStates :
             InQueue(log'[k], End(s)) <=>
               /\ state[k] = s /\ started[k]
               /\ \A v \in Worker : ~(wjob[v] = k /\ wpc'[v] \in {"counting", "reporting"})
      BY <3>5, <3>7, <3>9
    <3> QED BY <3>4, <3>5, <3>6, <3>9, <3>10
  <2> QED BY <2>3, <2>6
<1>6. CASE \E err \in Result : WorkerReturn(w, err)
  <2>1. StartInv'
    BY SMT, <1>6 DEF WorkerReturn, IInv, TypeOK, WorkerInv, StartInv
  <2>2. TellInv'
    BY SMT, <1>6 DEF WorkerReturn, IInv, TypeOK, WorkerInv, TellInv
  <2> QED BY <2>1, <2>2
<1>7. CASE WorkerFinish(w)
  <2>1. PICK j \in Job : j = wjob[w]
    BY <1>7 DEF WorkerFinish, IInv, TypeOK, WorkerInv
  <2>2. /\ state[j] = "running" /\ wnext[w] \in EndStates
        /\ \A v \in Worker : wjob[v] = j => v = w
        /\ cjob # j
    BY <1>7, <2>1 DEF WorkerFinish, EndStates, IInv, TypeOK, WorkerInv
  <2>3. /\ wpc[w] = "finishing"
        /\ state' = [state EXCEPT ![j] = wnext[w]]
        /\ \E pc \in {"counting", "reporting"} : wpc' = [wpc EXCEPT ![w] = pc]
        /\ UNCHANGED <<enq, started, queue, wjob, wnext, cjob, cpc, cancelPub, log>>
    BY <1>7, <2>1, <2>2 DEF WorkerFinish, canTransition, EndStates
  <2>4. StartInv'
    BY SMT, <2>1, <2>2, <2>3 DEF IInv, TypeOK, JobInv, WorkerInv, StartInv, EndStates
  <2>5. TellInv'
    <3>1. \A k \in Job \ {j} : state'[k] = state[k]
      BY <2>1, <2>3 DEF IInv, TypeOK
    <3>2. state'[j] = wnext[w] /\ started[j]
      BY <2>1, <2>2, <2>3 DEF IInv, TypeOK, StartInv
    <3>3. /\ wpc'[w] \in {"counting", "reporting"}
          /\ \A v \in Worker \ {w} : wpc'[v] = wpc[v]
      BY <2>3 DEF IInv, TypeOK
    <3>4. \A k \in Job : \A v \in Worker :
            /\ wjob[v] = k /\ wpc'[v] = "announcing" <=> wjob[v] = k /\ wpc[v] = "announcing"
            /\ k # j => (/\ wjob[v] = k /\ wpc'[v] \in {"counting", "reporting"}
                         <=> wjob[v] = k /\ wpc[v] \in {"counting", "reporting"})
      BY <2>1, <2>3, <3>3
    <3>5. \A s \in EndStates : ~InQueue(log[j], End(s))
      BY <2>2 DEF TellInv, EndStates
    <3>6. ~InQueue(log[j], Cancellation)
      BY <2>2 DEF TellInv
    <3>7. enq' = enq /\ started' = started /\ wjob' = wjob /\ cjob' = cjob /\ cpc' = cpc
          /\ cancelPub' = cancelPub /\ log' = log
      BY <2>3
    <3> SUFFICES ASSUME NEW k \in Job
                 PROVE  /\ Distinct(log[k])
                        /\ InQueue(log[k], Submission) <=> enq[k] = "accepted"
                        /\ InQueue(log[k], Start) <=>
                             /\ started[k]
                             /\ \A v \in Worker : ~(wjob[v] = k /\ wpc'[v] = "announcing")
                        /\ InQueue(log[k], Cancellation) <=>
                             /\ state'[k] = "cancelled" /\ ~started[k]
                             /\ k \notin cancelPub /\ ~(cjob = k /\ cpc = "reporting")
                        /\ \A s \in EndStates :
                             InQueue(log[k], End(s)) <=>
                               /\ state'[k] = s /\ started[k]
                               /\ \A v \in Worker : ~(wjob[v] = k /\ wpc'[v] \in {"counting", "reporting"})
      BY <3>7 DEF TellInv
    <3>8. CASE k = j
      <4>1. /\ Distinct(log[k])
            /\ InQueue(log[k], Submission) <=> enq[k] = "accepted"
            /\ InQueue(log[k], Start) <=>
                 started[k] /\ \A v \in Worker : ~(wjob[v] = k /\ wpc[v] = "announcing")
        BY DEF TellInv
      <4>2. InQueue(log[k], Start) <=>
              started[k] /\ \A v \in Worker : ~(wjob[v] = k /\ wpc'[v] = "announcing")
        BY <3>4, <4>1
      <4>3. started[k] /\ ~InQueue(log[k], Cancellation)
        BY <3>2, <3>6, <3>8
      <4>4. /\ \A s \in EndStates : ~InQueue(log[k], End(s))
            /\ wjob[w] = k /\ wpc'[w] \in {"counting", "reporting"}
        BY <2>1, <3>3, <3>5, <3>8
      <4> QED BY <4>1, <4>2, <4>3, <4>4
    <3>9. CASE k # j
      <4>1. /\ Distinct(log[k])
            /\ InQueue(log[k], Submission) <=> enq[k] = "accepted"
            /\ InQueue(log[k], Start) <=>
                 started[k] /\ \A v \in Worker : ~(wjob[v] = k /\ wpc[v] = "announcing")
            /\ InQueue(log[k], Cancellation) <=>
                 /\ state[k] = "cancelled" /\ ~started[k]
                 /\ k \notin cancelPub /\ ~(cjob = k /\ cpc = "reporting")
            /\ \A s \in EndStates :
                 InQueue(log[k], End(s)) <=>
                   /\ state[k] = s /\ started[k]
                   /\ \A v \in Worker : ~(wjob[v] = k /\ wpc[v] \in {"counting", "reporting"})
        BY DEF TellInv
      <4>2. InQueue(log[k], Start) <=>
              started[k] /\ \A v \in Worker : ~(wjob[v] = k /\ wpc'[v] = "announcing")
        BY <3>4, <4>1
      <4>3. \A s \in EndStates :
              InQueue(log[k], End(s)) <=>
                /\ state[k] = s /\ started[k]
                /\ \A v \in Worker : ~(wjob[v] = k /\ wpc'[v] \in {"counting", "reporting"})
        BY <3>4, <3>9, <4>1
      <4>4. state'[k] = state[k]
        BY <3>1, <3>9
      <4> QED BY <4>1, <4>2, <4>3, <4>4
    <3> QED BY <3>8, <3>9
  <2> QED BY <2>4, <2>5
<1>8. CASE WorkerCount(w)
  <2>1. StartInv'
    BY SMT, <1>8 DEF WorkerCount, IInv, TypeOK, WorkerInv, StartInv
  <2>2. TellInv'
    BY SMTT(30), <1>8 DEF WorkerCount, IInv, TypeOK, WorkerInv, TellInv
  <2> QED BY <2>1, <2>2
<1>9. CASE WorkerReport(w)
  <2>1. PICK j \in Job : j = wjob[w]
    BY <1>9 DEF WorkerReport, IInv, TypeOK, WorkerInv
  <2>2. PICK s \in EndStates : s = wnext[w]
    BY <1>9 DEF WorkerReport, IInv, TypeOK, WorkerInv, EndStates
  <2>3. started[j] /\ state[j] = s /\ \A v \in Worker : wjob[v] = j => v = w
    BY <1>9, <2>1, <2>2 DEF WorkerReport, IInv, WorkerInv, StartInv
  <2>4. /\ wpc[w] = "reporting"
        /\ wpc' = [wpc EXCEPT ![w] = "idle"] /\ wjob' = [wjob EXCEPT ![w] = "none"]
        /\ UNCHANGED <<enq, state, started, queue, cjob, cpc, cancelPub>>
    BY <1>9 DEF WorkerReport
  <2>5. StartInv'
    BY SMTT(30), <2>4 DEF IInv, TypeOK, WorkerInv, StartInv
  <2>6. Adds(j, End(s))
    BY <1>9, <2>1, <2>2, PublishFacts, TransitionsDiffer DEF WorkerReport, IInv, TypeOK, End
  <2>7. TellInv'
    <3>1. \A v \in Worker \ {w} : wpc'[v] = wpc[v] /\ wjob'[v] = wjob[v]
      BY <2>4 DEF IInv, TypeOK
    <3>2. wpc'[w] = "idle" /\ wjob'[w] = "none"
      BY <2>4 DEF IInv, TypeOK
    <3> QED BY SMTT(30), <2>1, <2>2, <2>3, <2>4, <2>6, <3>1, <3>2, TransitionsDiffer DEF TellInv, Adds
  <2> QED BY <2>5, <2>7
<1> QED
  BY <1>1, <1>2, <1>3, <1>4, <1>5, <1>6, <1>7, <1>8, <1>9 DEF WorkerStep

\* Close keeps the account of announcements.
LEMMA CloseTells ==
  ASSUME IInv, StartInv, TellInv, CloseBegin \/ CloseStep
  PROVE  StartInv' /\ TellInv'
<1> USE NoJobAssumption DEF jobVars, workerVars, closeVars
<1>1. CASE CloseBegin \/ CloseDrain \/ CloseDrained \/ CloseRootCancel \/ CloseReturn
  <2>1. /\ UNCHANGED <<enq, state, started, wpc, wjob, cancelPub, log>>
        /\ cpc # "reporting" /\ cpc' # "reporting"
        /\ \A k : InQueue(queue', k) => InQueue(queue, k)
    <3>1. CASE CloseDrain
      BY <3>1, TailFacts DEF CloseDrain, IInv, TypeOK, QueueInv
    <3> QED BY <1>1, <3>1 DEF CloseBegin, CloseDrained, CloseRootCancel, CloseReturn
  <2>2. StartInv'
    BY <2>1 DEF StartInv
  <2>3. TellInv'
    BY <2>1 DEF TellInv
  <2> QED BY <2>2, <2>3
<1>2. CASE CloseCancel
  <2>1. cjob \in Job
    BY <1>2 DEF CloseCancel, IInv, TypeOK, CloseInv
  <2>2. CASE state[cjob] = "queued"
    <3>1. /\ state' = [state EXCEPT ![cjob] = "cancelled"] /\ cpc = "drained" /\ cpc' = "reporting"
          /\ UNCHANGED <<enq, started, queue, wpc, wjob, cjob, cancelPub, log>>
      BY <1>2, <2>2 DEF CloseCancel
    <3>2. ~started[cjob] /\ cjob \notin cancelPub
      BY <2>1, <2>2 DEF IInv, JobInv, StartInv
    <3>3. StartInv'
      BY <2>1, <2>2, <3>1, <3>2 DEF IInv, TypeOK, StartInv
    <3>4. TellInv'
      BY SMT, <2>1, <2>2, <3>1, <3>2 DEF IInv, TypeOK, TellInv, EndStates
    <3> QED BY <3>3, <3>4
  <2>3. CASE state[cjob] # "queued"
    <3>1. /\ cpc = "drained" /\ cpc' = "draining"
          /\ UNCHANGED <<enq, state, started, queue, wpc, wjob, cancelPub, log>>
      BY <1>2, <2>3 DEF CloseCancel
    <3>2. StartInv'
      BY <3>1 DEF StartInv
    <3>3. TellInv'
      BY <3>1 DEF TellInv
    <3> QED BY <3>2, <3>3
  <2> QED BY <2>2, <2>3
<1>3. CASE CloseReport
  <2>1. PICK j \in Job : j = cjob
    BY <1>3 DEF CloseReport, IInv, TypeOK, CloseInv
  <2>2. /\ cpc = "reporting" /\ cpc' = "draining"
        /\ UNCHANGED <<enq, state, started, queue, wpc, wjob, cancelPub>>
    BY <1>3 DEF CloseReport
  <2>3. state[j] = "cancelled" /\ ~started[j] /\ j \notin cancelPub
    BY <2>1, <2>2 DEF IInv, CloseInv, StartInv
  <2>4. StartInv'
    BY <2>2 DEF StartInv
  <2>5. Adds(j, Cancellation)
    BY <1>3, <2>1, PublishFacts, TransitionsDiffer DEF CloseReport, IInv, TypeOK, Cancellation
  <2>6. TellInv'
    BY SMTT(30), <2>1, <2>2, <2>3, <2>5, TransitionsDiffer DEF TellInv, Adds
  <2> QED BY <2>4, <2>6
<1> QED BY <1>1, <1>2, <1>3 DEF CloseStep

\* The sets of the properties, element by element.
LEMMA ToldOf ==
  ASSUME TypeOK, NEW j \in Job, NEW t
  PROVE  t \in Told(j) <=> InQueue(log[j], t)
<1>1. DOMAIN log[j] = 1..Len(log[j])
  BY SMT DEF TypeOK
<1> QED BY <1>1 DEF Told, InQueue

\* Which transitions of j are made and not yet announced.
LEMMA UntoldOf ==
  ASSUME NEW j \in Job, NEW t
  PROVE  t \in Untold(j) <=>
           \/ t = Submission /\ enq[j] \in {"stored", "sent", "full"}
           \/ t = Start /\ \E w \in Worker : wjob[w] = j /\ wpc[w] = "announcing"
           \/ \E w \in Worker : /\ wjob[w] = j /\ wpc[w] \in {"counting", "reporting"}
                                /\ t = End(wnext[w])
           \/ t = Cancellation /\ (j \in cancelPub \/ (cjob = j /\ cpc = "reporting"))
BY DEF Untold, Submission, Start, Cancellation, End

\* Which transitions j has made, by its state and whether it started.
LEMMA MadeOf ==
  ASSUME TypeOK, StartInv, NEW j \in Job, NEW t
  PROVE  t \in Made(j) <=>
           \/ t = Submission /\ state[j] # "absent"
           \/ t = Start /\ started[j]
           \/ t = Cancellation /\ state[j] = "cancelled" /\ ~started[j]
           \/ \E s \in EndStates : t = End(s) /\ state[j] = s /\ started[j]
<1>1. started[j] \in BOOLEAN /\ (started[j] => state[j] # "absent")
      /\ (state[j] \in {"completed", "failed"} => started[j])
  BY DEF TypeOK, StartInv
<1>2. CASE state[j] = "absent"
  BY <1>1, <1>2 DEF Made, EndStates
<1>3. CASE state[j] # "absent"
  <2>1. Made(j) = {Submission} \cup {Start : b \in {started[j]} \cap {TRUE}}
                  \cup {<<IF started[j] THEN "running" ELSE "queued", s>> :
                          s \in {u \in {state[j]} : isTerminal(u)}}
    BY <1>3 DEF Made, Submission, Start
  <2>2. CASE started[j]
    <3>1. t \in Made(j) <=> t = Submission \/ t = Start
                            \/ \E s \in {u \in {state[j]} : isTerminal(u)} : t = End(s)
      BY <1>1, <2>1, <2>2 DEF End
    <3> QED BY <1>3, <2>2, <3>1 DEF isTerminal, EndStates
  <2>3. CASE ~started[j]
    <3>1. t \in Made(j) <=> t = Submission
                            \/ \E s \in {u \in {state[j]} : isTerminal(u)} : t = <<"queued", s>>
      BY <1>1, <2>1, <2>3
    <3> QED BY <1>1, <1>3, <2>3, <3>1 DEF isTerminal, Cancellation
  <2> QED BY <1>1, <2>2, <2>3
<1> QED BY <1>2, <1>3

\* The account of announcements says that each is made once.
LEMMA AnnouncedOnce ==
  ASSUME IInv, StartInv, TellInv
  PROVE  EachTransitionAnnouncedOnce
<1> SUFFICES ASSUME NEW j \in Job
             PROVE  /\ Told(j) \cup Untold(j) = Made(j)
                    /\ Told(j) \cap Untold(j) = {}
                    /\ \A h, i \in DOMAIN log[j] : log[j][h] = log[j][i] => h = i
  BY DEF EachTransitionAnnouncedOnce
<1> USE NoJobAssumption
<1>1. TypeOK
  BY DEF IInv
<1>2. DOMAIN log[j] = 1..Len(log[j]) /\ log[j] \in Seq(Transition)
  BY SMT, <1>1 DEF TypeOK
<1>3. \A t : t \in Told(j) => t \in Transition
  BY SMTT(30), <1>1, <1>2, ToldOf DEF InQueue
<1>4. \A w \in Worker : wjob[w] = j /\ wpc[w] \in {"counting", "reporting"} =>
        wnext[w] \in EndStates /\ state[j] = wnext[w] /\ started[j]
  <2> SUFFICES ASSUME NEW w \in Worker, wjob[w] = j, wpc[w] \in {"counting", "reporting"}
               PROVE  wnext[w] \in EndStates /\ state[j] = wnext[w] /\ started[j]
    OBVIOUS
  <2>1. wnext[w] \in {"none", "completed", "failed", "cancelled"}
    BY <1>1 DEF TypeOK
  <2>2. wnext[w] # "none" /\ state[j] = wnext[w]
    BY DEF IInv, WorkerInv
  <2>3. started[j]
    BY DEF StartInv
  <2> QED BY <2>1, <2>2, <2>3 DEF EndStates
<1>ends. \A w \in Worker : wjob[w] = j /\ wpc[w] \in {"counting", "reporting"} =>
           /\ End(wnext[w]) \in Transition
           /\ End(wnext[w]) # Submission /\ End(wnext[w]) # Start
           /\ End(wnext[w]) # Cancellation
           /\ \A s \in EndStates : End(s) = End(wnext[w]) <=> wnext[w] = s
  BY <1>4, TransitionsDiffer
<1>told. \A t : t \in Told(j) <=> InQueue(log[j], t)
  BY <1>1, ToldOf
<1>untold. \A t : t \in Untold(j) <=>
             \/ t = Submission /\ enq[j] \in {"stored", "sent", "full"}
             \/ t = Start /\ \E w \in Worker : wjob[w] = j /\ wpc[w] = "announcing"
             \/ \E w \in Worker : /\ wjob[w] = j /\ wpc[w] \in {"counting", "reporting"}
                                  /\ t = End(wnext[w])
             \/ t = Cancellation /\ (j \in cancelPub \/ (cjob = j /\ cpc = "reporting"))
  BY UntoldOf
<1>made. \A t : t \in Made(j) <=>
             \/ t = Submission /\ state[j] # "absent"
             \/ t = Start /\ started[j]
             \/ t = Cancellation /\ state[j] = "cancelled" /\ ~started[j]
             \/ \E s \in EndStates : t = End(s) /\ state[j] = s /\ started[j]
  BY <1>1, MadeOf
<1>5. /\ Submission \in Told(j) <=> enq[j] = "accepted"
      /\ Submission \in Untold(j) <=> enq[j] \in {"stored", "sent", "full"}
      /\ Submission \in Made(j) <=> state[j] # "absent"
  <2>1. Submission \in Told(j) <=> enq[j] = "accepted"
    BY <1>told DEF TellInv
  <2>2. Submission \in Untold(j) <=> enq[j] \in {"stored", "sent", "full"}
    BY <1>untold, <1>ends, TransitionsDiffer
  <2>3. Submission \in Made(j) <=> state[j] # "absent"
    BY <1>made, TransitionsDiffer
  <2> QED BY <2>1, <2>2, <2>3
<1>6. /\ Start \in Told(j) <=> started[j] /\ \A w \in Worker : ~(wjob[w] = j /\ wpc[w] = "announcing")
      /\ Start \in Untold(j) <=> \E w \in Worker : wjob[w] = j /\ wpc[w] = "announcing"
      /\ Start \in Made(j) <=> started[j]
  <2>1. Start \in Told(j) <=>
          started[j] /\ \A w \in Worker : ~(wjob[w] = j /\ wpc[w] = "announcing")
    BY <1>told DEF TellInv
  <2>2. Start \in Untold(j) <=> \E w \in Worker : wjob[w] = j /\ wpc[w] = "announcing"
    BY <1>untold, <1>ends, TransitionsDiffer
  <2>3. Start \in Made(j) <=> started[j]
    BY <1>made, TransitionsDiffer
  <2> QED BY <2>1, <2>2, <2>3
<1>7. /\ Cancellation \in Told(j) <=>
           /\ state[j] = "cancelled" /\ ~started[j]
           /\ j \notin cancelPub /\ ~(cjob = j /\ cpc = "reporting")
      /\ Cancellation \in Untold(j) <=> j \in cancelPub \/ (cjob = j /\ cpc = "reporting")
      /\ Cancellation \in Made(j) <=> state[j] = "cancelled" /\ ~started[j]
  <2>1. Cancellation \in Told(j) <=>
          /\ state[j] = "cancelled" /\ ~started[j]
          /\ j \notin cancelPub /\ ~(cjob = j /\ cpc = "reporting")
    BY <1>told DEF TellInv
  <2>2. Cancellation \in Untold(j) <=> j \in cancelPub \/ (cjob = j /\ cpc = "reporting")
    BY <1>untold, <1>ends, TransitionsDiffer
  <2>3. Cancellation \in Made(j) <=> state[j] = "cancelled" /\ ~started[j]
    BY <1>made, TransitionsDiffer
  <2> QED BY <2>1, <2>2, <2>3
<1>8. \A s \in EndStates :
        /\ End(s) \in Told(j) <=>
             /\ state[j] = s /\ started[j]
             /\ \A w \in Worker : ~(wjob[w] = j /\ wpc[w] \in {"counting", "reporting"})
        /\ End(s) \in Untold(j) <=>
             \E w \in Worker : wjob[w] = j /\ wpc[w] \in {"counting", "reporting"} /\ wnext[w] = s
        /\ End(s) \in Made(j) <=> state[j] = s /\ started[j]
  <2> TAKE s \in EndStates
  <2>1. End(s) \in Told(j) <=>
          /\ state[j] = s /\ started[j]
          /\ \A w \in Worker : ~(wjob[w] = j /\ wpc[w] \in {"counting", "reporting"})
    BY <1>told DEF TellInv
  <2>2. End(s) \in Untold(j) <=>
          \E w \in Worker : wjob[w] = j /\ wpc[w] \in {"counting", "reporting"} /\ wnext[w] = s
    BY SMT, <1>untold, <1>ends, TransitionsDiffer
  <2>3. End(s) \in Made(j) <=> state[j] = s /\ started[j]
    BY SMT, <1>made, TransitionsDiffer
  <2> QED BY <2>1, <2>2, <2>3
<1>9. enq[j] \in {"stored", "sent", "full", "accepted"} <=> state[j] # "absent"
  BY SMT, <1>1 DEF IInv, TypeOK, JobInv
<1>10. \A w \in Worker : wjob[w] = j /\ wpc[w] = "announcing" => started[j]
  BY DEF StartInv
<1>11. j \in cancelPub \/ (cjob = j /\ cpc = "reporting") => state[j] = "cancelled" /\ ~started[j]
  BY DEF IInv, JobInv, CloseInv, StartInv
<1>12. \A t : t \in Untold(j) \/ t \in Made(j) => t \in Transition
  <2>1. \A t : t \in Untold(j) => t \in Transition
    BY SMT, <1>ends, <1>untold, TransitionsDiffer
  <2>2. \A t : t \in Made(j) => t \in Transition
    BY SMT, <1>made, TransitionsDiffer
  <2> QED BY <2>1, <2>2
<1>13. \A t \in Transition : /\ t \in Told(j) \/ t \in Untold(j) <=> t \in Made(j)
                             /\ ~(t \in Told(j) /\ t \in Untold(j))
  <2>1. ASSUME NEW t \in {Submission, Start, Cancellation}
        PROVE  /\ t \in Told(j) \/ t \in Untold(j) <=> t \in Made(j)
               /\ ~(t \in Told(j) /\ t \in Untold(j))
    BY <1>5, <1>6, <1>7, <1>9, <1>10, <1>11
  <2>2. ASSUME NEW s \in EndStates
        PROVE  /\ End(s) \in Told(j) \/ End(s) \in Untold(j) <=> End(s) \in Made(j)
               /\ ~(End(s) \in Told(j) /\ End(s) \in Untold(j))
    BY <1>4, <1>8
  <2> QED BY ZenonT(40), <2>1, <2>2, TransitionsDiffer
<1>14. Distinct(log[j])
  BY DEF TellInv
<1> QED BY <1>2, <1>3, <1>12, <1>13, <1>14 DEF Distinct

(***************************************************************************)
(* The counters of Stats.                                                  *)
(***************************************************************************)
Totals == {"completed", "failed"}

\* The job ended with outcome s and its worker has got past the counter.
IsCounted(j, s) ==
  state[j] = s /\ \A w \in Worker : ~(wjob[w] = j /\ wpc[w] = "counting")

Counted(s) == {j \in Job : IsCounted(j, s)}

Stored == {j \in Job : state[j] # "absent"}

\* Each counter is the number of the jobs whose workers have got past it.
CountInv ==
  /\ IsFiniteSet(Stored)
  /\ \A s \in Totals : total[s] = Cardinality(Counted(s))

\* At most one record enters m.jobs in a step.
LEMMA StoredFinite ==
  ASSUME IsFiniteSet(Stored), NEW x,
         \A j \in Job : state'[j] # "absent" => state[j] # "absent" \/ j = x
  PROVE  IsFiniteSet(Stored')
<1>1. Stored' \subseteq Stored \cup {x}
  BY DEF Stored
<1>2. IsFiniteSet(Stored \cup {x})
  BY FS_AddElement
<1> QED BY <1>1, <1>2, FS_Subset

\* A step that leaves the counted jobs and the counters alone.
LEMMA SameCount ==
  ASSUME CountInv, NEW x,
         \A j \in Job : state'[j] # "absent" => state[j] # "absent" \/ j = x,
         total' = total,
         \A j \in Job, s \in Totals : IsCounted(j, s)' <=> IsCounted(j, s)
  PROVE  CountInv'
<1>1. IsFiniteSet(Stored')
  BY StoredFinite DEF CountInv
<1>2. \A s \in Totals : Counted(s)' = Counted(s)
  BY DEF Counted
<1> QED BY <1>1, <1>2 DEF CountInv

\* Enqueue, Cancel and the deadlines keep the totals in their bounds.
LEMMA CallersCount ==
  ASSUME IInv, StartInv, CountInv, NEW j \in Job,
         \/ EnqueueCheck(j) \/ EnqueueStep(j)
         \/ CancelQueued(j) \/ CancelPublish(j) \/ CancelRunning(j) \/ DeadlineExpires(j)
  PROVE  CountInv'
<1> USE DEF jobVars, workerVars, closeVars
<1>1. /\ total' = total /\ wjob' = wjob /\ wpc' = wpc
      /\ \/ state' = state
         \/ \E s \in {"absent", "queued", "cancelled"} :
              state[j] \in {"absent", "queued"} /\ state' = [state EXCEPT ![j] = s]
  BY DEF EnqueueCheck, EnqueueStep, EnqueueStore, EnqueueSend, EnqueueFull, EnqueueWithdraw,
         EnqueuePublish, CancelQueued, CancelPublish, CancelRunning, DeadlineExpires,
         IInv, JobInv
<1>2. \A k \in Job : state'[k] # "absent" => state[k] # "absent" \/ k = j
  BY <1>1 DEF IInv, TypeOK
<1>3. \A k \in Job, s \in Totals : IsCounted(k, s)' <=> IsCounted(k, s)
  BY <1>1 DEF IInv, TypeOK, IsCounted, Totals
<1> QED BY <1>1, <1>2, <1>3, SameCount

\* The workers keep the totals in their bounds.
LEMMA WorkersCount ==
  ASSUME IInv, StartInv, CountInv, NEW w \in Worker,
         WorkerStep(w) \/ \E err \in Result : WorkerReturn(w, err)
  PROVE  CountInv'
<1> USE NoJobAssumption DEF jobVars, workerVars, closeVars
<1>1. CASE WorkerCount(w)
  <2>1. PICK j \in Job, s \in Totals : j = wjob[w] /\ s = wnext[w]
    BY <1>1 DEF WorkerCount, IInv, TypeOK, WorkerInv, Totals
  <2>2. /\ total' = [total EXCEPT ![s] = total[s] + 1]
        /\ wpc' = [wpc EXCEPT ![w] = "reporting"]
        /\ wjob' = wjob /\ state' = state /\ wpc[w] = "counting"
    BY <1>1, <2>1 DEF WorkerCount
  <2>3. state[j] = s /\ \A v \in Worker : wjob[v] = j => v = w
    BY <2>1, <2>2 DEF IInv, WorkerInv
  <2>4. ~IsCounted(j, s) /\ IsCounted(j, s)'
    BY <2>1, <2>2, <2>3 DEF IsCounted, IInv, TypeOK
  <2>5. \A k \in Job, t \in Totals : k # j \/ t # s => (IsCounted(k, t)' <=> IsCounted(k, t))
    BY <2>1, <2>2, <2>3 DEF IsCounted, IInv, TypeOK
  <2>6. Counted(s)' = Counted(s) \cup {j} /\ j \notin Counted(s)
    BY <2>4, <2>5 DEF Counted
  <2>7. \A t \in Totals \ {s} : Counted(t)' = Counted(t)
    BY <2>5 DEF Counted
  <2>8. IsFiniteSet(Stored') /\ IsFiniteSet(Counted(s))
    <3>1. Stored' = Stored
      BY <2>2 DEF Stored
    <3>2. Counted(s) \subseteq Stored
      BY DEF Counted, Stored, IsCounted, Totals
    <3> QED BY <3>1, <3>2, FS_Subset DEF CountInv
  <2>9. Cardinality(Counted(s)') = Cardinality(Counted(s)) + 1
    BY <2>6, <2>8, FS_AddElement
  <2>10. total'[s] = Cardinality(Counted(s)')
    BY <2>2, <2>9 DEF CountInv, IInv, TypeOK, Totals
  <2>11. \A t \in Totals \ {s} : total'[t] = Cardinality(Counted(t)')
    <3>1. \A t \in Totals \ {s} : total'[t] = total[t]
      BY <2>2 DEF IInv, TypeOK, Totals
    <3> QED BY <2>7, <3>1 DEF CountInv
  <2> QED BY <2>8, <2>10, <2>11 DEF CountInv
<1>2. CASE WorkerFinish(w)
  <2>1. PICK j \in Job : j = wjob[w] /\ state[j] = "running"
                         /\ \A v \in Worker : wjob[v] = j => v = w
    BY SMT, <1>2 DEF WorkerFinish, IInv, TypeOK, WorkerInv
  <2>2. wnext[w] \in EndStates /\ canTransition(state[j], wnext[w])
    BY <1>2, <2>1 DEF WorkerFinish, IInv, TypeOK, WorkerInv, canTransition, EndStates
  <2>3. /\ total' = total /\ wjob' = wjob
        /\ \A k \in Job \ {j} : state'[k] = state[k]
        /\ \A v \in Worker \ {w} : wpc'[v] = wpc[v]
        /\ state'[j] = wnext[w] /\ wpc[w] = "finishing"
        /\ wpc'[w] = IF wnext[w] \in {"completed", "failed"} THEN "counting" ELSE "reporting"
    BY <1>2, <2>1, <2>2 DEF WorkerFinish, IInv, TypeOK
  <2>4. \A k \in Job, s \in Totals : IsCounted(k, s)' <=> IsCounted(k, s)
    BY <2>1, <2>2, <2>3 DEF IsCounted, Totals, EndStates
  <2>5. \A k \in Job : state'[k] # "absent" => state[k] # "absent" \/ k = j
    BY <2>3
  <2> QED BY <2>3, <2>4, <2>5, SameCount
<1>3. ASSUME WorkerExit(w) \/ WorkerTake(w) \/ WorkerStart(w) \/ WorkerSkip(w) \/ WorkerAnnounce(w)
             \/ WorkerReport(w) \/ \E err \in Result : WorkerReturn(w, err)
      PROVE  CountInv'
  <2>1. /\ total' = total
        /\ \A v \in Worker \ {w} : wpc'[v] = wpc[v] /\ wjob'[v] = wjob[v]
        /\ wpc[w] # "counting" /\ wpc'[w] # "counting"
    BY SMT, <1>3 DEF WorkerExit, WorkerTake, WorkerStart, WorkerSkip, WorkerAnnounce, WorkerReport,
                WorkerReturn, IInv, TypeOK
  <2>2. \A k \in Job : /\ state'[k] # "absent" => state[k] # "absent"
                       /\ \A s \in Totals : state'[k] = s <=> state[k] = s
    BY SMT, <1>3 DEF WorkerExit, WorkerTake, WorkerStart, WorkerSkip, WorkerAnnounce, WorkerReport,
                WorkerReturn, IInv, TypeOK, WorkerInv, canTransition, Totals
  <2>3. \A k \in Job, s \in Totals : IsCounted(k, s)' <=> IsCounted(k, s)
    BY <2>1, <2>2 DEF IsCounted
  <2> QED BY <2>1, <2>2, <2>3, SameCount
<1> QED BY <1>1, <1>2, <1>3 DEF WorkerStep

\* Close keeps the totals in their bounds.
LEMMA CloseCounts ==
  ASSUME IInv, StartInv, CountInv, CloseBegin \/ CloseStep
  PROVE  CountInv'
<1> USE NoJobAssumption DEF jobVars, workerVars, closeVars
<1>1. /\ total' = total /\ wjob' = wjob /\ wpc' = wpc
      /\ \/ state' = state
         \/ cjob \in Job /\ state[cjob] = "queued" /\ state' = [state EXCEPT ![cjob] = "cancelled"]
  BY DEF CloseBegin, CloseStep, CloseDrain, CloseCancel, CloseReport, CloseDrained, CloseRootCancel,
         CloseReturn, IInv, TypeOK, CloseInv
<1>2. \A k \in Job : /\ state'[k] # "absent" => state[k] # "absent"
                     /\ \A s \in Totals : state'[k] = s <=> state[k] = s
  BY <1>1 DEF IInv, TypeOK, Totals
<1>3. \A k \in Job, s \in Totals : IsCounted(k, s)' <=> IsCounted(k, s)
  BY <1>1, <1>2 DEF IsCounted
<1> QED BY <1>1, <1>2, <1>3, SameCount

\* A counter lies between the announcements of its outcome and the jobs that
\* ended so.
LEMMA CountsBetween ==
  ASSUME IInv, StartInv, TellInv, CountInv
  PROVE  TotalsBetweenEventsAndStates
<1> SUFFICES ASSUME NEW s \in Totals
             PROVE  /\ Cardinality({j \in Job : <<"running", s>> \in Told(j)}) <= total[s]
                    /\ total[s] <= Cardinality({j \in Job : state[j] = s})
  BY DEF TotalsBetweenEventsAndStates, Totals
<1> DEFINE Heard == {j \in Job : <<"running", s>> \in Told(j)}
           Ended == {j \in Job : state[j] = s}
<1>1. Heard \subseteq Counted(s)
  <2> SUFFICES ASSUME NEW j \in Job, <<"running", s>> \in Told(j)
               PROVE  IsCounted(j, s)
    BY DEF Counted
  <2>1. s \in EndStates
    BY DEF Totals, EndStates
  <2>2. InQueue(log[j], End(s))
    BY ToldOf DEF IInv, End
  <2>3. /\ state[j] = s
        /\ \A w \in Worker : ~(wjob[w] = j /\ wpc[w] \in {"counting", "reporting"})
    BY <2>1, <2>2 DEF TellInv
  <2> QED BY <2>3 DEF IsCounted
<1>2. Counted(s) \subseteq Ended
  BY DEF Counted, IsCounted
<1>3. Ended \subseteq Stored
  BY DEF Stored, Totals
<1> HIDE DEF Heard, Ended
<1>4. IsFiniteSet(Ended) /\ IsFiniteSet(Counted(s))
  BY <1>2, <1>3, FS_Subset DEF CountInv
<1>5. Cardinality(Heard) <= Cardinality(Counted(s))
  BY <1>1, <1>4, FS_Subset
<1>6. Cardinality(Counted(s)) <= Cardinality(Ended)
  BY <1>2, <1>4, FS_Subset
<1> QED BY <1>5, <1>6 DEF CountInv, Heard, Ended

\* What is told and counted is inductive over the invariant of the records.
AccountInv == IInv /\ StartInv /\ TellInv /\ CountInv

\* The accounts are in order at first.
LEMMA InitAccountInv == Init => AccountInv
<1> SUFFICES ASSUME Init PROVE AccountInv
  OBVIOUS
<1>1. StartInv
  BY DEF Init, StartInv, InQueue
<1>2. TellInv
  BY SMT DEF Init, TellInv, InQueue, Distinct, EndStates
<1>3. CountInv
  <2>1. Stored = {} /\ \A s \in Totals : Counted(s) = {}
    BY DEF Init, Stored, Counted, IsCounted, Totals
  <2>2. \A s \in Totals : total[s] = 0
    BY DEF Init, Totals
  <2> QED BY <2>1, <2>2, FS_EmptySet DEF CountInv
<1> QED BY <1>1, <1>2, <1>3, InitIInv DEF AccountInv

\* Every step keeps the accounts.
LEMMA StepKeepsAccounts ==
  ASSUME IInv, StartInv, TellInv, CountInv, [Next]_vars
  PROVE  StartInv' /\ TellInv' /\ CountInv'
<1>1. CASE \E j \in Job : \/ EnqueueCheck(j) \/ EnqueueStep(j)
                          \/ CancelQueued(j) \/ CancelPublish(j) \/ CancelRunning(j)
                          \/ DeadlineExpires(j)
  BY <1>1, CallersTell, CallersCount
<1>2. CASE \E w \in Worker : WorkerStep(w) \/ \E err \in Result : WorkerReturn(w, err)
  BY <1>2, WorkersTell, WorkersCount
<1>3. CASE CloseBegin \/ CloseStep
  BY <1>3, CloseTells, CloseCounts
<1>4. CASE Stopped \/ UNCHANGED vars
  <2>1. UNCHANGED <<enq, state, started, queue, wpc, wjob, wnext, cpc, cjob, cancelPub, total, log>>
    BY <1>4 DEF Stopped, vars, jobVars, workerVars, closeVars
  <2>2. StartInv' /\ TellInv'
    BY SMT, <2>1, SilentTells
  <2>3. CountInv'
    BY SMT, <2>1 DEF CountInv, Stored, Counted, IsCounted
  <2> QED BY <2>2, <2>3
<1> QED BY <1>1, <1>2, <1>3, <1>4 DEF Next

\* The accounts are in order in every state.
LEMMA Accounts == Spec => []AccountInv
<1>1. AccountInv /\ [Next]_vars /\ IInv' => AccountInv'
  BY StepKeepsAccounts DEF AccountInv
<1> QED BY <1>1, InitAccountInv, Invariance, PTL DEF Spec

\* Every transition of a job is announced once and only once, by whichever
\* goroutine made it and however the publications interleave, and the totals of
\* Stats lie between what has been announced and what has happened.
THEOREM TransitionsTold == Spec => []TransitionsAccounted
<1>1. AccountInv => TransitionsAccounted
  BY AnnouncedOnce, CountsBetween DEF AccountInv, TransitionsAccounted
<1> QED BY <1>1, Accounts, PTL

(***************************************************************************)
(* The manager implements the abstract life cycle.                         *)
(***************************************************************************)
LifeOf(j) == IF enq[j] = "rejected" THEN "rejected" ELSE state[j]

\* Made, as a function of the two fields of the record it reads.
MadeBy(st, b) ==
  IF st = "absent" THEN {}
  ELSE {Submission} \cup {Start : c \in {b} \cap {TRUE}}
       \cup {<<IF b THEN "running" ELSE "queued", s>> : s \in {t \in {st} : isTerminal(t)}}

\* Made depends on the state and the start of the job only.
LEMMA MadeByFields == \A j : Made(j) = MadeBy(state[j], started[j])
BY DEF Made, MadeBy, Submission, Start

\* What a job has made in each of its states.
LEMMA MadeCases ==
  /\ MadeBy("absent", FALSE) = {}
  /\ MadeBy("queued", FALSE) = {Submission}
  /\ MadeBy("running", TRUE) = {Submission, Start}
  /\ MadeBy("cancelled", FALSE) = {Submission, Cancellation}
  /\ \A s \in EndStates : MadeBy(s, TRUE) = {Submission, Start, End(s)}
<1> USE DEF MadeBy, isTerminal
<1>1. MadeBy("absent", FALSE) = {} /\ MadeBy("queued", FALSE) = {Submission}
  OBVIOUS
<1>2. MadeBy("running", TRUE) = {Submission, Start}
  OBVIOUS
<1>3. MadeBy("cancelled", FALSE) = {Submission, Cancellation}
  BY DEF Cancellation
<1>4. \A s \in EndStates : MadeBy(s, TRUE) = {Submission, Start, End(s)}
  BY DEF EndStates, End
<1> QED BY <1>1, <1>2, <1>3, <1>4

\* The step changes nothing of k that the abstract life cycle sees, its log aside.
Same(k) ==
  state'[k] = state[k] /\ started'[k] = started[k] /\ (enq'[k] = "rejected" <=> enq[k] = "rejected")

\* A job left alone is left alone in the lifecycle.
LEMMA SameMapped ==
  ASSUME NEW k, Same(k)
  PROVE  LifeOf(k)' = LifeOf(k) /\ Made(k)' = Made(k)
<1>1. LifeOf(k)' = LifeOf(k)
  BY DEF Same, LifeOf
<1>2. Made(k)' = Made(k)
  BY DEF Same, Made
<1> QED BY <1>1, <1>2

\* A step in which no job moves and nothing is published.
LEMMA MapsStutter ==
  ASSUME \A k \in Job : Same(k), log' = log
  PROVE  UNCHANGED Lifecycle!vars
<1>1. \A k \in Job : LifeOf(k)' = LifeOf(k) /\ Made(k)' = Made(k)
  BY SameMapped
<1>2. [k \in Job |-> LifeOf(k)]' = [k \in Job |-> LifeOf(k)]
  BY <1>1
<1>3. [k \in Job |-> Made(k)]' = [k \in Job |-> Made(k)]
  BY <1>1
<1> QED BY <1>2, <1>3 DEF Lifecycle!vars, LifeOf

\* A step in which one job moves.
LEMMA MapsMove ==
  ASSUME NEW j \in Job, NEW s \in State, canTransition(LifeOf(j), s),
         LifeOf(j)' = s, Made(j)' = Made(j) \cup {<<LifeOf(j), s>>},
         \A k \in Job \ {j} : Same(k), log' = log
  PROVE  Lifecycle!Move(j, s)
<1> DEFINE L == [k \in Job |-> LifeOf(k)]
           P == [k \in Job |-> Made(k)]
<1>1. \A k \in Job \ {j} : LifeOf(k)' = LifeOf(k) /\ Made(k)' = Made(k)
  BY SameMapped
<1>2. L' = [L EXCEPT ![j] = s]
  BY <1>1
<1>3. P' = [P EXCEPT ![j] = P[j] \cup {<<L[j], s>>}]
  BY <1>1
<1>4. Lifecycle!canTransition(L[j], s)
  BY DEF Lifecycle!canTransition, Lifecycle!Terminal, canTransition
<1> QED BY <1>2, <1>3, <1>4 DEF Lifecycle!Move, LifeOf

\* A record enters m.jobs.
LEMMA MapsSubmit ==
  ASSUME NEW j \in Job, LifeOf(j) = "absent", LifeOf(j)' = "queued", Made(j)' = {Submission},
         \A k \in Job \ {j} : Same(k), log' = log
  PROVE  Lifecycle!Submit(j)
<1> DEFINE L == [k \in Job |-> LifeOf(k)]
           P == [k \in Job |-> Made(k)]
<1>1. \A k \in Job \ {j} : LifeOf(k)' = LifeOf(k) /\ Made(k)' = Made(k)
  BY SameMapped
<1>2. L[j] = "absent" /\ L' = [L EXCEPT ![j] = "queued"]
  BY <1>1
<1>3. P' = [P EXCEPT ![j] = {Submission}]
  BY <1>1
<1> QED BY <1>2, <1>3 DEF Lifecycle!Submit, Lifecycle!Submitted, LifeOf, Submission

\* A record that found the queue full leaves m.jobs.
LEMMA MapsWithdraw ==
  ASSUME NEW j \in Job, LifeOf(j) = "queued", log[j] = <<>>, LifeOf(j)' = "rejected",
         Made(j)' = {}, \A k \in Job \ {j} : Same(k), log' = log
  PROVE  Lifecycle!Withdraw(j)
<1> DEFINE L == [k \in Job |-> LifeOf(k)]
           P == [k \in Job |-> Made(k)]
<1>1. \A k \in Job \ {j} : LifeOf(k)' = LifeOf(k) /\ Made(k)' = Made(k)
  BY SameMapped
<1>2. L[j] = "queued" /\ L' = [L EXCEPT ![j] = "rejected"]
  BY <1>1
<1>3. P' = [P EXCEPT ![j] = {}]
  BY <1>1
<1> QED BY <1>2, <1>3 DEF Lifecycle!Withdraw, LifeOf

\* A publication.
LEMMA MapsAnnounce ==
  ASSUME NEW j \in Job, NEW p, NEW n, <<p, n>> \in Made(j) \ Told(j),
         p = "running" => Start \in Told(j), Publish(j, p, n),
         \A k \in Job : Same(k)
  PROVE  Lifecycle!Announce(j, <<p, n>>)
<1> DEFINE L == [k \in Job |-> LifeOf(k)]
           P == [k \in Job |-> Made(k)]
           t == <<p, n>>
<1>1. \A k \in Job : LifeOf(k)' = LifeOf(k) /\ Made(k)' = Made(k)
  BY SameMapped
<1>2. L' = L /\ P' = P
  BY <1>1
<1>3. t \in P[j] \ Told(j) /\ t[1] = p
  OBVIOUS
<1>4. Lifecycle!Announced(j) = Told(j) /\ Lifecycle!Started = Start
  BY DEF Lifecycle!Announced, Told, Lifecycle!Started, Start
<1>5. log' = [log EXCEPT ![j] = Append(log[j], t)]
  BY DEF Publish
<1> HIDE DEF t
<1>6. t[1] = "running" => Lifecycle!Started \in Lifecycle!Announced(j)
  BY <1>3, <1>4
<1>7. t \in P[j] \ Lifecycle!Announced(j)
  BY <1>3, <1>4
<1>8. Lifecycle!Announce(j, t)
  BY <1>2, <1>5, <1>6, <1>7 DEF Lifecycle!Announce, LifeOf
<1> QED BY <1>8 DEF t

\* The lifecycle speaks of the same transitions and states.
LEMMA SameTransitions == Lifecycle!Transition = Transition /\ Lifecycle!State = State
BY DEF Lifecycle!Transition, Transition, Lifecycle!State, State, Lifecycle!canTransition,
       canTransition, Lifecycle!Submitted, Lifecycle!Terminal

\* The steps of Enqueue, Cancel and the deadlines.
LEMMA CallersRefine ==
  ASSUME AccountInv, NEW j \in Job,
         \/ EnqueueCheck(j) \/ EnqueueStep(j)
         \/ CancelQueued(j) \/ CancelPublish(j) \/ CancelRunning(j) \/ DeadlineExpires(j)
  PROVE  [Lifecycle!Next]_Lifecycle!vars
<1> USE DEF jobVars, workerVars, closeVars
<1>0. IInv /\ TypeOK /\ StartInv /\ TellInv /\ EachTransitionAnnouncedOnce
  BY AnnouncedOnce DEF AccountInv, IInv
<1>1. ASSUME EnqueueCheck(j) \/ EnqueueSend(j) \/ EnqueueFull(j) \/ CancelRunning(j)
             \/ DeadlineExpires(j)
      PROVE  UNCHANGED Lifecycle!vars
  <2>1. log' = log /\ \A k \in Job : Same(k)
    BY <1>0, <1>1 DEF EnqueueCheck, EnqueueSend, EnqueueFull, CancelRunning, DeadlineExpires,
                      Same, TypeOK
  <2> QED BY <2>1, MapsStutter
<1>2. ASSUME EnqueueStore(j) PROVE Lifecycle!Submit(j)
  <2>1. enq[j] = "checked" /\ state[j] = "absent" /\ ~started[j] /\ started[j] \in BOOLEAN
    BY <1>0, <1>2 DEF EnqueueStore, IInv, JobInv, StartInv, TypeOK
  <2>2. /\ enq'[j] = "stored" /\ state'[j] = "queued" /\ started' = started /\ log' = log
        /\ \A k \in Job \ {j} : Same(k)
    BY <1>0, <1>2 DEF EnqueueStore, Same, TypeOK
  <2>3. LifeOf(j) = "absent" /\ LifeOf(j)' = "queued"
    BY <2>1, <2>2 DEF LifeOf
  <2>4. Made(j)' = {Submission}
    <3>1. Made(j)' = MadeBy(state'[j], started'[j])
      BY DEF Made, MadeBy, Submission, Start
    <3>2. started'[j] = FALSE
      BY <2>1, <2>2
    <3> QED BY <2>2, <3>1, <3>2, MadeCases
  <2> QED BY <2>2, <2>3, <2>4, MapsSubmit
<1>3. ASSUME EnqueueWithdraw(j) PROVE Lifecycle!Withdraw(j)
  <2>1. enq[j] = "full" /\ state[j] = "queued" /\ log[j] = <<>>
    BY <1>0, <1>3 DEF EnqueueWithdraw, IInv, JobInv
  <2>2. /\ enq'[j] = "rejected" /\ state'[j] = "absent" /\ log' = log
        /\ \A k \in Job \ {j} : Same(k)
    BY <1>0, <1>3 DEF EnqueueWithdraw, Same, TypeOK
  <2>3. LifeOf(j) = "queued" /\ LifeOf(j)' = "rejected"
    BY <2>1, <2>2 DEF LifeOf
  <2>4. Made(j)' = {}
    BY <2>2 DEF Made
  <2> QED BY <2>1, <2>2, <2>3, <2>4, MapsWithdraw
<1>4. ASSUME EnqueuePublish(j) PROVE Lifecycle!Announce(j, Submission)
  <2>1. enq[j] = "sent" /\ \A k \in Job : Same(k)
    BY <1>0, <1>4 DEF EnqueuePublish, Same, TypeOK
  <2>2. Submission \in Untold(j)
    BY <2>1, UntoldOf
  <2>3. Submission \in Made(j) \ Told(j)
    BY <1>0, <2>2 DEF EachTransitionAnnouncedOnce
  <2> QED BY <1>4, <2>1, <2>3, MapsAnnounce DEF EnqueuePublish, Submission
<1>5. ASSUME CancelQueued(j) PROVE Lifecycle!Move(j, "cancelled")
  <2>1. state[j] = "queued" /\ enq[j] # "rejected" /\ ~started[j] /\ started[j] \in BOOLEAN
    BY <1>0, <1>5 DEF CancelQueued, IInv, JobInv, StartInv, TypeOK
  <2>2. /\ enq' = enq /\ state'[j] = "cancelled" /\ started' = started /\ log' = log
        /\ \A k \in Job \ {j} : Same(k)
    BY <1>0, <1>5 DEF CancelQueued, Same, TypeOK
  <2>3. LifeOf(j) = "queued" /\ LifeOf(j)' = "cancelled"
    BY <2>1, <2>2 DEF LifeOf
  <2>4. Made(j)' = Made(j) \cup {Cancellation}
    <3>1. Made(j)' = MadeBy(state'[j], started'[j]) /\ Made(j) = MadeBy(state[j], started[j])
      BY DEF Made, MadeBy, Submission, Start
    <3>2. started[j] = FALSE /\ started'[j] = FALSE
      BY <2>1, <2>2
    <3> QED BY <2>1, <2>2, <3>1, <3>2, MadeCases
  <2> QED BY <2>2, <2>3, <2>4, MapsMove DEF Cancellation, State, canTransition
<1>6. ASSUME CancelPublish(j) PROVE Lifecycle!Announce(j, Cancellation)
  <2>1. j \in cancelPub /\ \A k \in Job : Same(k)
    BY <1>0, <1>6 DEF CancelPublish, Same
  <2>2. Cancellation \in Untold(j)
    BY <2>1, UntoldOf
  <2>3. Cancellation \in Made(j) \ Told(j)
    BY <1>0, <2>2 DEF EachTransitionAnnouncedOnce
  <2> QED BY <1>6, <2>1, <2>3, MapsAnnounce DEF CancelPublish, Cancellation
<1> QED BY <1>1, <1>2, <1>3, <1>4, <1>5, <1>6, SameTransitions, TransitionsDiffer
        DEF EnqueueStep, Lifecycle!Next, State

\* A step of a worker is a step of the lifecycle or a stutter.
LEMMA WorkersRefine ==
  ASSUME AccountInv, NEW w \in Worker,
         WorkerStep(w) \/ \E err \in Result : WorkerReturn(w, err)
  PROVE  [Lifecycle!Next]_Lifecycle!vars
<1> USE NoJobAssumption DEF jobVars, workerVars, closeVars
<1>0. IInv /\ TypeOK /\ StartInv /\ TellInv /\ EachTransitionAnnouncedOnce
  BY AnnouncedOnce DEF AccountInv, IInv
<1>1. ASSUME WorkerExit(w) \/ WorkerTake(w) \/ WorkerSkip(w) \/ WorkerCount(w)
             \/ \E err \in Result : WorkerReturn(w, err)
      PROVE  UNCHANGED Lifecycle!vars
  <2>1. log' = log /\ enq' = enq /\ state' = state /\ started' = started
    BY <1>1 DEF WorkerExit, WorkerTake, WorkerSkip, WorkerCount, WorkerReturn
  <2>2. \A k \in Job : Same(k)
    BY <2>1 DEF Same
  <2> QED BY <2>1, <2>2, MapsStutter
<1>2. ASSUME wpc[w] \notin {"idle", "exited"}
      PROVE  \E j \in Job : /\ j = wjob[w] /\ enq[j] # "rejected"
                            /\ \A v \in Worker : wjob[v] = j => v = w
  <2>1. wjob[w] # "none" /\ wjob[w] \in Job
    BY <1>0, <1>2 DEF TypeOK, IInv, WorkerInv
  <2>2. /\ enq[wjob[w]] \in {"sent", "accepted"}
        /\ \A v \in Worker : wjob[v] = wjob[w] => v = w
    BY <1>0, <2>1 DEF IInv, WorkerInv
  <2>3. enq[wjob[w]] # "rejected"
    BY <2>2
  <2> QED BY <2>1, <2>2, <2>3
<1>3. ASSUME WorkerStart(w) PROVE \E j \in Job : Lifecycle!Move(j, "running")
  <2>1. PICK j \in Job : j = wjob[w] /\ enq[j] # "rejected"
    BY <1>2, <1>3 DEF WorkerStart
  <2>2. /\ state[j] = "queued" /\ started[j] = FALSE
    BY SMT, <1>0, <1>3, <2>1 DEF WorkerStart, canTransition, IInv, WorkerInv, StartInv, TypeOK
  <2>3. /\ enq' = enq /\ state'[j] = "running" /\ started'[j] = TRUE /\ log' = log
        /\ \A k \in Job \ {j} : Same(k)
    BY <1>0, <1>3, <2>1 DEF WorkerStart, Same, TypeOK
  <2>4. LifeOf(j) = "queued" /\ LifeOf(j)' = "running"
    BY <2>1, <2>2, <2>3 DEF LifeOf
  <2>5. Made(j)' = Made(j) \cup {Start}
    <3>1. Made(j)' = MadeBy(state'[j], started'[j]) /\ Made(j) = MadeBy(state[j], started[j])
      BY DEF Made, MadeBy, Submission, Start
    <3>2. Made(j)' = MadeBy("running", TRUE) /\ Made(j) = MadeBy("queued", FALSE)
      BY <2>2, <2>3, <3>1
    <3> QED BY <3>2, MadeCases
  <2>6. canTransition(LifeOf(j), "running") /\ "running" \in State
    BY <2>4 DEF canTransition, State
  <2>7. Made(j)' = Made(j) \cup {<<LifeOf(j), "running">>}
    BY <2>4, <2>5 DEF Start
  <2>8. Lifecycle!Move(j, "running")
    BY <2>3, <2>4, <2>6, <2>7, MapsMove
  <2> QED BY <2>8
<1>4. ASSUME WorkerAnnounce(w) PROVE \E j \in Job : Lifecycle!Announce(j, Start)
  <2>1. PICK j \in Job : j = wjob[w]
    BY <1>2, <1>4 DEF WorkerAnnounce
  <2>2. wpc[w] = "announcing" /\ \A k \in Job : Same(k)
    BY <1>4 DEF WorkerAnnounce, Same
  <2>3. Start \in Untold(j)
    BY <2>1, <2>2, UntoldOf
  <2>4. Start \in Made(j) \ Told(j)
    BY <1>0, <2>3 DEF EachTransitionAnnouncedOnce
  <2> QED BY <1>4, <2>1, <2>2, <2>4, MapsAnnounce DEF WorkerAnnounce, Start
<1>5. ASSUME WorkerFinish(w) PROVE \E j \in Job, s \in EndStates : Lifecycle!Move(j, s)
  <2>1. PICK j \in Job : j = wjob[w] /\ enq[j] # "rejected"
    BY <1>2, <1>5 DEF WorkerFinish
  <2>2. PICK s \in EndStates : s = wnext[w]
    BY <1>0, <1>5 DEF WorkerFinish, IInv, WorkerInv, TypeOK, EndStates
  <2>3. state[j] = "running" /\ started[j] = TRUE /\ canTransition(state[j], s)
    BY <1>0, <1>5, <2>1, <2>2
    DEF WorkerFinish, canTransition, IInv, WorkerInv, StartInv, TypeOK, EndStates
  <2>4. /\ enq' = enq /\ state'[j] = s /\ started' = started /\ log' = log
        /\ \A k \in Job \ {j} : Same(k)
    BY <1>0, <1>5, <2>1, <2>2, <2>3 DEF WorkerFinish, Same, TypeOK
  <2>5. LifeOf(j) = "running" /\ LifeOf(j)' = s
    BY <2>1, <2>3, <2>4 DEF LifeOf
  <2>6. Made(j)' = Made(j) \cup {End(s)}
    <3>1. Made(j)' = MadeBy(state'[j], started'[j]) /\ Made(j) = MadeBy(state[j], started[j])
      BY DEF Made, MadeBy, Submission, Start
    <3>2. started'[j] = TRUE
      BY <2>3, <2>4
    <3>3. Made(j)' = MadeBy(s, TRUE) /\ Made(j) = MadeBy("running", TRUE)
      BY <2>3, <2>4, <3>1, <3>2
    <3>4. MadeBy(s, TRUE) = {Submission, Start, End(s)} /\ MadeBy("running", TRUE) = {Submission, Start}
      BY MadeCases
    <3> QED BY <3>3, <3>4
  <2>7. s \in State
    BY DEF EndStates, State
  <2>8. canTransition(LifeOf(j), s) /\ Made(j)' = Made(j) \cup {<<LifeOf(j), s>>}
    BY <2>3, <2>5, <2>6 DEF End
  <2>9. Lifecycle!Move(j, s)
    BY <2>4, <2>5, <2>7, <2>8, MapsMove
  <2> QED BY <2>9
<1>6. ASSUME WorkerReport(w) PROVE \E j \in Job, s \in EndStates : Lifecycle!Announce(j, End(s))
  <2>1. PICK j \in Job : j = wjob[w] /\ \A v \in Worker : wjob[v] = j => v = w
    BY <1>2, <1>6 DEF WorkerReport
  <2>2. PICK s \in EndStates : s = wnext[w]
    BY <1>0, <1>6 DEF WorkerReport, IInv, WorkerInv, TypeOK, EndStates
  <2>3. wpc[w] = "reporting" /\ \A k \in Job : Same(k)
    BY <1>6 DEF WorkerReport, Same
  <2>4. End(s) \in Untold(j)
    BY <2>1, <2>2, <2>3, UntoldOf
  <2>5. End(s) \in Made(j) \ Told(j)
    BY <1>0, <2>4 DEF EachTransitionAnnouncedOnce
  <2>6. Start \in Told(j)
    <3>1. started[j]
      BY <1>0, <2>1, <2>3 DEF StartInv
    <3>2. \A v \in Worker : ~(wjob[v] = j /\ wpc[v] = "announcing")
      BY <2>1, <2>3
    <3> QED BY <1>0, <3>1, <3>2, ToldOf DEF TellInv
  <2> QED BY <1>6, <2>1, <2>2, <2>3, <2>5, <2>6, MapsAnnounce DEF WorkerReport, End
<1>7. EndStates \subseteq State /\ "running" \in State
  BY DEF EndStates, State
<1>8. CASE WorkerStart(w) \/ WorkerAnnounce(w) \/ WorkerFinish(w) \/ WorkerReport(w)
  BY <1>3, <1>4, <1>5, <1>6, <1>7, <1>8, SameTransitions, TransitionsDiffer
  DEF Lifecycle!Next
<1> QED BY <1>1, <1>8 DEF WorkerStep

\* A step of Close is a step of the lifecycle or a stutter.
LEMMA CloseRefines ==
  ASSUME AccountInv, CloseBegin \/ CloseStep
  PROVE  [Lifecycle!Next]_Lifecycle!vars
<1> USE NoJobAssumption DEF jobVars, workerVars, closeVars
<1>0. IInv /\ TypeOK /\ StartInv /\ TellInv /\ EachTransitionAnnouncedOnce
  BY AnnouncedOnce DEF AccountInv, IInv
<1>1. ASSUME CloseBegin \/ CloseDrain \/ CloseDrained \/ CloseRootCancel \/ CloseReturn
      PROVE  UNCHANGED Lifecycle!vars
  <2>1. log' = log /\ enq' = enq /\ state' = state /\ started' = started
    BY <1>1 DEF CloseBegin, CloseDrain, CloseDrained, CloseRootCancel, CloseReturn
  <2>2. \A k \in Job : Same(k)
    BY <2>1 DEF Same
  <2> QED BY <2>1, <2>2, MapsStutter
<1>2. ASSUME CloseCancel PROVE UNCHANGED Lifecycle!vars \/ \E j \in Job : Lifecycle!Move(j, "cancelled")
  <2>1. PICK j \in Job : j = cjob /\ enq[j] # "rejected"
    BY <1>0, <1>2 DEF CloseCancel, TypeOK, IInv, CloseInv
  <2>2. CASE state[j] # "queued"
    <3>1. log' = log /\ enq' = enq /\ state' = state /\ started' = started
      BY <1>2, <2>1, <2>2 DEF CloseCancel
    <3>2. \A k \in Job : Same(k)
      BY <3>1 DEF Same
    <3> QED BY <3>1, <3>2, MapsStutter
  <2>3. CASE state[j] = "queued"
    <3>1. started[j] = FALSE
      BY ZenonT(40), <1>0, <2>3 DEF StartInv, TypeOK
    <3>2. /\ enq' = enq /\ state'[j] = "cancelled" /\ started' = started /\ log' = log
          /\ \A k \in Job \ {j} : Same(k)
      BY <1>0, <1>2, <2>1, <2>3 DEF CloseCancel, Same, TypeOK
    <3>3. LifeOf(j) = "queued" /\ LifeOf(j)' = "cancelled"
      BY <2>1, <2>3, <3>2 DEF LifeOf
    <3>4. Made(j)' = Made(j) \cup {Cancellation}
      <4>1. Made(j)' = MadeBy(state'[j], started'[j]) /\ Made(j) = MadeBy(state[j], started[j])
        BY DEF Made, MadeBy, Submission, Start
      <4>2. started'[j] = FALSE
        BY <3>1, <3>2
      <4> QED BY <2>3, <3>1, <3>2, <4>1, <4>2, MadeCases
    <3> QED BY <3>2, <3>3, <3>4, MapsMove DEF Cancellation, State, canTransition
  <2> QED BY <2>2, <2>3
<1>3. ASSUME CloseReport PROVE \E j \in Job : Lifecycle!Announce(j, Cancellation)
  <2>1. PICK j \in Job : j = cjob
    BY <1>0, <1>3 DEF CloseReport, TypeOK, IInv, CloseInv
  <2>2. cpc = "reporting" /\ \A k \in Job : Same(k)
    BY <1>3 DEF CloseReport, Same
  <2>3. Cancellation \in Untold(j)
    BY <2>1, <2>2, UntoldOf
  <2>4. Cancellation \in Made(j) \ Told(j)
    BY <1>0, <2>3 DEF EachTransitionAnnouncedOnce
  <2> QED BY <1>3, <2>1, <2>2, <2>4, MapsAnnounce DEF CloseReport, Cancellation
<1> QED BY <1>1, <1>2, <1>3, SameTransitions, TransitionsDiffer
        DEF CloseStep, Lifecycle!Next, State

\* Every behaviour of the manager is one the abstract life cycle allows: legal
\* transitions only, terminal states final, nothing announced twice or before
\* it happened, an outcome after its start, silence about withdrawn jobs.
THEOREM ManagerImplementsLifecycle == Spec => ImplementsLifecycle
<1>1. Init => Lifecycle!Init
  BY ZenonT(40) DEF Init, Lifecycle!Init, Made
<1>2. AccountInv /\ [Next]_vars => [Lifecycle!Next]_Lifecycle!vars
  <2> SUFFICES ASSUME AccountInv, [Next]_vars PROVE [Lifecycle!Next]_Lifecycle!vars
    OBVIOUS
  <2>1. CASE \E j \in Job : \/ EnqueueCheck(j) \/ EnqueueStep(j)
                            \/ CancelQueued(j) \/ CancelPublish(j) \/ CancelRunning(j)
                            \/ DeadlineExpires(j)
    BY <2>1, CallersRefine
  <2>2. CASE \E w \in Worker : WorkerStep(w) \/ \E err \in Result : WorkerReturn(w, err)
    BY <2>2, WorkersRefine
  <2>3. CASE CloseBegin \/ CloseStep
    BY <2>3, CloseRefines
  <2>4. CASE Stopped \/ UNCHANGED vars
    <3>1. log' = log /\ enq' = enq /\ state' = state /\ started' = started
      BY <2>4 DEF Stopped, vars, jobVars
    <3>2. \A k \in Job : Same(k)
      BY <3>1 DEF Same
    <3> QED BY <3>1, <3>2, MapsStutter
  <2> QED BY <2>1, <2>2, <2>3, <2>4 DEF Next
<1> QED BY <1>1, <1>2, Accounts, PTL DEF Spec, ImplementsLifecycle, Lifecycle!Spec

-----------------------------------------------------------------------------
(***************************************************************************)
(* Spikes.                                                                 *)
(***************************************************************************)
Fields == {"pc", "ev", "at", "volume", "hot", "kind", "peers"}
IsRecord(r) == DOMAIN r = Fields /\ r = [f \in Fields |-> r[f]]

\* The shape of the state, as far as the arguments below depend on it.
Formed ==
  /\ clock \in Nat
  /\ lastSpikeAt \in [Workspace -> Int]
  /\ DOMAIN write = Writer /\ write = [w \in Writer |-> write[w]]
  /\ \A w \in Writer :
       /\ IsRecord(write[w])
       /\ write[w].at \in Nat
       /\ ~At(w, "idle") => write[w].ev \in Write

Spiked(w) == write[w].pc \notin {"idle", "monitor"} /\ write[w].volume

\* lastSpikeAt is the time of the latest spike of its workspace, not of the
\* last one to take the lock: the debounce makes the two the same.
LastIsLatest ==
  \A w \in Writer : Spiked(w) =>
    /\ lastSpikeAt[write[w].ev.workspace] # Never
    /\ write[w].at <= lastSpikeAt[write[w].ev.workspace]

Apart ==
  \A v, w \in Writer :
    /\ Spiked(v) /\ Spiked(w) /\ v # w
    /\ write[v].ev.workspace = write[w].ev.workspace
    /\ write[v].at >= write[w].at
    => write[v].at - write[w].at >= Debounce

\* A writer on its way to the warning has published its spike.
SpikeFirst ==
  /\ \A w \in Writer :
       At(w, "warning") => [topic |-> "ast/semantic-spike", by |-> w] \in published
  /\ WarningsExplained

SpikesInv == Formed /\ LastIsLatest /\ Apart /\ SpikeFirst

\* A step of writer w that leaves the others' state alone and keeps the shape.
OnlyWriter(w) ==
  /\ DOMAIN write' = Writer /\ write' = [x \in Writer |-> write'[x]]
  /\ IsRecord(write'[w])
  /\ \A x \in Writer \ {w} : write'[x] = write[x]

\* A step after record that moves w on and leaves what the monitor saw of it.
Moves(w) ==
  /\ OnlyWriter(w)
  /\ write'[w].at = write[w].at /\ write'[w].ev = write[w].ev
  /\ write'[w].volume = write[w].volume
  /\ write[w].pc \notin {"idle", "monitor"} /\ write'[w].pc \notin {"idle", "monitor"}

-----------------------------------------------------------------------------
\* The filter's step moves its writer on.
LEMMA ClassifyMoves ==
  ASSUME Formed, NEW w \in Writer, classify(w)
  PROVE  /\ Moves(w) /\ UNCHANGED <<clock, lastSpikeAt>>
         /\ write'[w].pc \in {"done", "semantic"}
<1> DEFINE ev == write[w].ev
           seen == ev.path \in DOMAIN signatures
           kind == HeuristicSemanticScorer(ev.sig, IF seen THEN signatures[ev.path].sig ELSE "", seen)
           peers == detectConflict(w, write[w].at).peers
<1>1. /\ write[w].pc = "filter"
      /\ UNCHANGED <<clock, lastSpikeAt>>
      /\ \/ write' = [write EXCEPT ![w].pc = "done"]
         \/ write' = [write EXCEPT ![w].kind = kind, ![w].peers = peers, ![w].pc = "semantic"]
  BY DEF classify, At, monitorVars
<1> HIDE DEF kind, peers
<1>2. Moves(w)
  BY SMT, <1>1 DEF Formed, Fields, IsRecord, Moves, OnlyWriter
<1>3. write'[w].pc \in {"done", "semantic"}
  BY <1>1 DEF Formed, Fields, IsRecord
<1> QED BY SMT, <1>1, <1>2, <1>3

\* What each step does to the writer's record.
LEMMA MoveSteps ==
  ASSUME Formed, NEW w \in Writer,
         PublishVolume(w) \/ classify(w) \/ PublishSemantic(w) \/ PublishWarning(w)
  PROVE  Moves(w) /\ UNCHANGED <<clock, lastSpikeAt>>
<1> USE DEF Formed, Fields, IsRecord, Moves, OnlyWriter, At, monitorVars
<1>1. ASSUME NEW l \in {"done", "filter", "warning"}, write[w].pc \notin {"idle", "monitor"},
             write' = [write EXCEPT ![w].pc = l]
      PROVE  Moves(w)
  BY <1>1
<1>3. CASE PublishVolume(w)
  BY SMT, <1>1, <1>3 DEF PublishVolume
<1>4. CASE classify(w)
  BY SMT, <1>4, ClassifyMoves
<1>5. CASE PublishSemantic(w)
  BY SMT, <1>1, <1>5 DEF PublishSemantic
<1>6. CASE PublishWarning(w)
  BY SMT, <1>1, <1>6 DEF PublishWarning
<1> QED BY SMT, <1>3, <1>4, <1>5, <1>6

\* The monitor's step: what it stores and whether it found a spike.
LEMMA RecordStep ==
  ASSUME Formed, NEW w \in Writer, record(w)
  PROVE  /\ OnlyWriter(w)
         /\ clock' = clock /\ published' = published
         /\ write'[w].at = write[w].at /\ write'[w].ev = write[w].ev
         /\ write[w].pc = "monitor" /\ write'[w].pc \in {"volume", "filter"}
         /\ LET ws == write[w].ev.workspace
            IN \/ write'[w].volume = FALSE /\ lastSpikeAt' = lastSpikeAt
               \/ /\ ~Debounced(lastSpikeAt[ws], write[w].at)
                  /\ lastSpikeAt' = [lastSpikeAt EXCEPT ![ws] = write[w].at]
<1> DEFINE ws == write[w].ev.workspace
           at == write[w].at
           win == KeptSamples(samples[ws], at) \cup {w}
           spike == Cardinality(win) >= Threshold /\ ~Debounced(lastSpikeAt[ws], at)
           hot == IF spike THEN topPaths(win) ELSE <<>>
<1>1. /\ write[w].pc = "monitor"
      /\ lastSpikeAt' = [lastSpikeAt EXCEPT ![ws] = IF spike THEN at ELSE @]
      /\ write' = [write EXCEPT ![w].volume = spike, ![w].hot = hot,
                                ![w].pc = IF spike THEN "volume" ELSE "filter"]
      /\ clock' = clock /\ published' = published
  BY SMT DEF record, At
<1>2. spike \in BOOLEAN
  OBVIOUS
<1>3. spike => ~Debounced(lastSpikeAt[ws], at)
  OBVIOUS
<1> HIDE DEF spike, hot, win
<1>4. /\ OnlyWriter(w)
      /\ write'[w].at = write[w].at /\ write'[w].ev = write[w].ev
      /\ write'[w].pc \in {"volume", "filter"} /\ write'[w].volume = spike
  BY SMT, <1>1 DEF Formed, Fields, IsRecord, OnlyWriter
<1>5. ~spike => lastSpikeAt' = lastSpikeAt
  BY SMT, <1>1 DEF Formed
<1>6. spike => lastSpikeAt' = [lastSpikeAt EXCEPT ![ws] = at]
  BY SMT, <1>1
<1> QED BY SMT, <1>1, <1>2, <1>3, <1>4, <1>5, <1>6

\* feedWriteEvent reads the clock for one write and touches no detector.
LEMMA FeedStep ==
  ASSUME Formed, NEW w \in Writer, feedWriteEvent(w)
  PROVE  /\ OnlyWriter(w)
         /\ write'[w].at = clock /\ write'[w].ev \in Write /\ write'[w].pc = "monitor"
         /\ UNCHANGED <<clock, lastSpikeAt, published>>
<1>1. PICK ev \in Write :
         write' = [write EXCEPT ![w].pc = "monitor", ![w].ev = ev, ![w].at = clock]
  BY DEF feedWriteEvent
<1>2. UNCHANGED <<clock, lastSpikeAt, published>>
  BY SMT DEF feedWriteEvent, monitorVars
<1> QED BY <1>1, <1>2 DEF Formed, Fields, IsRecord, OnlyWriter

-----------------------------------------------------------------------------
\* The shape is kept.
LEMMA KeepsShape ==
  ASSUME Formed, NEW w \in Writer, OnlyWriter(w), clock' = clock,
         lastSpikeAt' \in [Workspace -> Int], write'[w].at \in Nat, write'[w].ev \in Write
  PROVE  Formed'
<1>1. ASSUME NEW x \in Writer
      PROVE  /\ IsRecord(write'[x]) /\ write'[x].at \in Nat
             /\ write'[x].pc # "idle" => write'[x].ev \in Write
  BY SMT DEF Formed, OnlyWriter, At
<1>2. clock' \in Nat
  BY SMT DEF Formed
<1>3. DOMAIN write' = Writer /\ write' = [x \in Writer |-> write'[x]]
  BY SMT DEF OnlyWriter
<1> QED BY <1>1, <1>2, <1>3, Zenon DEF Formed, At

\* Every step keeps the records of the writers in form.
LEMMA FormedStep ==
  ASSUME Formed, [SpikesNext]_spikesVars
  PROVE  Formed'
<1>1. CASE UNCHANGED spikesVars
  BY SMT, <1>1 DEF spikesVars, monitorVars, Formed, At
<1>2. CASE Tick
  BY SMT, <1>2 DEF Tick, monitorVars, Formed, At
<1>3. ASSUME NEW w \in Writer, feedWriteEvent(w) PROVE Formed'
  <2>1. clock \in Nat /\ lastSpikeAt \in [Workspace -> Int]
    BY SMT DEF Formed
  <2> QED BY SMT, <1>3, <2>1, FeedStep, KeepsShape
<1>4. ASSUME NEW w \in Writer, record(w) PROVE Formed'
  <2>1. /\ write[w].ev \in Write /\ write[w].at \in Nat
        /\ lastSpikeAt \in [Workspace -> Int]
    BY <1>4 DEF record, Formed, At
  <2>2. \/ lastSpikeAt' = lastSpikeAt
        \/ lastSpikeAt' = [lastSpikeAt EXCEPT ![write[w].ev.workspace] = write[w].at]
    BY <1>4, RecordStep
  <2>3. lastSpikeAt' \in [Workspace -> Int]
    BY SMT, <2>1, <2>2
  <2> QED BY <1>4, <2>1, <2>3, RecordStep, KeepsShape
<1>5. ASSUME NEW w \in Writer,
             PublishVolume(w) \/ classify(w) \/ PublishSemantic(w) \/ PublishWarning(w)
      PROVE  Formed'
  <2>1. Moves(w) /\ UNCHANGED <<clock, lastSpikeAt>>
    BY SMT, <1>5, MoveSteps
  <2>2. /\ write[w].ev \in Write /\ write[w].at \in Nat
        /\ lastSpikeAt \in [Workspace -> Int]
    BY SMT, <2>1 DEF Moves, Formed, At
  <2> QED BY SMT, <2>1, <2>2, KeepsShape DEF Moves
<1> QED BY SMT, <1>1, <1>2, <1>3, <1>4, <1>5 DEF SpikesNext, WriterStep

\* A step that leaves the spikes found so far, and their times, as they were.
LEMMA KeepsSpikes ==
  ASSUME LastIsLatest, Apart, lastSpikeAt' = lastSpikeAt,
         \A x \in Writer : Spiked(x)' =>
           /\ Spiked(x) /\ write'[x].at = write[x].at /\ write'[x].ev = write[x].ev
  PROVE  LastIsLatest' /\ Apart'
<1>1. LastIsLatest'
  BY SMT DEF LastIsLatest
<1>2. Apart'
  BY SMT DEF Apart
<1> QED BY SMT, <1>1, <1>2

\* A spike is recorded only when it lies the debounce after the latest one.
LEMMA SpikesStep ==
  ASSUME Formed, LastIsLatest, Apart, [SpikesNext]_spikesVars
  PROVE  LastIsLatest' /\ Apart'
<1>1. CASE UNCHANGED spikesVars
  BY SMT, <1>1, KeepsSpikes DEF spikesVars, monitorVars, Spiked
<1>2. CASE Tick
  BY SMT, <1>2, KeepsSpikes DEF Tick, monitorVars, Spiked
<1>3. ASSUME NEW w \in Writer, feedWriteEvent(w) PROVE LastIsLatest' /\ Apart'
  BY SMT, <1>3, FeedStep, KeepsSpikes DEF OnlyWriter, Spiked
<1>4. ASSUME NEW w \in Writer, record(w) PROVE LastIsLatest' /\ Apart'
  <2> DEFINE ws == write[w].ev.workspace
  <2>1. /\ OnlyWriter(w)
        /\ write'[w].at = write[w].at /\ write'[w].ev = write[w].ev
        /\ write[w].pc = "monitor" /\ write'[w].pc \in {"volume", "filter"}
    BY <1>4, RecordStep
  <2>2. write[w].at \in Nat /\ ws \in Workspace /\ lastSpikeAt \in [Workspace -> Int]
    BY SMT, <2>1, WriteAssumption DEF Formed, At
  <2>3. CASE write'[w].volume = FALSE /\ lastSpikeAt' = lastSpikeAt
    BY SMT, <2>1, <2>3, KeepsSpikes DEF OnlyWriter, Spiked
  <2>4. CASE /\ ~Debounced(lastSpikeAt[ws], write[w].at)
             /\ lastSpikeAt' = [lastSpikeAt EXCEPT ![ws] = write[w].at]
    <3>1. Debounce \in Nat \ {0}
      BY SMT, WindowsAssumption
    <3>2. lastSpikeAt'[ws] = write[w].at /\ \A x \in Workspace \ {ws} : lastSpikeAt'[x] = lastSpikeAt[x]
      BY SMT, <2>2, <2>4
    <3>3. \A x \in Writer \ {w} : Spiked(x)' <=> Spiked(x)
      BY SMT, <2>1 DEF OnlyWriter, Spiked
    <3>4. \A x \in Writer \ {w} : write'[x] = write[x] /\ write[x].at \in Nat
      BY SMT, <2>1 DEF OnlyWriter, Formed
    <3>5. ASSUME NEW x \in Writer \ {w}, Spiked(x), write[x].ev.workspace = ws
          PROVE  write[w].at - write[x].at >= Debounce
      <4>1. lastSpikeAt[ws] # Never /\ write[x].at <= lastSpikeAt[ws]
        BY SMT, <3>5 DEF LastIsLatest
      <4>2. write[w].at - lastSpikeAt[ws] >= Debounce
        BY SMT, <2>2, <2>4, <3>1, <4>1 DEF Debounced
      <4> QED BY SMT, <2>2, <3>1, <3>4, <4>1, <4>2
    <3>6. LastIsLatest'
      <4> SUFFICES ASSUME NEW x \in Writer, Spiked(x)'
                   PROVE  /\ lastSpikeAt'[write'[x].ev.workspace] # Never
                          /\ write'[x].at <= lastSpikeAt'[write'[x].ev.workspace]
        BY SMT DEF LastIsLatest
      <4>1. CASE x = w
        BY SMT, <2>1, <2>2, <3>2, <4>1 DEF Never
      <4>2. CASE x # w /\ write[x].ev.workspace = ws
        BY SMTT(30), <2>2, <3>1, <3>2, <3>3, <3>4, <3>5, <4>2 DEF Never
      <4>3. CASE x # w /\ write[x].ev.workspace # ws
        <5>1. write[x].ev.workspace \in Workspace
          BY SMT, <3>3, <4>3, WriteAssumption DEF Formed, Spiked, At
        <5> QED BY SMT, <3>2, <3>3, <3>4, <4>3, <5>1 DEF LastIsLatest
      <4> QED BY SMT, <4>1, <4>2, <4>3
    <3>7. Apart'
      <4> SUFFICES ASSUME NEW u \in Writer, NEW v \in Writer, Spiked(u)', Spiked(v)', u # v,
                          write'[u].ev.workspace = write'[v].ev.workspace,
                          write'[u].at >= write'[v].at
                   PROVE  write'[u].at - write'[v].at >= Debounce
        BY SMT DEF Apart
      <4>1. CASE u = w
        BY <2>1, <3>3, <3>4, <3>5, <4>1
      <4>2. CASE v = w
        <5>1. write[w].at - write[u].at >= Debounce /\ write[u].at >= write[w].at
          BY <2>1, <3>3, <3>4, <3>5, <4>2
        <5> QED BY SMT, <2>2, <3>1, <3>4, <4>2, <5>1
      <4>3. CASE u # w /\ v # w
        BY <3>3, <3>4, <4>3 DEF Apart
      <4> QED BY SMT, <4>1, <4>2, <4>3
    <3> QED BY SMT, <3>6, <3>7
  <2> QED BY <1>4, <2>3, <2>4, RecordStep
<1>5. ASSUME NEW w \in Writer,
             PublishVolume(w) \/ classify(w) \/ PublishSemantic(w) \/ PublishWarning(w)
      PROVE  LastIsLatest' /\ Apart'
  BY SMT, <1>5, MoveSteps, KeepsSpikes DEF Moves, OnlyWriter, Spiked
<1> QED BY SMT, <1>1, <1>2, <1>3, <1>4, <1>5 DEF SpikesNext, WriterStep

\* The warning comes after its spike.
LEMMA WarningsStep ==
  ASSUME Formed, SpikeFirst, [SpikesNext]_spikesVars
  PROVE  SpikeFirst'
<1> USE DEF SpikeFirst, WarningsExplained, At
<1>1. CASE UNCHANGED spikesVars
  BY SMT, <1>1 DEF spikesVars, monitorVars
<1>2. CASE Tick
  BY SMT, <1>2 DEF Tick
<1>3. ASSUME NEW w \in Writer, feedWriteEvent(w) PROVE SpikeFirst'
  BY SMT, <1>3, FeedStep DEF OnlyWriter
<1>4. ASSUME NEW w \in Writer, record(w) PROVE SpikeFirst'
  BY <1>4, RecordStep DEF OnlyWriter
<1>5. ASSUME NEW w \in Writer,
             PublishVolume(w) \/ classify(w) \/ PublishSemantic(w) \/ PublishWarning(w)
      PROVE  SpikeFirst'
  <2>1. \A x \in Writer \ {w} : write'[x] = write[x]
    BY SMT, <1>5, MoveSteps DEF Moves, OnlyWriter
  <2>2. CASE classify(w)
    <3>1. published' = published
      BY <2>2 DEF classify
    <3>2. write'[w].pc \in {"done", "semantic"}
      BY SMT, <2>2, ClassifyMoves
    <3> QED BY SMT, <2>1, <3>1, <3>2
  <2>3. CASE PublishVolume(w)
    <3>1. write'[w].pc = "filter"
      BY SMT, <2>3 DEF PublishVolume, Formed, Fields, IsRecord
    <3> QED BY SMT, <2>1, <2>3, <3>1 DEF PublishVolume, Put
  <2>4. CASE PublishSemantic(w)
    <3>1. \/ Put(w, "ast/semantic-spike")
          \/ published' = published /\ write'[w].pc = "done"
      BY SMT, <2>4 DEF PublishSemantic, Formed, Fields, IsRecord
    <3> QED BY SMT, <2>1, <3>1 DEF Put
  <2>5. CASE PublishWarning(w)
    <3>1. write'[w].pc = "done"
      BY SMT, <2>5 DEF PublishWarning, Formed, Fields, IsRecord
    <3>2. [topic |-> "ast/semantic-spike", by |-> w] \in published
      BY SMT, <2>5 DEF PublishWarning
    <3> QED BY SMT, <2>1, <2>5, <3>1, <3>2 DEF PublishWarning, Put
  <2> QED BY SMT, <1>5, <2>2, <2>3, <2>4, <2>5
<1> QED BY SMT, <1>1, <1>2, <1>3, <1>4, <1>5 DEF SpikesNext, WriterStep

-----------------------------------------------------------------------------
\* The invariant holds at first.
LEMMA InitSpikesInv == SpikesInit => SpikesInv
<1> SUFFICES ASSUME SpikesInit PROVE SpikesInv
  OBVIOUS
<1>1. Formed
  <2>1. IsRecord(Idle) /\ Idle.at = 0 /\ Idle.pc = "idle"
    BY DEF IsRecord, Fields, Idle
  <2>2. clock \in Nat /\ lastSpikeAt \in [Workspace -> Int]
    BY SMT DEF SpikesInit, Never
  <2>3. DOMAIN write = Writer /\ \A w \in Writer : write[w] = Idle
    BY SMT DEF SpikesInit
  <2>4. write = [w \in Writer |-> write[w]]
    BY SMT DEF SpikesInit
  <2> QED BY SMT, <2>1, <2>2, <2>3, <2>4 DEF Formed, At
<1>2. LastIsLatest /\ Apart
  BY SMT DEF SpikesInit, LastIsLatest, Apart, Spiked, Idle
<1>3. SpikeFirst
  BY SMT DEF SpikesInit, SpikeFirst, WarningsExplained, At, Idle
<1> QED BY SMT, <1>1, <1>2, <1>3 DEF SpikesInv

\* The inductive invariant: the record of the last spike of a workspace is
\* never behind a spike found, and a writer that reached the warning has its
\* spike on the broker (ast_spike_monitor.go: record; ast_spike_filter.go:
\* ObserveWrite).
THEOREM SpikesInvariance == SpikesSpec => []SpikesInv
<1>1. SpikesInv /\ [SpikesNext]_spikesVars => SpikesInv'
  BY SMT, FormedStep, SpikesStep, WarningsStep DEF SpikesInv
<1> QED BY <1>1, InitSpikesInv, PTL DEF SpikesSpec

\* For any number of writers and any lag between a write's time and its turn at
\* the lock, two spikes of a workspace are at least the debounce apart
\* (ast_spike_monitor.go: record).
THEOREM AlwaysDebounced == SpikesSpec => []SpikesDebounced
<1>1. SpikesInv => SpikesDebounced
  BY SMT DEF SpikesInv, Apart, Spiked, SpikesDebounced, VolumeSpikes, Recorded
<1> QED BY <1>1, SpikesInvariance, PTL

\* Whatever the broker refuses, a conflict warning is on it only with its
\* semantic spike (ast_spike_filter.go: ObserveWrite).
THEOREM WarningsAlwaysExplained == SpikesSpec => []WarningsExplained
<1>1. SpikesInv => WarningsExplained
  BY SMT DEF SpikesInv, SpikeFirst
<1> QED BY <1>1, SpikesInvariance, PTL

-----------------------------------------------------------------------------
(* Bursts: what the monitor has seen and what it still remembers. *)

IsRecorded(w) == write[w].pc \notin {"idle", "monitor"}

\* A write is under way for MaxLag at most, and its time is never ahead.
LagInv ==
  \A w \in Writer : ~At(w, "idle") =>
    write[w].at <= clock /\ (UnderWay(w) => clock - write[w].at <= MaxLag)

\* A recorded write is among the samples until a write a window later comes.
SamplesInv ==
  /\ samples \in [Workspace -> SUBSET Writer]
  /\ \A ws \in Workspace :
       /\ IsFiniteSet(samples[ws])
       /\ \A u \in Recorded(ws) :
            u \in samples[ws] \/ \E x \in Recorded(ws) : write[u].at <= write[x].at - Window

LastIsSpike ==
  \A ws \in Workspace :
    lastSpikeAt[ws] # Never => \E v \in VolumeSpikes(ws) : write[v].at = lastSpikeAt[ws]

MonitorInv == LagInv /\ SamplesInv /\ LastIsSpike /\ NoBurstMissed

\* The step leaves alone what the monitor has recorded of every write.
KeepsRecorded ==
  \A x \in Writer :
    /\ IsRecorded(x)' <=> IsRecorded(x)
    /\ IsRecorded(x) => /\ write'[x].at = write[x].at /\ write'[x].ev = write[x].ev
                        /\ write'[x].volume = write[x].volume

\* A step that leaves the monitor and what it recorded alone keeps its
\* invariant.
LEMMA MonitorKept ==
  ASSUME SamplesInv, LastIsSpike, NoBurstMissed, KeepsRecorded,
         samples' = samples, lastSpikeAt' = lastSpikeAt
  PROVE  SamplesInv' /\ LastIsSpike' /\ NoBurstMissed'
<1>1. \A ws \in Workspace : Recorded(ws)' = Recorded(ws) /\ VolumeSpikes(ws)' = VolumeSpikes(ws)
  <2>1. \A ws \in Workspace : Recorded(ws)' = Recorded(ws)
    BY DEF Recorded, KeepsRecorded, IsRecorded
  <2>2. \A ws \in Workspace : VolumeSpikes(ws)' = VolumeSpikes(ws)
    <3>1. \A ws \in Workspace : \A x \in Recorded(ws) : write'[x].volume = write[x].volume
      BY DEF KeepsRecorded, IsRecorded, Recorded
    <3> QED BY <2>1, <3>1 DEF VolumeSpikes
  <2> QED BY <2>1, <2>2
<1>2. \A ws \in Workspace : \A x \in Recorded(ws) : write'[x].at = write[x].at
  BY DEF Recorded, KeepsRecorded, IsRecorded
<1>3. SamplesInv'
  BY SMTT(30), <1>1, <1>2 DEF SamplesInv
<1>4. LastIsSpike'
  <2>1. \A ws \in Workspace : \A v \in VolumeSpikes(ws) : write'[v].at = write[v].at
    BY <1>2 DEF VolumeSpikes
  <2> QED BY <1>1, <2>1 DEF LastIsSpike
<1>5. NoBurstMissed'
  <2> SUFFICES ASSUME NEW ws \in Workspace, NEW burst \in SUBSET (Recorded(ws)'),
                      Cardinality(burst) >= Threshold,
                      \A v, w \in burst : write'[v].at - write'[w].at + MaxLag < Window
               PROVE  \E v \in VolumeSpikes(ws)', w \in burst :
                        /\ write'[v].at > write'[w].at - Debounce
                        /\ write'[v].at <= write'[w].at + MaxLag
    BY DEF NoBurstMissed
  <2>0. burst \in SUBSET Recorded(ws) /\ VolumeSpikes(ws)' = VolumeSpikes(ws)
    BY <1>1
  <2>1. \A v, w \in burst : write[v].at - write[w].at + MaxLag < Window
    BY <1>2, <2>0
  <2>2. PICK v \in VolumeSpikes(ws), w \in burst :
           write[v].at > write[w].at - Debounce /\ write[v].at <= write[w].at + MaxLag
    BY <2>0, <2>1 DEF NoBurstMissed
  <2>3. write'[v].at = write[v].at /\ write'[w].at = write[w].at
    BY <1>2, <2>0 DEF VolumeSpikes
  <2> QED BY <2>0, <2>2, <2>3
<1> QED BY <1>3, <1>4, <1>5

\* What a publication leaves alone.
LEMMA PublishStep ==
  ASSUME Formed, NEW w \in Writer, PublishVolume(w) \/ PublishSemantic(w) \/ PublishWarning(w)
  PROVE  /\ Moves(w)
         /\ write'[w].kind = write[w].kind /\ write'[w].peers = write[w].peers
         /\ clock' = clock /\ samples' = samples /\ lastSpikeAt' = lastSpikeAt
         /\ writers' = writers
         /\ \/ write[w].pc = "volume" /\ write'[w].pc = "filter"
            \/ write[w].pc \in {"semantic", "warning"} /\ write'[w].pc \in {"done", "warning"}
<1>1. /\ clock' = clock /\ samples' = samples /\ lastSpikeAt' = lastSpikeAt /\ writers' = writers
      /\ \E l \in {"done", "filter", "warning"} :
           /\ write' = [write EXCEPT ![w].pc = l]
           /\ \/ write[w].pc = "volume" /\ l = "filter"
              \/ write[w].pc \in {"semantic", "warning"} /\ l \in {"done", "warning"}
  BY DEF PublishVolume, PublishSemantic, PublishWarning, At, monitorVars, filterVars
<1>2. /\ write'[w].kind = write[w].kind /\ write'[w].peers = write[w].peers
      /\ \/ write[w].pc = "volume" /\ write'[w].pc = "filter"
         \/ write[w].pc \in {"semantic", "warning"} /\ write'[w].pc \in {"done", "warning"}
  BY SMT, <1>1 DEF Formed, IsRecord, Fields
<1> QED BY <1>1, <1>2, MoveSteps

\* What the monitor's step does to the window of its workspace.
LEMMA RecordWindow ==
  ASSUME Formed, NEW w \in Writer, record(w)
  PROVE  LET ws == write[w].ev.workspace
             win == KeptSamples(samples[ws], write[w].at) \cup {w}
             spike == Cardinality(win) >= Threshold /\ ~Debounced(lastSpikeAt[ws], write[w].at)
         IN /\ samples' = [samples EXCEPT ![ws] = win]
            /\ lastSpikeAt' = [lastSpikeAt EXCEPT ![ws] = IF spike THEN write[w].at ELSE @]
            /\ write'[w].volume = spike /\ write'[w].kind = write[w].kind
            /\ write'[w].peers = write[w].peers /\ writers' = writers
<1> DEFINE ws == write[w].ev.workspace
           win == KeptSamples(samples[ws], write[w].at) \cup {w}
           spike == Cardinality(win) >= Threshold /\ ~Debounced(lastSpikeAt[ws], write[w].at)
           hot == IF spike THEN topPaths(win) ELSE <<>>
<1>1. /\ samples' = [samples EXCEPT ![ws] = win]
      /\ lastSpikeAt' = [lastSpikeAt EXCEPT ![ws] = IF spike THEN write[w].at ELSE @]
      /\ write' = [write EXCEPT ![w].volume = spike, ![w].hot = hot,
                                ![w].pc = IF spike THEN "volume" ELSE "filter"]
      /\ writers' = writers
  BY DEF record, filterVars
<1> HIDE DEF spike, hot, win
<1>2. /\ write'[w].volume = spike /\ write'[w].kind = write[w].kind
      /\ write'[w].peers = write[w].peers
  BY SMT, <1>1 DEF Formed, IsRecord, Fields
<1> QED BY <1>1, <1>2 DEF spike, win

\* The last write of a burst to take the lock finds the others in the window: a
\* write that pruned one of them would be later than it by more than the lag.
LEMMA RecordMonitor ==
  ASSUME Formed, MonitorInv, NEW w \in Writer, record(w)
  PROVE  SamplesInv' /\ LastIsSpike' /\ NoBurstMissed'
<1>0. PICK ws, at, win, spike :
        /\ ws = write[w].ev.workspace /\ at = write[w].at
        /\ win = KeptSamples(samples[ws], at) \cup {w}
        /\ spike = (Cardinality(win) >= Threshold /\ ~Debounced(lastSpikeAt[ws], at))
  OBVIOUS
<1>1. /\ OnlyWriter(w) /\ clock' = clock
      /\ write'[w].at = at /\ write'[w].ev = write[w].ev
      /\ write[w].pc = "monitor" /\ write'[w].pc \in {"volume", "filter"}
  BY <1>0, RecordStep
<1>2. /\ samples' = [samples EXCEPT ![ws] = win]
      /\ lastSpikeAt' = [lastSpikeAt EXCEPT ![ws] = IF spike THEN at ELSE lastSpikeAt[ws]]
      /\ write'[w].volume = spike
  BY <1>0, RecordWindow
<1>3. at \in Nat /\ ws \in Workspace /\ lastSpikeAt \in [Workspace -> Int] /\ spike \in BOOLEAN
      /\ samples \in [Workspace -> SUBSET Writer]
  BY SMT, <1>0, <1>1, WriteAssumption DEF Formed, At, MonitorInv, SamplesInv
<1>4. Window \in Nat \ {0} /\ Threshold \in Nat \ {0} /\ Debounce \in Nat \ {0} /\ MaxLag \in Nat
  BY WindowsAssumption
<1>5. \A x \in Writer : write'[x].at = write[x].at /\ write[x].at \in Nat
  BY <1>0, <1>1 DEF OnlyWriter, Formed
<1>6. Recorded(ws)' = Recorded(ws) \cup {w} /\ w \notin Recorded(ws)
  BY SMT, <1>0, <1>1 DEF Recorded, OnlyWriter
<1>7. \A y \in Workspace \ {ws} : Recorded(y)' = Recorded(y) /\ VolumeSpikes(y)' = VolumeSpikes(y)
  <2>1. \A y \in Workspace \ {ws} : Recorded(y)' = Recorded(y)
    BY SMT, <1>0, <1>1 DEF Recorded, OnlyWriter
  <2>2. \A y \in Workspace \ {ws} : \A x \in Recorded(y) : write'[x] = write[x]
    BY <1>0, <1>1 DEF Recorded, OnlyWriter
  <2> QED BY <2>1, <2>2 DEF VolumeSpikes
<1>8. /\ \A x \in VolumeSpikes(ws) : x \in VolumeSpikes(ws)'
      /\ spike => w \in VolumeSpikes(ws)'
  <2>1. \A x \in Recorded(ws) : write'[x] = write[x]
    BY <1>1, <1>6 DEF Recorded, OnlyWriter
  <2> QED BY <1>2, <1>6, <2>1 DEF VolumeSpikes
<1>9. \A x \in Recorded(ws) : write[x].at <= at + MaxLag
  <2>1. clock <= at + MaxLag /\ clock \in Nat
    BY SMT, <1>0, <1>1, <1>3, <1>4 DEF MonitorInv, LagInv, UnderWay, At, Formed
  <2>2. \A x \in Recorded(ws) : write[x].at <= clock /\ write[x].at \in Nat
    BY <1>5 DEF MonitorInv, LagInv, Recorded, At
  <2> QED BY SMTT(30), <1>3, <1>4, <2>1, <2>2
<1>10. \A y \in Workspace : samples'[y] = IF y = ws THEN win ELSE samples[y]
  BY <1>2, <1>3
<1>11. \A x : x \in win <=> x = w \/ (x \in samples[ws] /\ write[x].at > at - Window)
  BY <1>0 DEF KeptSamples
<1>12. IsFiniteSet(win) /\ win \subseteq Writer
  <2>1. IsFiniteSet(KeptSamples(samples[ws], at))
    <3>1. KeptSamples(samples[ws], at) \in SUBSET samples[ws]
      BY DEF KeptSamples
    <3>2. IsFiniteSet(samples[ws])
      BY <1>3 DEF MonitorInv, SamplesInv
    <3> QED BY <3>1, <3>2, FS_Subset
  <2>2. IsFiniteSet(win)
    BY <1>0, <2>1, FS_AddElement
  <2>3. samples[ws] \subseteq Writer
    BY <1>3
  <2> QED BY <1>11, <2>2, <2>3
<1>13. SamplesInv'
  <2>1. samples' \in [Workspace -> SUBSET Writer]
    BY <1>2, <1>3, <1>12
  <2>2. ASSUME NEW y \in Workspace \ {ws}
        PROVE  /\ IsFiniteSet(samples'[y])
               /\ \A u \in Recorded(y)' :
                    u \in samples'[y] \/ \E x \in Recorded(y)' : write'[u].at <= write'[x].at - Window
    <3>1. \A u \in Recorded(y) : u \in Writer
      BY DEF Recorded
    <3>2. Recorded(y)' = Recorded(y) /\ samples'[y] = samples[y]
      BY <1>7, <1>10
    <3>3. /\ IsFiniteSet(samples[y])
          /\ \A u \in Recorded(y) :
               u \in samples[y] \/ \E x \in Recorded(y) : write[u].at <= write[x].at - Window
      BY DEF MonitorInv, SamplesInv
    <3>4. \A u \in Recorded(y) : write'[u].at = write[u].at
      BY <1>5, <3>1
    <3> QED BY <3>2, <3>3, <3>4
  <2>3. ASSUME NEW u \in Recorded(ws)'
        PROVE  u \in win \/ \E x \in Recorded(ws)' : write'[u].at <= write'[x].at - Window
    <3>1. \A x \in Recorded(ws) : x \in Writer
      BY DEF Recorded
    <3>2. CASE u = w
      BY <1>11, <3>2
    <3>3. CASE u \in samples[ws] /\ u # w
      <4>1. u \in Writer
        BY <1>3, <3>3
      <4>2. u \in win \/ write[u].at <= at - Window
        BY SMTT(30), <1>3, <1>4, <1>5, <1>11, <3>3, <4>1
      <4>3. w \in Recorded(ws)' /\ write'[w].at = at /\ write'[u].at = write[u].at
        BY <1>1, <1>5, <1>6, <4>1
      <4> QED BY <4>2, <4>3
    <3>4. CASE u \notin samples[ws] /\ u # w
      <4>1. u \in Recorded(ws)
        BY <1>6, <3>4
      <4>2. PICK x \in Recorded(ws) : write[u].at <= write[x].at - Window
        BY <1>3, <3>4, <4>1 DEF MonitorInv, SamplesInv
      <4> QED BY <1>5, <1>6, <3>1, <4>1, <4>2
    <3> QED BY <3>2, <3>3, <3>4
  <2> QED BY <1>10, <1>12, <2>1, <2>2, <2>3 DEF SamplesInv
<1>14. LastIsSpike'
  <2> SUFFICES ASSUME NEW y \in Workspace, lastSpikeAt'[y] # Never
               PROVE  \E v \in VolumeSpikes(y)' : write'[v].at = lastSpikeAt'[y]
    BY DEF LastIsSpike
  <2>1. CASE y = ws /\ spike
    BY <1>1, <1>2, <1>3, <1>8, <2>1
  <2>2. CASE ~(y = ws /\ spike)
    <3>1. lastSpikeAt'[y] = lastSpikeAt[y]
      BY <1>2, <1>3, <2>2
    <3>2. PICK v \in VolumeSpikes(y) : write[v].at = lastSpikeAt[y]
      BY <3>1 DEF MonitorInv, LastIsSpike
    <3>3. v \in VolumeSpikes(y)' /\ v \in Writer
      BY <1>7, <1>8, <3>2 DEF VolumeSpikes, Recorded
    <3> QED BY <1>5, <3>1, <3>2, <3>3
  <2> QED BY <2>1, <2>2
<1>15. NoBurstMissed'
  <2> SUFFICES ASSUME NEW y \in Workspace, NEW burst \in SUBSET (Recorded(y)'),
                      Cardinality(burst) >= Threshold,
                      \A u, v \in burst : write'[u].at - write'[v].at + MaxLag < Window
               PROVE  \E v \in VolumeSpikes(y)', u \in burst :
                        /\ write'[v].at > write'[u].at - Debounce
                        /\ write'[v].at <= write'[u].at + MaxLag
    BY SMT DEF NoBurstMissed
  <2>1. burst \subseteq Writer /\ VolumeSpikes(y)' \subseteq Writer
    BY DEF Recorded, VolumeSpikes
  <2>2. \A u, v \in burst : write[u].at - write[v].at + MaxLag < Window
    BY <1>5, <2>1
  <2>3. CASE w \notin burst \/ y # ws
    <3>1. burst \in SUBSET Recorded(y)
      BY <1>6, <1>7, <2>3
    <3>2. PICK v \in VolumeSpikes(y), u \in burst :
             write[v].at > write[u].at - Debounce /\ write[v].at <= write[u].at + MaxLag
      BY <2>2, <3>1 DEF MonitorInv, NoBurstMissed
    <3>3. v \in VolumeSpikes(y)'
      BY <1>7, <1>8
    <3> QED BY <1>5, <2>1, <3>2, <3>3
  <2>4. CASE w \in burst /\ y = ws
    <3>1. burst \subseteq win
      <4> SUFFICES ASSUME NEW u \in burst, u # w PROVE u \in win
        BY <1>11
      <4>1. u \in Recorded(ws) /\ write[u].at \in Nat
        BY <1>5, <1>6, <2>1, <2>4
      <4>2. at - write[u].at + MaxLag < Window
        BY <1>0, <2>2, <2>4
      <4>3. \A x \in Recorded(ws) : ~(write[u].at <= write[x].at - Window)
        <5>1. \A x \in Recorded(ws) : write[x].at \in Nat
          BY <1>5 DEF Recorded
        <5> QED BY SMT, <1>3, <1>4, <1>9, <4>1, <4>2, <5>1
      <4>4. u \in samples[ws]
        BY <1>3, <4>1, <4>3 DEF MonitorInv, SamplesInv
      <4>5. write[u].at > at - Window
        BY SMT, <1>3, <1>4, <4>1, <4>2
      <4> QED BY <1>11, <4>4, <4>5
    <3>2. Cardinality(win) >= Threshold
      <4>1. Cardinality(burst) <= Cardinality(win) /\ IsFiniteSet(burst)
        BY <1>12, <3>1, FS_Subset
      <4>2. Cardinality(burst) \in Nat /\ Cardinality(win) \in Nat
        BY <1>12, <4>1, FS_CardinalityType
      <4> QED BY SMT, <1>4, <4>1, <4>2
    <3>3. CASE spike
      <4>1. w \in VolumeSpikes(y)' /\ write'[w].at = at
        BY <1>1, <1>8, <2>4, <3>3
      <4>2. at > at - Debounce /\ at <= at + MaxLag
        BY SMT, <1>3, <1>4
      <4> QED BY <2>4, <4>1, <4>2
    <3>4. CASE ~spike
      <4>1. Debounced(lastSpikeAt[ws], at)
        BY <1>0, <3>2, <3>4
      <4>2. PICK v \in VolumeSpikes(ws) : write[v].at = lastSpikeAt[ws]
        BY <1>3, <4>1 DEF Debounced, MonitorInv, LastIsSpike
      <4>3. v \in Recorded(ws) /\ v \in Writer /\ v \in VolumeSpikes(y)'
        BY <1>8, <2>4 DEF VolumeSpikes, Recorded
      <4>4. write[v].at > at - Debounce
        BY SMT, <1>3, <1>4, <4>1, <4>2 DEF Debounced
      <4>5. write[v].at <= at + MaxLag
        BY <1>9, <4>3
      <4>6. write'[v].at = write[v].at /\ write'[w].at = at
        BY <1>1, <1>5, <4>3
      <4> QED BY <2>4, <4>3, <4>4, <4>5, <4>6
    <3> QED BY <1>3, <3>3, <3>4
  <2> QED BY <2>3, <2>4
<1> QED BY <1>13, <1>14, <1>15

\* The guard of Tick keeps the writes under way within the lag.
LEMMA LagStep ==
  ASSUME Formed, LagInv, [SpikesNext]_spikesVars
  PROVE  LagInv'
<1> USE WindowsAssumption
<1>1. CASE UNCHANGED spikesVars
  BY SMT, <1>1 DEF spikesVars, LagInv, At, UnderWay
<1>2. CASE Tick
  BY SMT, <1>2 DEF Tick, LagInv, At, UnderWay, Formed
<1>3. ASSUME NEW w \in Writer, feedWriteEvent(w) PROVE LagInv'
  <2>1. OnlyWriter(w) /\ write'[w].at = clock /\ clock' = clock /\ clock \in Nat
    BY SMT, <1>3, FeedStep DEF Formed
  <2> QED BY SMT, <2>1 DEF LagInv, At, UnderWay, OnlyWriter
<1>4. ASSUME NEW w \in Writer, OnlyWriter(w), clock' = clock, write'[w].at = write[w].at,
             write[w].pc # "idle", UnderWay(w)' => UnderWay(w)
      PROVE  LagInv'
  BY SMT, <1>4 DEF LagInv, At, UnderWay, OnlyWriter
<1>5. ASSUME NEW w \in Writer, record(w) PROVE LagInv'
  BY <1>4, <1>5, RecordStep DEF UnderWay
<1>6. ASSUME NEW w \in Writer, classify(w) PROVE LagInv'
  <2>1. write[w].pc = "filter"
    BY <1>6 DEF classify, At
  <2> QED BY SMT, <1>4, <1>6, <2>1, ClassifyMoves DEF UnderWay, Moves
<1>7. ASSUME NEW w \in Writer, PublishVolume(w) \/ PublishSemantic(w) \/ PublishWarning(w)
      PROVE  LagInv'
  BY <1>4, <1>7, PublishStep DEF UnderWay, Moves
<1> QED BY <1>1, <1>2, <1>3, <1>5, <1>6, <1>7 DEF SpikesNext, WriterStep

\* Every step keeps the invariant of the monitor.
LEMMA MonitorStep ==
  ASSUME Formed, MonitorInv, [SpikesNext]_spikesVars
  PROVE  MonitorInv'
<1>1. ASSUME KeepsRecorded, samples' = samples, lastSpikeAt' = lastSpikeAt
      PROVE  SamplesInv' /\ LastIsSpike' /\ NoBurstMissed'
  BY <1>1, MonitorKept DEF MonitorInv
<1>2. ASSUME UNCHANGED spikesVars \/ Tick
      PROVE  SamplesInv' /\ LastIsSpike' /\ NoBurstMissed'
  <2>1. write' = write /\ samples' = samples /\ lastSpikeAt' = lastSpikeAt
    BY <1>2 DEF spikesVars, Tick, monitorVars
  <2>2. KeepsRecorded
    BY <2>1 DEF KeepsRecorded, IsRecorded
  <2> QED BY <1>1, <2>1, <2>2
<1>4. ASSUME NEW w \in Writer, feedWriteEvent(w)
      PROVE  SamplesInv' /\ LastIsSpike' /\ NoBurstMissed'
  <2>1. /\ OnlyWriter(w) /\ write'[w].pc = "monitor" /\ write[w].pc = "idle"
        /\ samples' = samples /\ lastSpikeAt' = lastSpikeAt
    BY <1>4, FeedStep DEF feedWriteEvent, At, monitorVars
  <2> QED BY <1>1, <2>1 DEF KeepsRecorded, IsRecorded, OnlyWriter
<1>5. ASSUME NEW w \in Writer, classify(w)
      PROVE  SamplesInv' /\ LastIsSpike' /\ NoBurstMissed'
  <2>1. Moves(w) /\ samples' = samples /\ lastSpikeAt' = lastSpikeAt
    BY <1>5, ClassifyMoves DEF classify, monitorVars
  <2> QED BY SMT, <1>1, <2>1 DEF KeepsRecorded, IsRecorded, Moves, OnlyWriter
<1>6. ASSUME NEW w \in Writer, PublishVolume(w) \/ PublishSemantic(w) \/ PublishWarning(w)
      PROVE  SamplesInv' /\ LastIsSpike' /\ NoBurstMissed'
  <2>1. Moves(w) /\ samples' = samples /\ lastSpikeAt' = lastSpikeAt
    BY <1>6, PublishStep
  <2> QED BY SMT, <1>1, <2>1 DEF KeepsRecorded, IsRecorded, Moves, OnlyWriter
<1>7. LagInv'
  BY LagStep DEF MonitorInv
<1> QED BY <1>2, <1>4, <1>5, <1>6, <1>7, RecordMonitor DEF SpikesNext, WriterStep, MonitorInv

\* The monitor starts with empty windows.
LEMMA InitMonitorInv == SpikesInit => MonitorInv
<1> SUFFICES ASSUME SpikesInit PROVE MonitorInv
  OBVIOUS
<1>1. \A w \in Writer : write[w].pc = "idle"
  BY SMT DEF SpikesInit, Idle
<1>2. \A ws \in Workspace : Recorded(ws) = {}
  BY SMT, <1>1 DEF Recorded
<1>3. LagInv
  BY SMT, <1>1 DEF LagInv, At
<1>4. SamplesInv
  <2>1. \A ws \in Workspace : samples[ws] = {}
    BY DEF SpikesInit
  <2>2. samples \in [Workspace -> SUBSET Writer]
    BY SMT DEF SpikesInit
  <2> QED BY <1>2, <2>1, <2>2, FS_EmptySet DEF SamplesInv
<1>5. LastIsSpike
  BY DEF SpikesInit, LastIsSpike
<1>6. NoBurstMissed
  <2> SUFFICES ASSUME NEW ws \in Workspace, NEW burst \in SUBSET Recorded(ws),
                      Cardinality(burst) >= Threshold
               PROVE  FALSE
    BY DEF NoBurstMissed
  <2>1. Cardinality(burst) = 0
    BY <1>2, FS_EmptySet
  <2> QED BY SMT, <2>1, WindowsAssumption
<1> QED BY <1>3, <1>4, <1>5, <1>6 DEF MonitorInv

\* For any number of writers, windows, thresholds and lags, and in whatever
\* order the writes take the lock, a burst well inside a window has a spike
\* within the debounce of one of its writes (ast_spike_monitor.go: record).
THEOREM BurstsFound == SpikesSpec => []NoBurstMissed
<1>1. SpikesInv /\ MonitorInv /\ [SpikesNext]_spikesVars => MonitorInv'
  BY MonitorStep DEF SpikesInv
<1>2. MonitorInv => NoBurstMissed
  BY DEF MonitorInv
<1> QED BY <1>1, <1>2, InitMonitorInv, SpikesInvariance, PTL DEF SpikesSpec

-----------------------------------------------------------------------------
(* Conflicts: the writers of a symbol, and the peers a report names. *)

\* A nonempty set of numbers has a least one.
LEMMA LeastNumber ==
  ASSUME NEW T, T \subseteq Nat, T # {}
  PROVE  \E x \in T : \A y \in T : x <= y
<1>1. IsWellFoundedOn(OpToRel(<, Nat), Nat)
  BY NatLessThanWellFounded
<1>2. PICK x \in T : \A y \in T : ~(<<y, x>> \in OpToRel(<, Nat))
  BY <1>1, WFMin
<1>3. \A y \in T : ~(y < x)
  BY <1>2 DEF OpToRel
<1> QED BY SMT, <1>3

\* The workspaces are finitely many, and their order is a linear one.
LEMMA WorkspacesOrdered ==
  /\ IsFiniteSet(Workspace)
  /\ \E pos \in [Workspace -> Nat] :
       \A x, y \in Workspace : Precedes(x, y) <=> pos[x] < pos[y]
<1>1. PICK n \in Nat : n = Len(WorkspaceOrder) /\ WorkspaceOrder \in [1..n -> Workspace]
  BY SMT, OrderAssumption
<1>2. DOMAIN WorkspaceOrder = 1..n
  BY SMT, <1>1
<1>3. \A x \in Workspace : \E i \in 1..n : WorkspaceOrder[i] = x
  BY <1>2 DEF Workspace
<1>4. IsFiniteSet(Workspace)
  <2>1. IsFiniteSet(1..n)
    BY SMT, <1>1, FS_Interval
  <2>2. WorkspaceOrder \in Surjection(1..n, Workspace)
    BY <1>1, <1>3 DEF Surjection
  <2> QED BY <2>1, <2>2, FS_Surjection
<1> DEFINE pos == [x \in Workspace |-> CHOOSE i \in 1..n : WorkspaceOrder[i] = x]
<1>5. \A x \in Workspace : pos[x] \in 1..n /\ WorkspaceOrder[pos[x]] = x
  BY <1>3
<1>6. pos \in [Workspace -> Nat]
  BY SMT, <1>1, <1>5
<1> HIDE DEF pos
<1>7. ASSUME NEW x \in Workspace, NEW y \in Workspace
      PROVE  Precedes(x, y) <=> pos[x] < pos[y]
  <2>1. \A i \in 1..n : /\ WorkspaceOrder[i] = x => i = pos[x]
                        /\ WorkspaceOrder[i] = y => i = pos[y]
    BY SMTT(30), <1>2, <1>5, OrderAssumption
  <2> QED BY <1>2, <1>5, <2>1 DEF Precedes
<1> QED BY <1>4, <1>6, <1>7

\* A workspace that FirstPeers leaves out comes after MaxConflictPeers others
\* that it keeps: those before the first one left out.
LEMMA FirstPeersCover ==
  ASSUME NEW O \in SUBSET Workspace, NEW x \in O
  PROVE  \/ x \in FirstPeers(O)
         \/ Cardinality({y \in FirstPeers(O) : Precedes(y, x)}) >= MaxConflictPeers
<1>1. PICK pos \in [Workspace -> Nat] :
         \A y, z \in Workspace : Precedes(y, z) <=> pos[y] < pos[z]
  BY WorkspacesOrdered
<1>2. \A S \in SUBSET Workspace : IsFiniteSet(S) /\ Cardinality(S) \in Nat
  BY WorkspacesOrdered, FS_Subset, FS_CardinalityType
<1>3. MaxConflictPeers \in Nat
  BY WindowsAssumption
<1> DEFINE F == FirstPeers(O)
           before(z) == {y \in O : Precedes(y, z)}
           left == {z \in O : z \notin F}
<1>4. \A z \in O : z \in F <=> Cardinality(before(z)) < MaxConflictPeers
  BY DEF FirstPeers
<1>5. \A z \in O : pos[z] \in Nat
  OBVIOUS
<1>6. ASSUME x \notin F
      PROVE  Cardinality({y \in F : Precedes(y, x)}) >= MaxConflictPeers
  <2>1. PICK z \in left : \A y \in left : pos[z] <= pos[y]
    <3>1. {pos[y] : y \in left} \subseteq Nat /\ {pos[y] : y \in left} # {}
      BY <1>5, <1>6
    <3>2. PICK k \in {pos[y] : y \in left} : \A i \in {pos[y] : y \in left} : k <= i
      BY <3>1, LeastNumber
    <3> QED BY <3>2
  <2>2. x \in left /\ z \in O /\ pos[x] \in Nat /\ pos[z] \in Nat
    BY <1>5, <1>6
  <2>3. \A y \in before(z) : y \in F /\ Precedes(y, x)
    <3> SUFFICES ASSUME NEW y \in O, Precedes(y, z) PROVE y \in F /\ Precedes(y, x)
      OBVIOUS
    <3>1. pos[y] < pos[z] /\ pos[z] <= pos[x] /\ pos[y] \in Nat
      BY <1>1, <1>5, <2>1, <2>2
    <3>2. pos[y] < pos[x] /\ ~(pos[z] <= pos[y])
      BY SMT, <2>2, <3>1
    <3> QED BY <1>1, <2>1, <3>2
  <2>4. Cardinality(before(z)) \in Nat /\ Cardinality(before(z)) >= MaxConflictPeers
    <3>1. Cardinality(before(z)) \in Nat
      BY <1>2
    <3>2. ~(Cardinality(before(z)) < MaxConflictPeers)
      BY <1>4, <2>1
    <3> HIDE DEF before
    <3> QED BY SMT, <1>3, <3>1, <3>2
  <2> DEFINE named == {y \in F : Precedes(y, x)}
  <2>5. before(z) \in SUBSET named /\ named \in SUBSET Workspace
    BY <2>3 DEF FirstPeers
  <2> HIDE DEF named, before
  <2>6. Cardinality(before(z)) <= Cardinality(named) /\ Cardinality(named) \in Nat
    BY <1>2, <2>5, FS_Subset
  <2>7. Cardinality(named) >= MaxConflictPeers
    BY SMT, <1>3, <2>4, <2>6
  <2> QED BY <2>7 DEF named
<1> QED BY <1>6

\* The filter has classified the write.
Classified(w) == write[w].pc \in {"semantic", "warning", "done"}

\* A semantic write is among its symbol's writers until a write a conflict
\* window later comes.
FilterInv ==
  /\ writers \in [Path -> SUBSET Writer]
  /\ \A p \in Path : \A s \in writers[p] : Classified(s)
  /\ \A u \in Writer : write[u].kind # "none" =>
       /\ Classified(u)
       /\ \/ u \in writers[write[u].ev.path]
          \/ \E x \in Writer : Classified(x) /\ write[u].at <= write[x].at - ConflictWindow

\* The step leaves alone what the filter has classified.
KeepsClassified ==
  \A x \in Writer :
    /\ write'[x].kind = write[x].kind
    /\ Classified(x) => /\ Classified(x)' /\ write'[x].at = write[x].at
                        /\ write'[x].ev = write[x].ev /\ write'[x].peers = write[x].peers

\* A step that leaves the filter and what it classified alone keeps its
\* invariant.
LEMMA FilterKept ==
  ASSUME FilterInv, ConflictsFound, KeepsClassified, writers' = writers
  PROVE  FilterInv' /\ ConflictsFound'
<1>1. FilterInv'
  <2>1. \A p \in Path : \A s \in writers'[p] : Classified(s)'
    <3>1. \A p \in Path : \A s \in writers[p] : s \in Writer /\ Classified(s)
      BY DEF FilterInv
    <3> QED BY <3>1 DEF KeepsClassified
  <2>2. ASSUME NEW u \in Writer, write'[u].kind # "none"
        PROVE  /\ Classified(u)'
               /\ \/ u \in writers'[write'[u].ev.path]
                  \/ \E x \in Writer : Classified(x)' /\ write'[u].at <= write'[x].at - ConflictWindow
    <3>1. Classified(u) /\ write[u].kind # "none"
      BY <2>2 DEF FilterInv, KeepsClassified
    <3>2. Classified(u)' /\ write'[u].at = write[u].at /\ write'[u].ev = write[u].ev
      BY <3>1 DEF KeepsClassified
    <3>3. CASE u \in writers[write[u].ev.path]
      BY <3>2, <3>3
    <3>4. CASE \E x \in Writer : Classified(x) /\ write[u].at <= write[x].at - ConflictWindow
      <4>1. PICK x \in Writer : Classified(x) /\ write[u].at <= write[x].at - ConflictWindow
        BY <3>4
      <4>2. Classified(x)' /\ write'[x].at = write[x].at
        BY <4>1 DEF KeepsClassified
      <4> QED BY <3>2, <4>1, <4>2
    <3> QED BY <3>1, <3>3, <3>4 DEF FilterInv
  <2> QED BY <2>1, <2>2 DEF FilterInv
<1>2. Semantic' = Semantic
  BY DEF Semantic, KeepsClassified
<1>3. \A u \in Semantic : /\ write'[u].at = write[u].at /\ write'[u].ev = write[u].ev
                          /\ write'[u].peers = write[u].peers
  BY DEF Semantic, FilterInv, KeepsClassified
<1>4. \A u \in Semantic : \A x : CrowdedOut(u, x)' <=> CrowdedOut(u, x)
  BY <1>3 DEF CrowdedOut
<1>5. ConflictsFound'
  BY SMTT(30), <1>2, <1>3, <1>4 DEF ConflictsFound
<1> QED BY <1>1, <1>5

\* What the filter's step does to its writer and to the symbol's writers.
LEMMA ClassifyStep ==
  ASSUME Formed, NEW w \in Writer, classify(w)
  PROVE  LET p == write[w].ev.path
             recent == Recent(writers[p], write[w].at)
             others == {write[s].ev.workspace : s \in recent} \ {write[w].ev.workspace}
         IN /\ write[w].pc = "filter" /\ Classified(w)'
            /\ \/ write'[w].kind = write[w].kind /\ writers' = writers
               \/ /\ writers' = [writers EXCEPT ![p] = recent \cup {w}]
                  /\ write'[w].peers = FirstPeers(others)
<1> DEFINE p == write[w].ev.path
           recent == Recent(writers[p], write[w].at)
           others == {write[s].ev.workspace : s \in recent} \ {write[w].ev.workspace}
           found == detectConflict(w, write[w].at)
           seen == p \in DOMAIN signatures
           kind == HeuristicSemanticScorer(write[w].ev.sig,
                                           IF seen THEN signatures[p].sig ELSE "", seen)
<1>1. /\ write[w].pc = "filter"
      /\ \/ write' = [write EXCEPT ![w].pc = "done"] /\ writers' = writers
         \/ /\ write' = [write EXCEPT ![w].kind = kind, ![w].peers = found.peers,
                                      ![w].pc = "semantic"]
            /\ writers' = [writers EXCEPT ![p] = found.writers]
  BY DEF classify, At
<1>2. found.writers = recent \cup {w} /\ found.peers = FirstPeers(others)
  BY DEF detectConflict
<1> HIDE DEF found, kind, recent, others
<1>3. \/ /\ write'[w].kind = write[w].kind /\ write'[w].pc = "done" /\ writers' = writers
      \/ /\ write'[w].peers = found.peers /\ write'[w].pc = "semantic"
         /\ writers' = [writers EXCEPT ![p] = found.writers]
  <2>1. ASSUME write' = [write EXCEPT ![w].pc = "done"]
        PROVE  write'[w].kind = write[w].kind /\ write'[w].pc = "done"
    BY SMT, <2>1 DEF Formed, IsRecord, Fields
  <2>2. ASSUME write' = [write EXCEPT ![w].kind = kind, ![w].peers = found.peers,
                                      ![w].pc = "semantic"]
        PROVE  write'[w].peers = found.peers /\ write'[w].pc = "semantic"
    BY SMT, <2>2 DEF Formed, IsRecord, Fields
  <2> QED BY <1>1, <2>1, <2>2
<1> QED BY <1>1, <1>2, <1>3 DEF Classified, recent, others

\* A time is inside a window that ends at another, or it is before it.
LEMMA BeforeOrAfter ==
  \A a, b \in Nat : \A win \in Nat \ {0} : a > b - win \/ a <= b - win
BY SMT

\* A write that the lag leaves inside the window of another is inside the window
\* of every write that is at most the lag later than that one.
LEMMA LagApart ==
  \A a, b, c, lag, win \in Nat :
    b - a + lag < win /\ c <= b + lag => ~(a <= c - win)
BY SMT

\* The later of two close writes to be classified finds the other among the
\* symbol's writers.
LEMMA ClassifyFinds ==
  ASSUME Formed, LagInv, FilterInv, ConflictsFound, NEW w \in Writer, classify(w)
  PROVE  FilterInv' /\ ConflictsFound'
<1>0. PICK p, at, recent, others :
        /\ p = write[w].ev.path /\ at = write[w].at
        /\ recent = Recent(writers[p], at)
        /\ others = {write[s].ev.workspace : s \in recent} \ {write[w].ev.workspace}
  OBVIOUS
<1>1. /\ Moves(w) /\ write[w].pc = "filter" /\ Classified(w)'
      /\ clock' = clock
      /\ \/ write'[w].kind = write[w].kind /\ writers' = writers
         \/ /\ writers' = [writers EXCEPT ![p] = recent \cup {w}]
            /\ write'[w].peers = FirstPeers(others)
  BY <1>0, ClassifyMoves, ClassifyStep
<1>2. \A x \in Writer \ {w} : write'[x] = write[x]
  BY <1>1 DEF Moves, OnlyWriter
<1>3. ~Classified(w) /\ write[w].kind = "none"
  BY <1>1 DEF Classified, FilterInv
<1>4. \A x \in Writer : Classified(x) => Classified(x)' /\ write'[x] = write[x] /\ x # w
  BY <1>2, <1>3 DEF Classified
<1>5. CASE write'[w].kind = write[w].kind /\ writers' = writers
  BY <1>2, <1>3, <1>4, <1>5, FilterKept DEF KeepsClassified
<1>6. CASE /\ writers' = [writers EXCEPT ![p] = recent \cup {w}]
           /\ write'[w].peers = FirstPeers(others)
  <2>1. /\ at \in Nat /\ ConflictWindow \in Nat \ {0} /\ MaxLag \in Nat /\ p \in Path
        /\ write'[w].at = at /\ write'[w].ev = write[w].ev
    BY <1>0, <1>1, WindowsAssumption, WriteAssumption DEF Formed, Moves, At
  <2>2. \A x \in Writer : write[x].at \in Nat /\ write'[x].at = write[x].at /\ write'[x].ev = write[x].ev
    BY <1>0, <1>2, <2>1 DEF Formed
  <2>3. \A x \in Writer : Classified(x) => write[x].at <= at + MaxLag
    <3>1. clock <= at + MaxLag /\ clock \in Nat
      BY SMTT(30), <1>0, <1>1, <2>1 DEF LagInv, UnderWay, At, Formed
    <3>2. \A x \in Writer : Classified(x) => write[x].at <= clock
      BY DEF LagInv, Classified, At
    <3> QED BY SMTT(30), <2>1, <2>2, <3>1, <3>2
  <2>4. \A q \in Path : writers'[q] = IF q = p THEN recent \cup {w} ELSE writers[q]
    BY <1>6, <2>1 DEF FilterInv
  <2>5. \A x : x \in recent <=> x \in writers[p] /\ write[x].at > at - ConflictWindow
    BY <1>0 DEF Recent
  <2>6. writers[p] \subseteq Writer /\ \A s \in writers[p] : Classified(s)
    BY <2>1 DEF FilterInv
  <2>7. FilterInv'
    <3>1. writers' \in [Path -> SUBSET Writer]
      <4>1. recent \cup {w} \in SUBSET Writer
        BY <2>5, <2>6
      <4> QED BY <1>6, <2>1, <4>1 DEF FilterInv
    <3>2. \A q \in Path : \A s \in writers'[q] : Classified(s)'
      <4>1. \A q \in Path : \A s \in writers[q] : s \in Writer /\ Classified(s)
        BY DEF FilterInv
      <4> QED BY <1>1, <1>4, <2>1, <2>4, <2>5, <4>1
    <3>3. ASSUME NEW u \in Writer, write'[u].kind # "none"
          PROVE  /\ Classified(u)'
                 /\ \/ u \in writers'[write'[u].ev.path]
                    \/ \E x \in Writer : Classified(x)' /\ write'[u].at <= write'[x].at - ConflictWindow
      <4>1. CASE u = w
        BY <1>0, <1>1, <2>1, <2>4, <4>1
      <4>2. CASE u # w
        <5>1. write[u].kind # "none" /\ write[u].ev.path \in Path /\ Classified(u)
          <6>1. write[u].kind # "none" /\ Classified(u)
            BY <1>2, <3>3, <4>2 DEF FilterInv
          <6>2. write[u].ev \in Write
            BY SMT, <6>1 DEF Formed, Classified, At
          <6> QED BY <6>1, <6>2, WriteAssumption
        <5>2. CASE u \in writers[write[u].ev.path] /\ write[u].ev.path # p
          BY <1>4, <2>2, <2>4, <5>1, <5>2
        <5>3. CASE u \in writers[write[u].ev.path] /\ write[u].ev.path = p
          <6>1. u \in recent \/ write[u].at <= at - ConflictWindow
            <7>1. write[u].at > at - ConflictWindow \/ write[u].at <= at - ConflictWindow
              BY <2>1, <2>2, BeforeOrAfter
            <7> QED BY <2>5, <5>3, <7>1
          <6> QED BY <1>1, <1>4, <2>1, <2>2, <2>4, <5>1, <5>3, <6>1
        <5>4. CASE \E x \in Writer : Classified(x) /\ write[u].at <= write[x].at - ConflictWindow
          BY <1>4, <2>2, <5>1, <5>4
        <5> QED BY <5>1, <5>2, <5>3, <5>4 DEF FilterInv
      <4> QED BY <4>1, <4>2
    <3> QED BY <3>1, <3>2, <3>3 DEF FilterInv
  <2>8. others \in SUBSET Workspace
    <3>1. \A s \in recent : write[s].ev \in Write
      BY SMT, <2>5, <2>6 DEF Formed, Classified, At
    <3> QED BY ZenonT(40), <1>0, <3>1, WriteAssumption
  <2>9. ASSUME NEW u \in Writer, u # w, write[u].kind # "none", write[u].ev.path = p,
               write[u].ev.workspace # write[w].ev.workspace,
               at - write[u].at + MaxLag < ConflictWindow
        PROVE  \/ write[u].ev.workspace \in write'[w].peers
               \/ Cardinality({y \in write'[w].peers : Precedes(y, write[u].ev.workspace)})
                    >= MaxConflictPeers
    <3>1. write[u].at \in Nat
      BY <2>2
    <3>2. \A x \in Writer : Classified(x) => ~(write[u].at <= write[x].at - ConflictWindow)
      <4>1. ConflictWindow \in Nat
        BY <2>1
      <4> QED BY <2>1, <2>2, <2>3, <2>9, <3>1, <4>1, LagApart
    <3>3. u \in writers[p]
      BY <2>9, <3>2 DEF FilterInv
    <3>4. write[u].at > at - ConflictWindow
      BY SMT, <2>1, <2>9, <3>1
    <3>5. write[u].ev.workspace \in others
      BY <1>0, <2>5, <2>9, <3>3, <3>4
    <3> QED BY <1>6, <2>8, <3>5, FirstPeersCover
  <2>10. ConflictsFound'
    <3> SUFFICES ASSUME NEW u \in Semantic', NEW v \in Semantic',
                        write'[u].ev.path = write'[v].ev.path,
                        write'[u].ev.workspace # write'[v].ev.workspace,
                        write'[u].at >= write'[v].at,
                        write'[u].at - write'[v].at + MaxLag < ConflictWindow
                 PROVE  \/ write'[u].ev.workspace \in write'[v].peers
                        \/ Cardinality({y \in write'[v].peers : Precedes(y, write'[u].ev.workspace)})
                             >= MaxConflictPeers
                        \/ write'[v].ev.workspace \in write'[u].peers
                        \/ Cardinality({y \in write'[u].peers : Precedes(y, write'[v].ev.workspace)})
                             >= MaxConflictPeers
      BY DEF ConflictsFound, CrowdedOut
    <3>1. /\ u \in Writer /\ v \in Writer
          /\ u # w => write'[u] = write[u] /\ write[u].kind # "none" /\ u \in Semantic
          /\ v # w => write'[v] = write[v] /\ write[v].kind # "none" /\ v \in Semantic
      BY <1>2 DEF Semantic
    <3>2. /\ write[u].ev.path = write[v].ev.path /\ write[u].ev.workspace # write[v].ev.workspace
          /\ write[u].at >= write[v].at /\ write[u].at - write[v].at + MaxLag < ConflictWindow
          /\ write'[u].ev = write[u].ev /\ write'[v].ev = write[v].ev
          /\ write[u].at \in Nat /\ write[v].at \in Nat
      BY <2>2, <3>1
    <3>3. CASE u # w /\ v # w
      BY <3>1, <3>2, <3>3 DEF ConflictsFound, CrowdedOut
    <3>4. CASE u = w
      BY <1>0, <2>9, <3>1, <3>2, <3>4
    <3>5. CASE u # w /\ v = w
      <4>1. write[v].at - write[u].at + MaxLag < ConflictWindow
        BY SMT, <2>1, <3>2
      <4> QED BY <1>0, <2>9, <3>1, <3>2, <3>5, <4>1
    <3> QED BY <3>3, <3>4, <3>5
  <2> QED BY <2>7, <2>10
<1> QED BY <1>1, <1>5, <1>6

\* Every step keeps the invariant of the filter and the conflicts it found.
LEMMA FilterStep ==
  ASSUME Formed, LagInv, FilterInv, ConflictsFound, [SpikesNext]_spikesVars
  PROVE  FilterInv' /\ ConflictsFound'
<1>1. CASE UNCHANGED spikesVars \/ Tick
  <2>1. write' = write /\ writers' = writers
    BY SMT, <1>1 DEF spikesVars, Tick, filterVars
  <2> QED BY <2>1, FilterKept DEF KeepsClassified, Classified
<1>2. ASSUME NEW w \in Writer, OnlyWriter(w), ~Classified(w), write'[w].kind = write[w].kind,
             writers' = writers
      PROVE  FilterInv' /\ ConflictsFound'
  <2>1. KeepsClassified
    BY <1>2 DEF KeepsClassified, OnlyWriter, Classified
  <2> QED BY <1>2, <2>1, FilterKept
<1>3. ASSUME NEW w \in Writer, feedWriteEvent(w) PROVE FilterInv' /\ ConflictsFound'
  <2>1. PICK ev \in Write :
           write' = [write EXCEPT ![w].pc = "monitor", ![w].ev = ev, ![w].at = clock]
    BY <1>3 DEF feedWriteEvent
  <2>2. write'[w].kind = write[w].kind
    BY SMT, <2>1 DEF Formed, IsRecord, Fields
  <2>3. writers' = writers /\ ~Classified(w)
    BY SMT, <1>3 DEF feedWriteEvent, filterVars, Classified, At
  <2> QED BY <1>2, <1>3, <2>2, <2>3, FeedStep
<1>4. ASSUME NEW w \in Writer, record(w) PROVE FilterInv' /\ ConflictsFound'
  <2>1. write'[w].kind = write[w].kind /\ writers' = writers
    BY <1>4, RecordWindow
  <2>2. OnlyWriter(w) /\ write[w].pc = "monitor"
    BY <1>4, RecordStep
  <2>3. ~Classified(w)
    BY SMT, <2>2 DEF Classified
  <2> QED BY <1>2, <2>1, <2>2, <2>3
<1>5. ASSUME NEW w \in Writer, PublishVolume(w) \/ PublishSemantic(w) \/ PublishWarning(w)
      PROVE  FilterInv' /\ ConflictsFound'
  <2>1. /\ Moves(w) /\ writers' = writers
        /\ write'[w].kind = write[w].kind /\ write'[w].peers = write[w].peers
        /\ \/ write[w].pc = "volume" /\ write'[w].pc = "filter"
           \/ write[w].pc \in {"semantic", "warning"} /\ write'[w].pc \in {"done", "warning"}
    BY <1>5, PublishStep
  <2>2. Classified(w) => Classified(w)'
    BY SMT, <2>1 DEF Classified
  <2>3. KeepsClassified
    BY <2>1, <2>2 DEF KeepsClassified, Moves, OnlyWriter, Classified
  <2> QED BY <2>1, <2>3, FilterKept
<1> QED BY <1>1, <1>3, <1>4, <1>5, ClassifyFinds DEF SpikesNext, WriterStep

\* For any writers, symbols, windows and lags, and in whatever order the filter
\* meets the writes, of two close semantic writes of different workspaces to one
\* symbol one is reported as the other's peer, unless the report is full of
\* workspaces before it (ast_spike_filter.go: detectConflict).
THEOREM ConflictsAlwaysFound == SpikesSpec => []ConflictsFound
<1>1. SpikesInit => LagInv /\ FilterInv /\ ConflictsFound
  <2> SUFFICES ASSUME SpikesInit PROVE FilterInv /\ ConflictsFound
    BY InitMonitorInv DEF MonitorInv
  <2>1. \A w \in Writer : write[w].kind = "none"
    BY SMT DEF SpikesInit, Idle
  <2>2. writers \in [Path -> SUBSET Writer] /\ \A p \in Path : writers[p] = {}
    BY SMT DEF SpikesInit
  <2> QED BY <2>1, <2>2 DEF FilterInv, ConflictsFound, Semantic
<1>2. SpikesInv /\ LagInv /\ FilterInv /\ ConflictsFound /\ [SpikesNext]_spikesVars
        => LagInv' /\ FilterInv' /\ ConflictsFound'
  BY LagStep, FilterStep DEF SpikesInv
<1> QED BY <1>1, <1>2, SpikesInvariance, PTL DEF SpikesSpec
=============================================================================
