---------------------------- MODULE JobLifecycle ----------------------------
(***************************************************************************)
(* What the job manager of the orchestrator promises, with no queue, no    *)
(* workers and no locks: a job moves along the edges of canTransition, a   *)
(* submission that finds the queue full is withdrawn before anybody hears  *)
(* of it, and every transition is announced to the publisher at most once, *)
(* never before it happened.                                               *)
(***************************************************************************)
EXTENDS Naturals, Sequences

CONSTANT Job        \* the identifiers nextID hands out, one per submission

VARIABLES
  life,             \* where the job is, "absent" before it is submitted
  past,             \* the transitions it has made, as <<previous, next>>
  told              \* the transitions announced so far, in order

vars == <<life, past, told>>

(***************************************************************************)
(* The life cycle: the states of a job and the edges between them.         *)
(***************************************************************************)
Terminal == {"completed", "failed", "cancelled"}
State == {"queued", "running"} \cup Terminal

canTransition(from, to) ==
  \/ from = "queued"  /\ to \in {"running", "cancelled"}
  \/ from = "running" /\ to \in Terminal

Submitted == <<"absent", "queued">>
Started == <<"queued", "running">>
Transition == {Submitted} \cup
              {t \in State \X State : canTransition(t[1], t[2])}

Announced(j) == {told[j][i] : i \in DOMAIN told[j]}

(***************************************************************************)
(* The operations.                                                         *)
(***************************************************************************)
Submit(j) ==
  /\ life[j] = "absent"
  /\ life' = [life EXCEPT ![j] = "queued"]
  /\ past' = [past EXCEPT ![j] = {Submitted}]
  /\ UNCHANGED told

\* The queue was full: the submission is taken back, and was never announced.
Withdraw(j) ==
  /\ life[j] = "queued"
  /\ told[j] = <<>>
  /\ life' = [life EXCEPT ![j] = "rejected"]
  /\ past' = [past EXCEPT ![j] = {}]
  /\ UNCHANGED told

Move(j, next) ==
  /\ canTransition(life[j], next)
  /\ life' = [life EXCEPT ![j] = next]
  /\ past' = [past EXCEPT ![j] = @ \cup {<<life[j], next>>}]
  /\ UNCHANGED told

\* A run's outcome is announced after the run's start.
Announce(j, t) ==
  /\ t \in past[j] \ Announced(j)
  /\ t[1] = "running" => Started \in Announced(j)
  /\ told' = [told EXCEPT ![j] = Append(@, t)]
  /\ UNCHANGED <<life, past>>

Init ==
  /\ life = [j \in Job |-> "absent"]
  /\ past = [j \in Job |-> {}]
  /\ told = [j \in Job |-> <<>>]

Next ==
  \E j \in Job :
    \/ Submit(j)
    \/ Withdraw(j)
    \/ \E s \in State : Move(j, s)
    \/ \E t \in Transition : Announce(j, t)

Spec == Init /\ [][Next]_vars
=============================================================================
