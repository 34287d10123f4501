----------------------------- MODULE ShadowPool -----------------------------
(***************************************************************************)
(* The connection pool of shadow.Client (internal/shadow/client.go) and    *)
(* the loop that serves each of its connections (handle_client in          *)
(* cwso-git-shadow/src/main.rs).                                           *)
(*                                                                         *)
(* Callers run Call: acquire a connection, write a request, read a reply,  *)
(* release the connection.  Closers run Close.  A goroutine goes from one  *)
(* channel operation or socket operation to the next in one step.  A slot  *)
(* of the channel sem is held for the life of a connection.                *)
(***************************************************************************)
EXTENDS Integers, Sequences, FiniteSets

CONSTANTS Caller,     \* goroutines that use the client
          Closer,     \* goroutines that close it
          Conn,       \* connections that may be dialled, each once
          PoolSize,   \* capacity of sem and of idle
          MaxCalls,   \* bound on the calls of each caller
          MaxCrashes, \* bound on the sidecar's crashes
          None

ASSUME PoolSizeAssumption == PoolSize \in Nat \ {0}
ASSUME BoundsAssumption == MaxCalls \in Nat /\ MaxCrashes \in Nat
ASSUME NoneAssumption == None \notin Conn
ASSUME ActorAssumption == Caller \cap Closer = {}

VARIABLES
  pc,      \* where each goroutine is; "out" when it is not in the client
  conn,    \* the connection it holds
  calls,   \* calls each caller has begun
  sem,     \* slots taken
  idle,    \* the channel of idle connections
  closed,  \* the closed channel is closed
  dialled, \* connections dialled so far
  open,    \* those whose client end is open
  reqs,    \* per connection, requests the sidecar has not read
  up,      \* connections that the sidecar serves
  work,    \* per connection, the request in dispatch, a sequence of at most one
  reps,    \* per connection, replies the client has not read
  crashes

pool == <<sem, idle, closed>>
wire == <<reqs, up, work, reps>>
vars == <<pc, conn, calls, pool, dialled, open, wire, crashes>>

Actor == Caller \cup Closer

\* A request carries an id of its own: its caller and the number of its call.
Request == [caller : Caller, nr : 1..MaxCalls]

\* handle_client answers a request under its id, and one that it cannot decode
\* under the empty id.
Reply == [of : Request, decoded : BOOLEAN]

Mine(c) == [caller |-> c, nr |-> calls[c]]

Init ==
  /\ pc = [a \in Actor |-> "out"]
  /\ conn = [a \in Actor |-> None]
  /\ calls = [c \in Caller |-> 0]
  /\ sem = 0
  /\ idle = <<>>
  /\ closed = FALSE
  /\ dialled = {}
  /\ open = {}
  /\ reqs = [k \in Conn |-> <<>>]
  /\ up = {}
  /\ work = [k \in Conn |-> <<>>]
  /\ reps = [k \in Conn |-> <<>>]
  /\ crashes = 0

Goto(a, from, to) ==
  /\ pc[a] = from
  /\ pc' = [pc EXCEPT ![a] = to]

---------------------------------------------------------------------------
(* acquire *)

Begin(c) ==
  /\ Goto(c, "out", "check")
  /\ calls[c] < MaxCalls
  /\ calls' = [calls EXCEPT ![c] = @ + 1]
  /\ UNCHANGED <<conn, pool, dialled, open, wire, crashes>>

\* The first select: a Close that came before rejects the call.
CheckClosed(c) ==
  /\ Goto(c, "check", IF closed THEN "out" ELSE "try")
  /\ UNCHANGED <<conn, calls, pool, dialled, open, wire, crashes>>

TakeIdle(c) ==
  /\ idle # <<>>
  /\ conn' = [conn EXCEPT ![c] = Head(idle)]
  /\ idle' = Tail(idle)
  /\ UNCHANGED <<calls, sem, closed, dialled, open, wire, crashes>>

\* The second select does not wait.
TryIdle(c) ==
  \/ Goto(c, "try", "write") /\ TakeIdle(c)
  \/ /\ idle = <<>>
     /\ Goto(c, "try", "wait")
     /\ UNCHANGED <<conn, calls, pool, dialled, open, wire, crashes>>

TakeSlot(c) ==
  /\ Goto(c, "wait", "dial")
  /\ sem < PoolSize
  /\ sem' = sem + 1
  /\ UNCHANGED <<conn, calls, idle, closed, dialled, open, wire, crashes>>

\* The third select waits for an idle connection, a slot or Close.
Wait(c) ==
  \/ Goto(c, "wait", "write") /\ TakeIdle(c)
  \/ TakeSlot(c)
  \/ /\ closed
     /\ Goto(c, "wait", "out")
     /\ UNCHANGED <<conn, calls, pool, dialled, open, wire, crashes>>

\* A failed dial keeps its slot.
MutDialFails(c) ==
  /\ Goto(c, "dial", "out")
  /\ UNCHANGED <<conn, calls, pool, dialled, open, wire, crashes>>

DialFails(c) ==
  /\ Goto(c, "dial", "out")
  /\ sem > 0
  /\ sem' = sem - 1
  /\ UNCHANGED <<conn, calls, idle, closed, dialled, open, wire, crashes>>

Dial(c) ==
  \/ DialFails(c)
  \/ /\ Goto(c, "dial", "write")
     /\ \E k \in Conn \ dialled :
          /\ conn' = [conn EXCEPT ![c] = k]
          /\ dialled' = dialled \cup {k}
          /\ open' = open \cup {k}
          /\ up' = up \cup {k}
     /\ UNCHANGED <<calls, pool, reqs, work, reps, crashes>>

---------------------------------------------------------------------------
(* Call *)

\* A write that fails leaves no complete request on the stream.
Write(c) ==
  \/ /\ Goto(c, "write", "read")
     /\ conn[c] \in up
     /\ reqs' = [reqs EXCEPT ![conn[c]] = Append(@, Mine(c))]
     /\ UNCHANGED <<conn, calls, pool, dialled, open, up, work, reps, crashes>>
  \/ /\ Goto(c, "write", "discard")
     /\ UNCHANGED <<conn, calls, pool, dialled, open, wire, crashes>>

\* healthy is set before the reply is read.
MutReadFails(c) ==
  /\ Goto(c, "read", "release")
  /\ UNCHANGED <<conn, calls, pool, dialled, open, wire, crashes>>

\* The deadline passes, or the sidecar's end is gone: healthy stays false.
ReadFails(c) ==
  /\ Goto(c, "read", "discard")
  /\ UNCHANGED <<conn, calls, pool, dialled, open, wire, crashes>>

\* Any complete reply makes the connection healthy, whatever its id says.
Read(c) ==
  \/ ReadFails(c)
  \/ /\ Goto(c, "read", "release")
     /\ reps[conn[c]] # <<>>
     /\ reps' = [reps EXCEPT ![conn[c]] = Tail(@)]
     /\ UNCHANGED <<conn, calls, pool, dialled, open, reqs, up, work, crashes>>

---------------------------------------------------------------------------
(* release and Close *)

Release(c) ==
  /\ Goto(c, "release", IF closed THEN "discard" ELSE "put")
  /\ UNCHANGED <<conn, calls, pool, dialled, open, wire, crashes>>

\* A send that does not wait.  The code's default branch (close the connection
\* when idle is full) has no disjunct: IdleHasRoom says that a caller about to
\* put always finds room, so that branch is never taken.
Put(c) ==
  /\ Goto(c, "put", "out")
  /\ Len(idle) < PoolSize
  /\ idle' = Append(idle, conn[c])
  /\ conn' = [conn EXCEPT ![c] = None]
  /\ UNCHANGED <<calls, sem, closed, dialled, open, wire, crashes>>

\* The connection is closed and its slot kept.
MutDiscard(a) ==
  /\ Goto(a, "discard", IF a \in Closer THEN "drain" ELSE "out")
  /\ open' = open \ {conn[a]}
  /\ conn' = [conn EXCEPT ![a] = None]
  /\ UNCHANGED <<calls, pool, dialled, wire, crashes>>

\* conn.Close().
Discard(a) ==
  /\ Goto(a, "discard", "free")
  /\ open' = open \ {conn[a]}
  /\ conn' = [conn EXCEPT ![a] = None]
  /\ UNCHANGED <<calls, pool, dialled, wire, crashes>>

\* <-c.sem, which waits if sem is empty.  A closer goes on with its loop.
FreeSlot(a) ==
  /\ Goto(a, "free", IF a \in Closer THEN "drain" ELSE "out")
  /\ sem > 0
  /\ sem' = sem - 1
  /\ UNCHANGED <<conn, calls, idle, closed, dialled, open, wire, crashes>>

CloseBegin(t) ==
  /\ Goto(t, "out", "drain")
  /\ closed' = TRUE
  /\ UNCHANGED <<conn, calls, sem, idle, dialled, open, wire, crashes>>

Drain(t) ==
  \/ Goto(t, "drain", "discard") /\ TakeIdle(t)
  \/ /\ idle = <<>>
     /\ Goto(t, "drain", "returned")
     /\ UNCHANGED <<conn, calls, pool, dialled, open, wire, crashes>>

---------------------------------------------------------------------------
(* The sidecar's end of a connection *)

\* read_frame, then dispatch.
ServerRead(k) ==
  /\ k \in up
  /\ work[k] = <<>>
  /\ reqs[k] # <<>>
  /\ work' = [work EXCEPT ![k] = <<Head(reqs[k])>>]
  /\ reqs' = [reqs EXCEPT ![k] = Tail(@)]
  /\ UNCHANGED <<pc, conn, calls, pool, dialled, open, up, reps, crashes>>

ServerReply(k) ==
  /\ work[k] # <<>>
  /\ \E d \in BOOLEAN :
       reps' = [reps EXCEPT ![k] = Append(@, [of |-> work[k][1], decoded |-> d])]
  /\ work' = [work EXCEPT ![k] = <<>>]
  /\ UNCHANGED <<pc, conn, calls, pool, dialled, open, reqs, up, crashes>>

\* End of stream once the client has closed, or a reply that cannot be written:
\* the loop ends.  Replies already sent can still be read.
ServerEnd(k) ==
  /\ k \in up
  /\ k \in open => work[k] # <<>>
  /\ up' = up \ {k}
  /\ work' = [work EXCEPT ![k] = <<>>]
  /\ reqs' = [reqs EXCEPT ![k] = <<>>]
  /\ UNCHANGED <<pc, conn, calls, pool, dialled, open, reps, crashes>>

\* The sidecar is killed; later dials reach the next instance.
Crash ==
  /\ crashes < MaxCrashes
  /\ crashes' = crashes + 1
  /\ up' = {}
  /\ work' = [k \in Conn |-> <<>>]
  /\ reqs' = [k \in Conn |-> <<>>]
  /\ UNCHANGED <<pc, conn, calls, pool, dialled, open, reps>>

---------------------------------------------------------------------------

CallStep(c) ==
  \/ CheckClosed(c)
  \/ TryIdle(c)
  \/ Wait(c)
  \/ Dial(c)
  \/ Write(c)
  \/ Read(c)
  \/ Release(c)
  \/ Put(c)

CloseStep(t) == Drain(t)

ActorStep(a) == Discard(a) \/ FreeSlot(a)

ServerStep(k) == ServerRead(k) \/ ServerReply(k) \/ ServerEnd(k)

Next ==
  \/ \E c \in Caller : Begin(c) \/ CallStep(c)
  \/ \E t \in Closer : CloseBegin(t) \/ CloseStep(t)
  \/ \E a \in Actor : ActorStep(a)
  \/ \E k \in Conn : ServerStep(k)
  \/ Crash

Spec == Init /\ [][Next]_vars

\* A goroutine inside the client goes on: its socket operations have a deadline
\* (ioTimeout, dialTimeout).  Nothing is assumed of the sidecar.
Fairness ==
  /\ \A c \in Caller : WF_vars(CallStep(c))
  /\ \A t \in Closer : WF_vars(CloseStep(t))
  /\ \A a \in Actor : WF_vars(ActorStep(a))

FairSpec == Spec /\ Fairness

---------------------------------------------------------------------------
(* Properties *)

Place == {"out", "check", "try", "wait", "dial", "write", "read", "release",
          "put", "discard", "free", "drain", "returned"}

Holding == {"write", "read", "release", "put", "discard"}

TypeOK ==
  /\ pc \in [Actor -> Place]
  /\ conn \in [Actor -> Conn \cup {None}]
  /\ calls \in [Caller -> 0..MaxCalls]
  /\ sem \in 0..PoolSize
  /\ idle \in Seq(Conn)
  /\ closed \in BOOLEAN
  /\ dialled \subseteq Conn
  /\ open \subseteq dialled
  /\ up \subseteq dialled
  /\ reqs \in [Conn -> Seq(Request)]
  /\ work \in [Conn -> Seq(Request)]
  /\ reps \in [Conn -> Seq(Reply)]
  /\ crashes \in 0..MaxCrashes

\* Call: "it never shares it with another in-flight call, so concurrent Calls
\* cannot interleave frames on the wire".  The reply that a call is about to read
\* answers the request it sent, whoever used the connection before, whatever
\* timed out on it and however often the sidecar crashed.
NoCrossTalk ==
  \A c \in Caller :
    pc[c] = "read" => \A i \in DOMAIN reps[conn[c]] : reps[conn[c]][i].of = Mine(c)

\* A slot of sem is held from dial to close: sem counts the open connections
\* and the goroutines that are about to open one or have just closed one.
\* Hence acquire never opens more than PoolSize connections.
SlotsMatchConnections ==
  sem = Cardinality(open) + Cardinality({a \in Actor : pc[a] \in {"dial", "free"}})

\* release: "cap(idle) == cap(sem), so this should not happen in practice": a
\* healthy connection always finds room in idle.
IdleHasRoom == \A c \in Caller : pc[c] = "put" => Len(idle) < PoolSize

\* The pool's slots are sound: sem counts the connections, never more than
\* PoolSize, and what is returned healthy always finds its place.
SlotsSound == SlotsMatchConnections /\ IdleHasRoom

\* Every Call returns: no slot or connection is lost through failed dials, dead
\* connections, a crashed sidecar or a concurrent Close, for which a later
\* caller would wait for ever.
CallReturns == \A c \in Caller : (pc[c] # "out") ~> (pc[c] = "out")

\* Close: "their connections are discarded on release rather than returned to
\* the pool".  When Close has returned, no idle connection is left open.
CloseDiscards == (\E t \in Closer : pc[t] = "returned") => idle = <<>>
=============================================================================
