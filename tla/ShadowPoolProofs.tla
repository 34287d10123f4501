-------------------------- MODULE ShadowPoolProofs --------------------------
(***************************************************************************)
(* For any callers, closers, connections and pool size: the pool shares no *)
(* connection, its streams are clean, and its slots match its connections. *)
(***************************************************************************)
EXTENDS ShadowPool, FiniteSetTheorems, TLAPS

---------------------------------------------------------------------------
(* The inductive invariant *)

\* Which places belong to callers and which to closers; a caller inside the
\* client has begun a call.
PlaceInv ==
  /\ \A c \in Caller : pc[c] \notin {"drain", "returned"}
  /\ \A c \in Caller : pc[c] # "out" => calls[c] >= 1
  /\ \A t \in Closer : pc[t] \in {"out", "drain", "discard", "free", "returned"}

\* An open connection has one owner: a goroutine or a position of idle.
OwnInv ==
  /\ \A a \in Actor : pc[a] \in Holding => conn[a] \in open
  /\ \A a, b \in Actor :
       pc[a] \in Holding /\ pc[b] \in Holding /\ conn[a] = conn[b] => a = b
  /\ \A i \in DOMAIN idle : idle[i] \in open
  /\ \A i, j \in DOMAIN idle : idle[i] = idle[j] => i = j
  /\ \A i \in DOMAIN idle, a \in Actor : pc[a] \in Holding => idle[i] # conn[a]

Clean(k) == reqs[k] = <<>> /\ work[k] = <<>> /\ reps[k] = <<>>

\* Only the request of the call that is reading, or its reply, is under way.
Carries(k, r) ==
  \/ Clean(k)
  \/ reqs[k] = <<r>> /\ work[k] = <<>> /\ reps[k] = <<>>
  \/ reqs[k] = <<>> /\ work[k] = <<r>> /\ reps[k] = <<>>
  \/ /\ reqs[k] = <<>> /\ work[k] = <<>>
     /\ \E d \in BOOLEAN : reps[k] = <<[of |-> r, decoded |-> d]>>

\* A connection that nobody has dialled, that is idle or that its holder is not
\* reading from carries nothing.
WireInv ==
  /\ \A k \in Conn \ dialled : Clean(k)
  /\ \A i \in DOMAIN idle : Clean(idle[i])
  /\ \A c \in Caller : pc[c] \in {"write", "release", "put"} => Clean(conn[c])
  /\ \A c \in Caller : pc[c] = "read" => Carries(conn[c], Mine(c))

\* Goroutines that hold a slot and no connection.
Between == {a \in Actor : pc[a] \in {"dial", "free"}}

CountInv ==
  /\ IsFiniteSet(open)
  /\ IsFiniteSet(Between)
  /\ sem = Cardinality(open) + Cardinality(Between)

IInv == TypeOK /\ PlaceInv /\ OwnInv /\ WireInv /\ CountInv

---------------------------------------------------------------------------
(* Types and places *)

\* What a receive from the channel idle yields.
LEMMA IdleHead ==
  ASSUME TypeOK, idle # <<>>
  PROVE  /\ Head(idle) \in Conn /\ Tail(idle) \in Seq(Conn)
         /\ DOMAIN idle = 1..Len(idle) /\ Len(idle) \in Nat \ {0}
         /\ Head(idle) = idle[1]
         /\ DOMAIN Tail(idle) = 1..Len(idle) - 1
         /\ \A i \in DOMAIN Tail(idle) : Tail(idle)[i] = idle[i + 1]
  BY DEF TypeOK

\* Every step keeps the types.
LEMMA TypeStep ==
  ASSUME TypeOK, PlaceInv, OwnInv, [Next]_vars
  PROVE  TypeOK'
<1>. USE PoolSizeAssumption, BoundsAssumption, NoneAssumption
<1>1. ASSUME NEW c \in Caller, Begin(c) PROVE TypeOK'
  BY <1>1 DEF TypeOK, Actor, Place, Goto, pool, wire, Begin
<1>2. ASSUME NEW c \in Caller, CheckClosed(c) PROVE TypeOK'
  BY <1>2 DEF TypeOK, Actor, Place, Goto, pool, wire, CheckClosed
<1>3. ASSUME NEW a \in Actor, TakeIdle(a), pc' \in [Actor -> Place] PROVE TypeOK'
  BY <1>3, IdleHead DEF TypeOK, TakeIdle, wire
<1>4. ASSUME NEW a \in Actor, NEW from, NEW to \in Place, Goto(a, from, to)
      PROVE  pc' \in [Actor -> Place]
  BY <1>4 DEF TypeOK, Goto
<1>5. ASSUME NEW c \in Caller, TryIdle(c) PROVE TypeOK'
  <2>1. CASE Goto(c, "try", "write") /\ TakeIdle(c)
    BY <2>1, <1>3, <1>4 DEF Place, Actor
  <2>2. CASE ~(Goto(c, "try", "write") /\ TakeIdle(c))
    BY Zenon, <1>5, <2>2, <1>4 DEF TypeOK, TryIdle, Place, Actor, pool, wire
  <2>. QED BY <2>1, <2>2
<1>6. ASSUME NEW c \in Caller, Wait(c) PROVE TypeOK'
  <2>1. CASE Goto(c, "wait", "write") /\ TakeIdle(c)
    BY <2>1, <1>3, <1>4 DEF Place, Actor
  <2>2. CASE TakeSlot(c)
    BY <2>2, <1>4 DEF TypeOK, TakeSlot, Place, Actor, wire
  <2>3. CASE Goto(c, "wait", "out")
             /\ UNCHANGED <<conn, calls, pool, dialled, open, wire, crashes>>
    BY Zenon, <2>3, <1>4 DEF TypeOK, Place, Actor, pool, wire
  <2>. QED BY <1>6, <2>1, <2>2, <2>3 DEF Wait
<1>7. ASSUME NEW c \in Caller, Dial(c) PROVE TypeOK'
  <2>1. CASE DialFails(c)
    <3>1. pc' \in [Actor -> Place]
      BY <2>1, <1>4 DEF DialFails, Place, Actor
    <3>. QED BY <2>1, <3>1 DEF TypeOK, DialFails, wire
  <2>2. CASE ~DialFails(c)
    <3>1. PICK k \in Conn \ dialled :
            /\ conn' = [conn EXCEPT ![c] = k]
            /\ dialled' = dialled \cup {k}
            /\ open' = open \cup {k}
            /\ up' = up \cup {k}
      BY <1>7, <2>2 DEF Dial
    <3>2. pc' \in [Actor -> Place] /\ UNCHANGED <<calls, pool, reqs, work, reps, crashes>>
      BY <1>7, <2>2, <1>4 DEF Dial, Place, Actor
    <3>. QED BY Zenon, <3>1, <3>2 DEF TypeOK, pool
  <2>. QED BY <2>1, <2>2
<1>8. ASSUME NEW c \in Caller, Write(c) PROVE TypeOK'
  <2>1. pc' \in [Actor -> Place]
    BY Zenon, <1>8, <1>4 DEF Write, Place, Actor
  <2>2. CASE UNCHANGED wire
    BY <1>8, <2>1, <2>2 DEF TypeOK, Write, pool, wire
  <2>3. CASE ~UNCHANGED wire
    <3>1. /\ conn[c] \in up /\ pc[c] = "write"
          /\ reqs' = [reqs EXCEPT ![conn[c]] = Append(@, Mine(c))]
          /\ UNCHANGED <<conn, calls, pool, dialled, open, up, work, reps, crashes>>
      BY <1>8, <2>3 DEF Write, Goto
    <3>2. Mine(c) \in Request
      BY <3>1 DEF Mine, Request, PlaceInv, TypeOK
    <3>3. reqs' \in [Conn -> Seq(Request)]
      BY <3>1, <3>2 DEF TypeOK
    <3>. QED BY <2>1, <3>1, <3>3 DEF TypeOK, pool
  <2>. QED BY <2>2, <2>3
<1>9. ASSUME NEW c \in Caller, Read(c) PROVE TypeOK'
  <2>1. pc' \in [Actor -> Place]
    BY Zenon, <1>9, <1>4 DEF Read, ReadFails, Place, Actor
  <2>2. CASE ReadFails(c)
    BY <2>1, <2>2 DEF TypeOK, ReadFails, pool, wire
  <2>3. CASE ~ReadFails(c)
    <3>1. /\ pc[c] = "read" /\ reps[conn[c]] # <<>>
          /\ reps' = [reps EXCEPT ![conn[c]] = Tail(@)]
          /\ UNCHANGED <<conn, calls, pool, dialled, open, reqs, up, work, crashes>>
      BY <1>9, <2>3 DEF Read, Goto
    <3>2. conn[c] \in Conn
      BY <3>1 DEF OwnInv, TypeOK, Holding, Actor
    <3>3. reps' \in [Conn -> Seq(Reply)]
      BY <3>1, <3>2 DEF TypeOK
    <3>. QED BY <2>1, <3>1, <3>3 DEF TypeOK, pool
  <2>. QED BY <2>2, <2>3
<1>10. ASSUME NEW c \in Caller, Release(c) PROVE TypeOK'
  BY <1>10 DEF TypeOK, Actor, Place, Goto, pool, wire, Release
<1>11. ASSUME NEW c \in Caller, Put(c) PROVE TypeOK'
  <2>1. pc' \in [Actor -> Place]
    BY Zenon, <1>11, <1>4 DEF Put, Place, Actor
  <2>2. /\ pc[c] = "put" /\ idle' = Append(idle, conn[c])
        /\ conn' = [conn EXCEPT ![c] = None]
        /\ UNCHANGED <<calls, sem, closed, dialled, open, wire, crashes>>
    BY <1>11 DEF Put, Goto
  <2>3. conn[c] \in Conn
    BY <2>2 DEF OwnInv, TypeOK, Holding, Actor
  <2>4. idle' \in Seq(Conn)
    BY <2>2, <2>3 DEF TypeOK
  <2>. QED BY Zenon, <2>1, <2>2, <2>4 DEF TypeOK, wire
<1>12. ASSUME NEW a \in Actor, Discard(a) PROVE TypeOK'
  BY <1>12 DEF TypeOK, Actor, Place, Goto, pool, wire, Discard
<1>13. ASSUME NEW a \in Actor, FreeSlot(a) PROVE TypeOK'
  BY <1>13 DEF TypeOK, Actor, Place, Goto, pool, wire, FreeSlot
<1>14. ASSUME NEW t \in Closer, CloseBegin(t) PROVE TypeOK'
  BY <1>14 DEF TypeOK, Actor, Place, Goto, pool, wire, CloseBegin
<1>15. ASSUME NEW t \in Closer, Drain(t) PROVE TypeOK'
  <2>1. CASE Goto(t, "drain", "discard") /\ TakeIdle(t)
    BY <2>1, <1>3, <1>4 DEF Place, Actor
  <2>2. CASE ~(Goto(t, "drain", "discard") /\ TakeIdle(t))
    BY <1>15, <2>2, <1>4 DEF TypeOK, Drain, Place, Actor, pool, wire
  <2>. QED BY <2>1, <2>2
<1>16. ASSUME NEW k \in Conn, ServerRead(k) PROVE TypeOK'
  BY <1>16 DEF TypeOK, pool, ServerRead
<1>17. ASSUME NEW k \in Conn, ServerReply(k) PROVE TypeOK'
  <2>1. PICK d \in BOOLEAN :
          reps' = [reps EXCEPT ![k] = Append(@, [of |-> work[k][1], decoded |-> d])]
    BY Zenon, <1>17 DEF ServerReply
  <2>2. work[k][1] \in Request
    BY <1>17 DEF ServerReply, TypeOK
  <2>3. [of |-> work[k][1], decoded |-> d] \in Reply
    BY <2>2 DEF Reply
  <2>4. reps' \in [Conn -> Seq(Reply)]
    <3>. HIDE DEF Reply
    <3>. QED BY <2>1, <2>3 DEF TypeOK
  <2>. QED BY <1>17, <2>4 DEF TypeOK, ServerReply, pool
<1>18. ASSUME NEW k \in Conn, ServerEnd(k) PROVE TypeOK'
  BY <1>18 DEF TypeOK, pool, ServerEnd
<1>19. CASE Crash
  BY <1>19 DEF TypeOK, pool, Crash
<1>20. CASE UNCHANGED vars
  BY <1>20 DEF TypeOK, vars, pool, wire
<1>. QED
  BY <1>1, <1>2, <1>5, <1>6, <1>7, <1>8, <1>9, <1>10, <1>11, <1>12, <1>13, <1>14,
     <1>15, <1>16, <1>17, <1>18, <1>19, <1>20
  DEF Next, CallStep, CloseStep, ActorStep, ServerStep

\* Every step keeps what a goroutine holds in line with where it is.
LEMMA PlaceStep ==
  ASSUME TypeOK, PlaceInv, [Next]_vars
  PROVE  PlaceInv'
<1>. USE ActorAssumption DEF PlaceInv, TypeOK, Actor, Goto
<1>1. ASSUME NEW c \in Caller, Begin(c) PROVE PlaceInv'
  BY <1>1 DEF Begin
<1>2. ASSUME NEW c \in Caller, CallStep(c) PROVE PlaceInv'
  <2>1. pc[c] # "out" /\ calls' = calls
    BY <1>2 DEF CallStep, CheckClosed, TryIdle, TakeIdle, Wait, TakeSlot, Dial,
         DialFails, Write, Read, ReadFails, Release, Put
  <2>2. \E to \in Place \ {"drain", "returned"} : pc' = [pc EXCEPT ![c] = to]
    BY <1>2 DEF CallStep, CheckClosed, TryIdle, Wait, TakeSlot, Dial, DialFails,
         Write, Read, ReadFails, Release, Put, Place
  <2>. QED BY <2>1, <2>2
<1>3. ASSUME NEW t \in Closer, CloseBegin(t) PROVE PlaceInv'
  BY <1>3 DEF CloseBegin
<1>4. ASSUME NEW t \in Closer, CloseStep(t) PROVE PlaceInv'
  BY Zenon, <1>4 DEF CloseStep, Drain, TakeIdle
<1>5. ASSUME NEW a \in Actor, ActorStep(a) PROVE PlaceInv'
  BY Zenon, <1>5 DEF ActorStep, Discard, FreeSlot
<1>6. ASSUME NEW k \in Conn, ServerStep(k) PROVE PlaceInv'
  BY <1>6 DEF ServerStep, ServerRead, ServerReply, ServerEnd
<1>7. CASE Crash
  BY <1>7 DEF Crash
<1>8. CASE UNCHANGED vars
  BY <1>8 DEF vars
<1>. QED
  BY <1>1, <1>2, <1>3, <1>4, <1>5, <1>6, <1>7, <1>8 DEF Next

---------------------------------------------------------------------------
(* Owners *)

\* A step that changes neither the connections nor their owners, except that a
\* goroutine without a connection may go to a place without one.
LEMMA OwnKept ==
  ASSUME TypeOK, OwnInv, NEW a \in Actor, NEW to,
         pc' = [pc EXCEPT ![a] = to], pc[a] \in Holding \/ to \notin Holding,
         UNCHANGED <<conn, idle, open>>
  PROVE  OwnInv'
  BY DEF OwnInv, TypeOK

\* The receive of an idle connection passes it to its receiver.
LEMMA OwnTaken ==
  ASSUME TypeOK, OwnInv, NEW a \in Actor, NEW to, to \in Holding,
         pc[a] \notin Holding, pc' = [pc EXCEPT ![a] = to], TakeIdle(a)
  PROVE  OwnInv'
<1>1. /\ conn' = [conn EXCEPT ![a] = idle[1]] /\ open' = open
      /\ DOMAIN idle' = 1..Len(idle) - 1
      /\ \A i \in DOMAIN idle' : idle'[i] = idle[i + 1]
      /\ DOMAIN idle = 1..Len(idle) /\ Len(idle) \in Nat \ {0}
  BY IdleHead DEF TakeIdle
<1>2. \A i \in DOMAIN idle' : i + 1 \in DOMAIN idle /\ 1 \in DOMAIN idle /\ i + 1 # 1
  BY <1>1
<1>3. 1 \in DOMAIN idle
  BY <1>1
<1>4. \A b \in Actor : pc'[b] = (IF b = a THEN to ELSE pc[b])
                      /\ conn'[b] = (IF b = a THEN idle[1] ELSE conn[b])
  BY <1>1 DEF TypeOK
<1>5. /\ \A b \in Actor : pc'[b] \in Holding => conn'[b] \in open'
      /\ \A i \in DOMAIN idle' : idle'[i] \in open'
  BY <1>1, <1>2, <1>3, <1>4 DEF OwnInv
<1>6. \A b, d \in Actor :
        pc'[b] \in Holding /\ pc'[d] \in Holding /\ conn'[b] = conn'[d] => b = d
  BY <1>3, <1>4 DEF OwnInv
<1>7. \A i, j \in DOMAIN idle' : idle'[i] = idle'[j] => i = j
  <2>. TAKE i, j \in DOMAIN idle'
  <2>1. idle[i + 1] = idle[j + 1] => i + 1 = j + 1
    BY <1>2 DEF OwnInv
  <2>. QED BY <1>1, <2>1
<1>8. \A i \in DOMAIN idle', b \in Actor : pc'[b] \in Holding => idle'[i] # conn'[b]
  <2>. TAKE i \in DOMAIN idle', b \in Actor
  <2>1. idle'[i] = idle[i + 1] /\ i + 1 \in DOMAIN idle /\ i + 1 # 1
    BY <1>1, <1>2
  <2>. QED BY <2>1, <1>3, <1>4 DEF OwnInv
<1>. QED BY <1>5, <1>6, <1>7, <1>8 DEF OwnInv

\* Every step keeps one owner for each open connection.
LEMMA OwnStep ==
  ASSUME TypeOK, PlaceInv, OwnInv, [Next]_vars
  PROVE  OwnInv'
<1>1. ASSUME NEW c \in Caller, Begin(c) PROVE OwnInv'
  BY Zenon, <1>1, OwnKept DEF Begin, Goto, pool, Holding, Actor
<1>2. ASSUME NEW c \in Caller, CheckClosed(c) PROVE OwnInv'
  BY Zenon, <1>2, OwnKept DEF CheckClosed, Goto, pool, Holding, Actor
<1>3. ASSUME NEW c \in Caller, TryIdle(c) PROVE OwnInv'
  <2>1. CASE Goto(c, "try", "write") /\ TakeIdle(c)
    BY Zenon, <2>1, OwnTaken DEF Goto, Holding, Actor
  <2>2. CASE Goto(c, "try", "wait") /\ UNCHANGED <<conn, pool, open>>
    BY Zenon, <2>2, OwnKept DEF Goto, pool, Holding, Actor
  <2>. QED BY <1>3, <2>1, <2>2 DEF TryIdle
<1>4. ASSUME NEW c \in Caller, Wait(c) PROVE OwnInv'
  <2>1. CASE Goto(c, "wait", "write") /\ TakeIdle(c)
    BY Zenon, <2>1, OwnTaken DEF Goto, Holding, Actor
  <2>2. CASE TakeSlot(c)
    BY Zenon, <2>2, OwnKept DEF TakeSlot, Goto, Holding, Actor
  <2>3. CASE Goto(c, "wait", "out") /\ UNCHANGED <<conn, pool, open>>
    BY Zenon, <2>3, OwnKept DEF Goto, pool, Holding, Actor
  <2>. QED BY <1>4, <2>1, <2>2, <2>3 DEF Wait
<1>5. ASSUME NEW c \in Caller, Dial(c) PROVE OwnInv'
  <2>1. CASE DialFails(c)
    BY Zenon, <2>1, OwnKept DEF DialFails, Goto, Holding, Actor
  <2>2. CASE ~DialFails(c)
    <3>1. PICK k \in Conn \ dialled :
            conn' = [conn EXCEPT ![c] = k] /\ open' = open \cup {k}
      BY <1>5, <2>2 DEF Dial
    <3>2. pc' = [pc EXCEPT ![c] = "write"] /\ idle' = idle /\ pc[c] = "dial"
      BY <1>5, <2>2 DEF Dial, Goto, pool
    <3>3. k \notin open
      BY DEF TypeOK
    <3>. QED BY <3>1, <3>2, <3>3 DEF OwnInv, TypeOK, Holding, Actor
  <2>. QED BY <2>1, <2>2
<1>6. ASSUME NEW c \in Caller, Write(c) PROVE OwnInv'
  <2>1. /\ pc[c] = "write" /\ \E to \in Place : pc' = [pc EXCEPT ![c] = to]
        /\ UNCHANGED <<conn, idle, open>>
    BY <1>6 DEF Write, Goto, pool, Place
  <2>. QED BY Zenon, <2>1, OwnKept DEF Holding, Actor
<1>7. ASSUME NEW c \in Caller, Read(c) PROVE OwnInv'
  <2>1. /\ pc[c] = "read" /\ \E to \in Place : pc' = [pc EXCEPT ![c] = to]
        /\ UNCHANGED <<conn, idle, open>>
    BY <1>7 DEF Read, ReadFails, Goto, pool, Place
  <2>. QED BY Zenon, <2>1, OwnKept DEF Holding, Actor
<1>8. ASSUME NEW c \in Caller, Release(c) PROVE OwnInv'
  BY Zenon, <1>8, OwnKept DEF Release, Goto, pool, Holding, Actor
<1>9. ASSUME NEW c \in Caller, Put(c) PROVE OwnInv'
  <2>1. /\ Goto(c, "put", "out") /\ idle' = Append(idle, conn[c])
        /\ conn' = [conn EXCEPT ![c] = None] /\ open' = open
    BY <1>9 DEF Put
  <2>2. conn[c] \in Conn /\ conn[c] \in open /\ pc[c] = "put"
    BY <2>1 DEF OwnInv, TypeOK, Holding, Actor, Goto
  <2>3. /\ Len(idle) \in Nat /\ DOMAIN idle = 1..Len(idle)
        /\ DOMAIN idle' = 1..Len(idle) + 1
        /\ \A i \in DOMAIN idle' :
             idle'[i] = IF i = Len(idle) + 1 THEN conn[c] ELSE idle[i]
    BY <2>1, <2>2 DEF TypeOK
  <2>4. \A i \in DOMAIN idle' : i = Len(idle) + 1 \/ i \in DOMAIN idle
    BY <2>3
  <2>5. \A b \in Actor : pc'[b] \in Holding =>
          pc[b] \in Holding /\ b # c /\ conn'[b] = conn[b]
    BY <2>1 DEF Goto, TypeOK, Holding, Actor
  <2>. HIDE DEF Holding
  <2>6. /\ \A b \in Actor : pc'[b] \in Holding => conn'[b] \in open'
        /\ \A b, d \in Actor :
             pc'[b] \in Holding /\ pc'[d] \in Holding /\ conn'[b] = conn'[d] => b = d
    BY <2>1, <2>5 DEF OwnInv
  <2>7. pc[c] \in Holding
    BY <2>2 DEF Holding
  <2>8. \A i \in DOMAIN idle' : idle'[i] \in open'
    BY <2>1, <2>2, <2>3, <2>4 DEF OwnInv
  <2>9. \A i, j \in DOMAIN idle' : idle'[i] = idle'[j] => i = j
    BY <2>3, <2>4, <2>7 DEF OwnInv, Actor
  <2>10. \A i \in DOMAIN idle', b \in Actor : pc'[b] \in Holding => idle'[i] # conn'[b]
    BY <2>3, <2>4, <2>5, <2>7 DEF OwnInv, Actor
  <2>. QED BY <2>6, <2>8, <2>9, <2>10 DEF OwnInv
<1>10. ASSUME NEW a \in Actor, Discard(a) PROVE OwnInv'
  BY <1>10 DEF Discard, Goto, pool, Holding, OwnInv, TypeOK
<1>11. ASSUME NEW a \in Actor, FreeSlot(a) PROVE OwnInv'
  BY Zenon, <1>11, OwnKept DEF FreeSlot, Goto, Holding
<1>12. ASSUME NEW t \in Closer, CloseBegin(t) PROVE OwnInv'
  BY Zenon, <1>12, OwnKept DEF CloseBegin, Goto, Holding, Actor
<1>13. ASSUME NEW t \in Closer, Drain(t) PROVE OwnInv'
  <2>1. CASE Goto(t, "drain", "discard") /\ TakeIdle(t)
    BY Zenon, <2>1, OwnTaken DEF Goto, Holding, Actor
  <2>2. CASE Goto(t, "drain", "returned") /\ UNCHANGED <<conn, pool, open>>
    BY Zenon, <2>2, OwnKept DEF Goto, pool, Holding, Actor
  <2>. QED BY <1>13, <2>1, <2>2 DEF Drain
<1>14. CASE UNCHANGED <<pc, conn, idle, open>>
  BY <1>14 DEF OwnInv
<1>15. ASSUME NEW k \in Conn, ServerStep(k) PROVE UNCHANGED <<pc, conn, idle, open>>
  BY <1>15 DEF ServerStep, ServerRead, ServerReply, ServerEnd, pool
<1>16. Crash \/ UNCHANGED vars => UNCHANGED <<pc, conn, idle, open>>
  BY DEF Crash, vars, pool
<1>. QED
  BY <1>1, <1>2, <1>3, <1>4, <1>5, <1>6, <1>7, <1>8, <1>9, <1>10, <1>11, <1>12, <1>13,
     <1>14, <1>15, <1>16
  DEF Next, CallStep, CloseStep, ActorStep

---------------------------------------------------------------------------
(* Streams *)

Quiet == {"write", "release", "put"}

\* A call that is still reading the same connection, whose stream is as it was.
LEMMA StreamKept ==
  ASSUME NEW c \in Caller, Carries(conn[c], Mine(c)), conn'[c] = conn[c],
         calls'[c] = calls[c], UNCHANGED <<reqs, work, reps>>
  PROVE  Carries(conn[c], Mine(c))'
<1>1. Mine(c)' = Mine(c)
  BY DEF Mine
<1>. QED BY <1>1 DEF Carries, Clean

\* A step of one goroutine that leaves the streams and idle alone and does not
\* bring it to a place where it claims more of its connection than before.
LEMMA WireKept ==
  ASSUME TypeOK, WireInv, NEW a \in Actor, NEW to, pc' = [pc EXCEPT ![a] = to],
         to \notin Quiet \cup {"read"} \/ (pc[a] \in Quiet /\ to \in Quiet /\ conn' = conn),
         \A b \in Actor \ {a} : conn'[b] = conn[b],
         \A c \in Caller \ {a} : calls'[c] = calls[c],
         UNCHANGED <<idle, dialled, reqs, work, reps>>
  PROVE  WireInv'
<1>. USE DEF Actor
<1>1. \A b \in Actor : pc'[b] = IF b = a THEN to ELSE pc[b]
  BY DEF TypeOK
<1>2. \A k : Clean(k)' = Clean(k)
  BY DEF Clean
<1>3. \A c \in Caller : pc'[c] \in Quiet => Clean(conn'[c])
  BY <1>1 DEF WireInv, Quiet
<1>4. \A c \in Caller : pc'[c] = "read" =>
        c # a /\ pc[c] = "read" /\ conn'[c] = conn[c] /\ calls'[c] = calls[c]
  BY <1>1 DEF Quiet
<1>5. ASSUME NEW c \in Caller, pc'[c] = "read" PROVE Carries(conn[c], Mine(c))'
  BY <1>4, <1>5, StreamKept DEF WireInv, Mine
<1>. QED BY <1>2, <1>3, <1>5 DEF WireInv, Quiet, Clean

\* A connection taken out of idle has nothing on its stream.
LEMMA WireTaken ==
  ASSUME TypeOK, WireInv, NEW a \in Actor, NEW to, to = "write" \/ a \notin Caller,
         pc' = [pc EXCEPT ![a] = to], TakeIdle(a)
  PROVE  WireInv'
<1>. USE DEF Actor
<1>1. /\ conn' = [conn EXCEPT ![a] = idle[1]]
      /\ DOMAIN idle' = 1..Len(idle) - 1
      /\ \A i \in DOMAIN idle' : idle'[i] = idle[i + 1]
      /\ DOMAIN idle = 1..Len(idle) /\ Len(idle) \in Nat \ {0}
      /\ UNCHANGED <<calls, dialled, reqs, work, reps>>
  BY IdleHead DEF TakeIdle, wire
<1>2. 1 \in DOMAIN idle /\ \A i \in DOMAIN idle' : i + 1 \in DOMAIN idle
  BY <1>1
<1>3. \A b \in Actor : pc'[b] = (IF b = a THEN to ELSE pc[b])
                      /\ conn'[b] = (IF b = a THEN idle[1] ELSE conn[b])
  BY <1>1 DEF TypeOK
<1>4. \A i \in DOMAIN idle' : Clean(idle'[i])
  BY <1>1, <1>2 DEF WireInv
<1>5. \A c \in Caller : pc'[c] \in Quiet => Clean(conn'[c])
  BY <1>2, <1>3 DEF WireInv, Quiet
<1>6. \A c \in Caller : pc'[c] = "read" =>
        pc[c] = "read" /\ conn'[c] = conn[c] /\ calls'[c] = calls[c]
  BY <1>1, <1>3
<1>7. ASSUME NEW c \in Caller, pc'[c] = "read" PROVE Carries(conn[c], Mine(c))'
  BY <1>1, <1>6, <1>7, StreamKept DEF WireInv
<1>. QED BY <1>1, <1>4, <1>5, <1>7 DEF WireInv, Quiet, Clean

\* The sidecar's steps dirty no clean stream and answer requests in place.
LEMMA WireServed ==
  ASSUME TypeOK, WireInv, UNCHANGED <<pc, conn, calls, idle, dialled>>,
         \A k \in Conn : Clean(k) => Clean(k)',
         \A k \in Conn, r \in Request : Carries(k, r) => Carries(k, r)',
         PlaceInv, OwnInv
  PROVE  WireInv'
<1>1. \A i \in DOMAIN idle : idle[i] \in Conn
  BY DEF TypeOK
<1>2. \A c \in Caller : pc[c] \in Quiet \cup {"read"} => conn[c] \in Conn /\ Mine(c) \in Request
  BY DEF Quiet, OwnInv, PlaceInv, TypeOK, Holding, Actor, Mine, Request
<1>3. \A c \in Caller : Mine(c)' = Mine(c)
  BY DEF Mine
<1>4. \A k \in Conn \ dialled' : Clean(k)'
  BY DEF WireInv
<1>5. \A j \in DOMAIN idle' : Clean(idle[j])'
  BY <1>1 DEF WireInv, Clean
<1>6. \A c \in Caller : pc'[c] \in Quiet => Clean(conn[c])'
  BY <1>2 DEF WireInv, Quiet, Clean
<1>7. ASSUME NEW c \in Caller, pc'[c] = "read" PROVE Carries(conn[c], Mine(c))'
  <2>1. PICK k \in Conn, r \in Request : k = conn[c] /\ r = Mine(c) /\ Carries(k, r)
    BY <1>2, <1>7 DEF WireInv
  <2>2. Carries(k, r)'
    BY <2>1
  <2>. QED BY Zenon, <1>3, <2>1, <2>2 DEF Carries, Clean
<1>. QED BY <1>4, <1>5, <1>6, <1>7 DEF WireInv, Quiet

\* Every step keeps the streams clean.
LEMMA WireStep ==
  ASSUME TypeOK, PlaceInv, OwnInv, WireInv, [Next]_vars
  PROVE  WireInv'
<1>. USE ActorAssumption
<1>1. ASSUME NEW c \in Caller, Begin(c) PROVE WireInv'
  BY Zenon, <1>1, WireKept DEF Begin, Goto, pool, wire, Quiet, Actor, TypeOK
<1>2. ASSUME NEW c \in Caller, CheckClosed(c) PROVE WireInv'
  BY Zenon, <1>2, WireKept DEF CheckClosed, Goto, pool, wire, Quiet, Actor, TypeOK
<1>3. ASSUME NEW c \in Caller, TryIdle(c) PROVE WireInv'
  <2>1. CASE Goto(c, "try", "write") /\ TakeIdle(c)
    BY Zenon, <2>1, WireTaken DEF Goto, Actor
  <2>2. CASE Goto(c, "try", "wait") /\ UNCHANGED <<conn, calls, pool, dialled, wire>>
    BY Zenon, <2>2, WireKept DEF Goto, pool, wire, Quiet, Actor
  <2>. QED BY <1>3, <2>1, <2>2 DEF TryIdle
<1>4. ASSUME NEW c \in Caller, Wait(c) PROVE WireInv'
  <2>1. CASE Goto(c, "wait", "write") /\ TakeIdle(c)
    BY Zenon, <2>1, WireTaken DEF Goto, Actor
  <2>2. CASE TakeSlot(c)
    BY Zenon, <2>2, WireKept DEF TakeSlot, Goto, wire, Quiet, Actor
  <2>3. CASE Goto(c, "wait", "out") /\ UNCHANGED <<conn, calls, pool, dialled, wire>>
    BY Zenon, <2>3, WireKept DEF Goto, pool, wire, Quiet, Actor
  <2>. QED BY <1>4, <2>1, <2>2, <2>3 DEF Wait
<1>5. ASSUME NEW c \in Caller, Dial(c) PROVE WireInv'
  <2>1. CASE DialFails(c)
    BY Zenon, <2>1, WireKept DEF DialFails, Goto, wire, Quiet, Actor
  <2>2. CASE ~DialFails(c)
    <3>1. PICK k \in Conn \ dialled :
            conn' = [conn EXCEPT ![c] = k] /\ dialled' = dialled \cup {k}
      BY <1>5, <2>2 DEF Dial
    <3>2. /\ pc' = [pc EXCEPT ![c] = "write"]
          /\ UNCHANGED <<calls, idle, reqs, work, reps>>
      BY <1>5, <2>2 DEF Dial, Goto, pool
    <3>3. \A b \in Caller : pc'[b] = (IF b = c THEN "write" ELSE pc[b])
                           /\ conn'[b] = (IF b = c THEN k ELSE conn[b])
      BY <3>1, <3>2 DEF TypeOK, Actor
    <3>4. \A b \in Caller : pc'[b] \in Quiet => Clean(conn'[b])
      BY <3>1, <3>3 DEF WireInv, Quiet
    <3>5. ASSUME NEW b \in Caller, pc'[b] = "read" PROVE Carries(conn[b], Mine(b))'
      BY <3>2, <3>3, <3>5, StreamKept DEF WireInv
    <3>. QED BY <3>1, <3>2, <3>4, <3>5 DEF WireInv, Quiet, Clean
  <2>. QED BY <2>1, <2>2
<1>6. ASSUME NEW c \in Caller, Write(c) PROVE WireInv'
  <2>1. CASE Goto(c, "write", "discard") /\ UNCHANGED <<conn, calls, pool, dialled, wire>>
    BY Zenon, <2>1, WireKept DEF Goto, pool, wire, Quiet, Actor
  <2>2. CASE /\ Goto(c, "write", "read")
             /\ reqs' = [reqs EXCEPT ![conn[c]] = Append(@, Mine(c))]
             /\ UNCHANGED <<conn, calls, pool, dialled, open, up, work, reps, crashes>>
    <3>1. /\ pc[c] = "write" /\ conn[c] \in Conn /\ conn[c] \in dialled /\ Clean(conn[c])
          /\ Mine(c) \in Request
      BY <2>2 DEF OwnInv, WireInv, PlaceInv, TypeOK, Holding, Actor, Goto, Mine, Request
    <3>2. /\ reqs'[conn[c]] = <<Mine(c)>>
          /\ \A k \in Conn \ {conn[c]} : reqs'[k] = reqs[k]
          /\ UNCHANGED <<conn, calls, idle, dialled, work, reps>>
      BY <2>2, <3>1 DEF TypeOK, Clean, pool
    <3>3. \A b \in Caller : pc'[b] = IF b = c THEN "read" ELSE pc[b]
      BY <2>2 DEF Goto, TypeOK, Actor
    <3>4. \A k \in Conn \ {conn[c]} : Clean(k) => Clean(k)'
      BY <3>2 DEF Clean
    <3>5. \A i \in DOMAIN idle : idle[i] \in Conn \ {conn[c]}
      BY <3>1 DEF OwnInv, TypeOK, Holding, Actor
    <3>6. \A b \in Caller : b # c /\ pc'[b] \in Quiet \cup {"read"} =>
            conn[b] \in Conn \ {conn[c]}
      BY <3>1, <3>3 DEF OwnInv, TypeOK, Holding, Actor, Quiet
    <3>7. \A k \in Conn \ dialled' : Clean(k)'
      BY <3>1, <3>2, <3>4 DEF WireInv
    <3>8. \A i \in DOMAIN idle' : Clean(idle[i])'
      BY <3>2, <3>5 DEF WireInv, Clean
    <3>9. \A b \in Caller : pc'[b] \in Quiet => Clean(conn[b])'
      BY <3>2, <3>3, <3>6 DEF WireInv, Quiet, Clean
    <3>10. ASSUME NEW b \in Caller, pc'[b] = "read" PROVE Carries(conn[b], Mine(b))'
      <4>1. Mine(b)' = Mine(b) /\ conn'[b] = conn[b]
        BY <3>2 DEF Mine
      <4>2. CASE b = c
        <5>1. /\ reqs'[conn'[b]] = <<Mine(c)>> /\ work'[conn'[b]] = <<>>
              /\ reps'[conn'[b]] = <<>>
          BY <3>1, <3>2, <4>1, <4>2 DEF Clean
        <5>. QED BY <4>1, <4>2, <5>1 DEF Carries
      <4>3. CASE b # c
        <5>1. Carries(conn[b], Mine(b)) /\ reqs'[conn[b]] = reqs[conn[b]]
          BY <3>2, <3>3, <3>6, <3>10, <4>3 DEF WireInv
        <5>. QED BY <3>2, <4>1, <5>1 DEF Carries, Clean
      <4>. QED BY <4>2, <4>3
    <3>. QED BY <3>7, <3>8, <3>9, <3>10 DEF WireInv, Quiet
  <2>. QED BY <1>6, <2>1, <2>2 DEF Write
<1>7. ASSUME NEW c \in Caller, Read(c) PROVE WireInv'
  <2>1. CASE ReadFails(c)
    BY Zenon, <2>1, WireKept DEF ReadFails, Goto, pool, wire, Quiet, Actor
  <2>2. CASE /\ Goto(c, "read", "release")
             /\ reps[conn[c]] # <<>>
             /\ reps' = [reps EXCEPT ![conn[c]] = Tail(@)]
             /\ UNCHANGED <<conn, calls, pool, dialled, open, reqs, up, work, crashes>>
    <3>1. /\ pc[c] = "read" /\ conn[c] \in Conn /\ conn[c] \in dialled
          /\ Carries(conn[c], Mine(c))
      BY <2>2 DEF OwnInv, WireInv, TypeOK, Holding, Actor, Goto
    <3>2. /\ reps'[conn[c]] = Tail(reps[conn[c]])
          /\ \A k \in Conn \ {conn[c]} : reps'[k] = reps[k]
          /\ UNCHANGED <<conn, calls, idle, dialled, reqs, work>>
      BY <2>2, <3>1 DEF TypeOK, pool
    <3>3. \A b \in Caller : pc'[b] = IF b = c THEN "release" ELSE pc[b]
      BY <2>2 DEF Goto, TypeOK, Actor
    <3>4. \A k \in Conn \ {conn[c]} : Clean(k) => Clean(k)'
      BY <3>2 DEF Clean
    <3>5. Clean(conn[c])'
      <4>1. /\ reqs[conn[c]] = <<>> /\ work[conn[c]] = <<>>
            /\ \E d \in BOOLEAN : reps[conn[c]] = <<[of |-> Mine(c), decoded |-> d]>>
        BY <2>2, <3>1 DEF Carries, Clean
      <4>2. Tail(reps[conn[c]]) = <<>>
        BY <4>1
      <4>. QED BY <3>2, <4>1, <4>2 DEF Clean
    <3>6. \A i \in DOMAIN idle : idle[i] \in Conn \ {conn[c]}
      BY <3>1 DEF OwnInv, TypeOK, Holding, Actor
    <3>7. \A b \in Caller : b # c /\ pc'[b] \in Quiet \cup {"read"} =>
            conn[b] \in Conn \ {conn[c]}
      BY <3>1, <3>3 DEF OwnInv, TypeOK, Holding, Actor, Quiet
    <3>8. \A k \in Conn \ dialled' : Clean(k)'
      BY <3>1, <3>2, <3>4 DEF WireInv
    <3>9. \A i \in DOMAIN idle' : Clean(idle[i])'
      BY <3>2, <3>6 DEF WireInv, Clean
    <3>10. \A b \in Caller : pc'[b] \in Quiet => Clean(conn[b])'
      BY <3>2, <3>3, <3>5, <3>7 DEF WireInv, Quiet, Clean
    <3>11. ASSUME NEW b \in Caller, pc'[b] = "read" PROVE Carries(conn[b], Mine(b))'
      <4>1. Mine(b)' = Mine(b) /\ conn'[b] = conn[b]
        BY <3>2 DEF Mine
      <4>2. Carries(conn[b], Mine(b)) /\ reps'[conn[b]] = reps[conn[b]]
        BY <3>2, <3>3, <3>7, <3>11 DEF WireInv
      <4>. QED BY Zenon, <3>2, <4>1, <4>2 DEF Carries, Clean
    <3>. QED BY <3>8, <3>9, <3>10, <3>11 DEF WireInv, Quiet
  <2>. QED BY <1>7, <2>1, <2>2 DEF Read
<1>8. ASSUME NEW c \in Caller, Release(c) PROVE WireInv'
  BY Zenon, <1>8, WireKept DEF Release, Goto, pool, wire, Quiet, Actor, TypeOK
<1>9. ASSUME NEW c \in Caller, Put(c) PROVE WireInv'
  <2>1. /\ Goto(c, "put", "out") /\ idle' = Append(idle, conn[c])
        /\ conn' = [conn EXCEPT ![c] = None] /\ UNCHANGED <<calls, dialled, wire>>
    BY <1>9 DEF Put
  <2>2. conn[c] \in Conn /\ Clean(conn[c])
    BY <2>1 DEF OwnInv, WireInv, TypeOK, Holding, Actor, Goto
  <2>3. \A i \in DOMAIN idle' : Clean(idle'[i])
    <3>1. \A i \in DOMAIN idle' :
            idle'[i] = conn[c] \/ (i \in DOMAIN idle /\ idle'[i] = idle[i])
      BY <2>1, <2>2 DEF TypeOK
    <3>. QED BY <2>2, <3>1 DEF WireInv
  <2>4. \A b \in Caller : pc'[b] \in Quiet \cup {"read"} =>
          pc[b] = pc'[b] /\ conn'[b] = conn[b]
    BY <2>1 DEF Goto, TypeOK, Actor, Quiet
  <2>5. \A b \in Caller : pc'[b] \in Quiet => Clean(conn'[b])
    BY <2>4 DEF WireInv, Quiet
  <2>6. ASSUME NEW b \in Caller, pc'[b] = "read" PROVE Carries(conn[b], Mine(b))'
    BY <2>1, <2>4, <2>6, StreamKept DEF WireInv, wire
  <2>. QED BY <2>1, <2>3, <2>5, <2>6 DEF WireInv, Quiet, Clean, wire
<1>10. ASSUME NEW a \in Actor, Discard(a) PROVE WireInv'
  BY Zenon, <1>10, WireKept DEF Discard, Goto, pool, wire, Quiet, Actor, TypeOK
<1>11. ASSUME NEW a \in Actor, FreeSlot(a) PROVE WireInv'
  BY Zenon, <1>11, WireKept DEF FreeSlot, Goto, pool, wire, Quiet, Actor, TypeOK
<1>12. ASSUME NEW t \in Closer, CloseBegin(t) PROVE WireInv'
  BY Zenon, <1>12, WireKept DEF CloseBegin, Goto, pool, wire, Quiet, Actor, TypeOK
<1>13. ASSUME NEW t \in Closer, Drain(t) PROVE WireInv'
  <2>1. CASE Goto(t, "drain", "discard") /\ TakeIdle(t)
    BY Zenon, <2>1, WireTaken DEF Goto, Actor
  <2>2. CASE Goto(t, "drain", "returned") /\ UNCHANGED <<conn, calls, pool, dialled, wire>>
    BY Zenon, <2>2, WireKept DEF Goto, pool, wire, Quiet, Actor
  <2>. QED BY <1>13, <2>1, <2>2 DEF Drain
<1>14. ASSUME NEW k \in Conn, ServerStep(k) PROVE WireInv'
  <2>1. UNCHANGED <<pc, conn, calls, idle, dialled>>
    BY <1>14 DEF ServerStep, ServerRead, ServerReply, ServerEnd, pool
  <2>2. \A m \in Conn : Clean(m) => Clean(m)'
    BY Zenon, <1>14 DEF ServerStep, ServerRead, ServerReply, ServerEnd, Clean, TypeOK
  <2>3. ASSUME NEW m \in Conn, NEW r \in Request, Carries(m, r) PROVE Carries(m, r)'
    <3>1. CASE ServerRead(k)
      <4>1. CASE m # k
        <5>1. work'[m] = work[m] /\ reqs'[m] = reqs[m] /\ reps'[m] = reps[m]
          BY <3>1, <4>1 DEF ServerRead, TypeOK
        <5>. QED BY Zenon, <5>1, <2>3 DEF Carries, Clean
      <4>2. CASE m = k
        <5>1. reqs[k] = <<r>> /\ work[k] = <<>> /\ reps[k] = <<>>
          BY <3>1, <4>2, <2>3 DEF Carries, Clean, ServerRead
        <5>2. work'[k] = <<r>> /\ reqs'[k] = <<>> /\ reps'[k] = <<>>
          BY <3>1, <5>1 DEF ServerRead, TypeOK
        <5>. QED BY <4>2, <5>2 DEF Carries
      <4>. QED BY <4>1, <4>2
    <3>2. CASE ServerReply(k)
      <4>1. PICK d \in BOOLEAN :
              reps' = [reps EXCEPT ![k] = Append(@, [of |-> work[k][1], decoded |-> d])]
        BY Zenon, <3>2 DEF ServerReply
      <4>2. CASE m # k
        <5>1. work'[m] = work[m] /\ reqs'[m] = reqs[m] /\ reps'[m] = reps[m]
          BY <3>2, <4>1, <4>2 DEF ServerReply, TypeOK
        <5>. QED BY Zenon, <5>1, <2>3 DEF Carries, Clean
      <4>3. CASE m = k
        <5>1. work[k] = <<r>> /\ reps[k] = <<>> /\ reqs[k] = <<>>
          BY <3>2, <4>3, <2>3 DEF Carries, Clean, ServerReply
        <5>4. /\ reps'[k] = <<[of |-> r, decoded |-> d]>> /\ work'[k] = <<>> /\ reqs'[k] = <<>>
          BY <3>2, <4>1, <5>1 DEF ServerReply, TypeOK
        <5>. QED BY <4>3, <5>4 DEF Carries
      <4>. QED BY <4>2, <4>3
    <3>3. CASE ServerEnd(k)
      BY <3>3, <2>3 DEF ServerEnd, Carries, Clean, TypeOK
    <3>. QED BY <1>14, <3>1, <3>2, <3>3 DEF ServerStep
  <2>. QED BY <2>1, <2>2, <2>3, WireServed
<1>15. CASE Crash
  <2>1. UNCHANGED <<pc, conn, calls, idle, dialled, reps>>
        /\ \A m \in Conn : reqs'[m] = <<>> /\ work'[m] = <<>>
    BY <1>15 DEF Crash, pool
  <2>2. \A m \in Conn : Clean(m) => Clean(m)'
    BY <2>1 DEF Clean
  <2>3. \A m \in Conn, r \in Request : Carries(m, r) => Carries(m, r)'
    BY <2>1 DEF Carries, Clean
  <2>. QED BY <2>1, <2>2, <2>3, WireServed
<1>16. CASE UNCHANGED vars
  BY Zenon, <1>16 DEF vars, pool, wire, WireInv, Clean, Carries, Mine
<1>. QED
  BY <1>1, <1>2, <1>3, <1>4, <1>5, <1>6, <1>7, <1>8, <1>9, <1>10, <1>11, <1>12, <1>13,
     <1>14, <1>15, <1>16
  DEF Next, CallStep, CloseStep, ActorStep

---------------------------------------------------------------------------
(* Slots *)

\* A goroutine goes to a place without a slot of its own from another such place.
LEMMA CountKept ==
  ASSUME TypeOK, CountInv, NEW a \in Actor, NEW to, pc' = [pc EXCEPT ![a] = to],
         {pc[a], to} \cap {"dial", "free"} = {}, UNCHANGED <<sem, open>>
  PROVE  CountInv'
<1>1. Between' = Between
  BY Zenon DEF Between, TypeOK
<1>. QED BY <1>1 DEF CountInv

\* A goroutine comes to hold a slot without a connection.
LEMMA BetweenGains ==
  ASSUME TypeOK, CountInv, NEW a \in Actor, pc[a] \notin {"dial", "free"},
         NEW to \in {"dial", "free"}, pc' = [pc EXCEPT ![a] = to]
  PROVE  /\ IsFiniteSet(Between')
         /\ Cardinality(Between') = Cardinality(Between) + 1
<1>1. Between' = Between \cup {a} /\ a \notin Between
  BY DEF Between, TypeOK
<1>. QED BY <1>1, FS_AddElement DEF CountInv

\* A goroutine no longer holds a slot without a connection.
LEMMA BetweenLoses ==
  ASSUME TypeOK, CountInv, NEW a \in Actor, pc[a] \in {"dial", "free"},
         NEW to, to \notin {"dial", "free"}, pc' = [pc EXCEPT ![a] = to]
  PROVE  /\ IsFiniteSet(Between')
         /\ Cardinality(Between') = Cardinality(Between) - 1
<1>1. Between' = Between \ {a} /\ a \in Between
  BY DEF Between, TypeOK
<1>. QED BY <1>1, FS_RemoveElement DEF CountInv

\* Every step keeps the count of slots.
LEMMA CountStep ==
  ASSUME TypeOK, PlaceInv, OwnInv, CountInv, [Next]_vars
  PROVE  CountInv'
<1>0. Cardinality(open) \in Nat /\ Cardinality(Between) \in Nat
  BY FS_CardinalityType DEF CountInv
<1>1. ASSUME NEW c \in Caller, Begin(c) PROVE CountInv'
  BY Zenon, <1>1, CountKept DEF Begin, Goto, pool, Actor
<1>2. ASSUME NEW c \in Caller, CheckClosed(c) PROVE CountInv'
  BY Zenon, <1>2, CountKept DEF CheckClosed, Goto, pool, Actor
<1>3. ASSUME NEW c \in Caller, TryIdle(c) PROVE CountInv'
  <2>1. CASE Goto(c, "try", "write") /\ UNCHANGED <<sem, open>>
    BY Zenon, <2>1, CountKept DEF Goto, Actor
  <2>2. CASE Goto(c, "try", "wait") /\ UNCHANGED <<sem, open>>
    BY Zenon, <2>2, CountKept DEF Goto, Actor
  <2>. QED BY <1>3, <2>1, <2>2 DEF TryIdle, TakeIdle, pool
<1>4. ASSUME NEW c \in Caller, Wait(c) PROVE CountInv'
  <2>1. CASE Goto(c, "wait", "write") /\ UNCHANGED <<sem, open>>
    BY Zenon, <2>1, CountKept DEF Goto, Actor
  <2>2. CASE TakeSlot(c)
    <3>1. /\ IsFiniteSet(Between')
          /\ Cardinality(Between') = Cardinality(Between) + 1
      BY Zenon, <2>2, BetweenGains DEF TakeSlot, Goto, Actor
    <3>. QED BY <1>0, <2>2, <3>1 DEF TakeSlot, CountInv
  <2>3. CASE Goto(c, "wait", "out") /\ UNCHANGED <<sem, open>>
    BY Zenon, <2>3, CountKept DEF Goto, Actor
  <2>. QED BY <1>4, <2>1, <2>2, <2>3 DEF Wait, TakeIdle, pool
<1>5. ASSUME NEW c \in Caller, Dial(c) PROVE CountInv'
  <2>1. /\ IsFiniteSet(Between')
        /\ Cardinality(Between') = Cardinality(Between) - 1
    <3>1. pc[c] = "dial" /\ \E to \in {"out", "write"} : pc' = [pc EXCEPT ![c] = to]
      BY <1>5 DEF Dial, DialFails, Goto
    <3>. QED BY Zenon, <3>1, BetweenLoses DEF Actor
  <2>2. CASE DialFails(c)
    BY <1>0, <2>1, <2>2 DEF DialFails, CountInv
  <2>3. CASE ~DialFails(c)
    <3>1. PICK k \in Conn \ dialled : open' = open \cup {k}
      BY <1>5, <2>3 DEF Dial
    <3>2. k \notin open /\ sem' = sem
      BY <1>5, <2>3 DEF TypeOK, Dial, pool
    <3>3. IsFiniteSet(open') /\ Cardinality(open') = Cardinality(open) + 1
      BY <3>1, <3>2, FS_AddElement DEF CountInv
    <3>. QED BY <1>0, <2>1, <3>2, <3>3 DEF CountInv
  <2>. QED BY <2>2, <2>3
<1>6. ASSUME NEW c \in Caller, Write(c) PROVE CountInv'
  <2>1. /\ pc[c] = "write" /\ \E to \in {"read", "discard"} : pc' = [pc EXCEPT ![c] = to]
        /\ UNCHANGED <<sem, open>>
    BY <1>6 DEF Write, Goto, pool
  <2>. QED BY Zenon, <2>1, CountKept DEF Actor
<1>7. ASSUME NEW c \in Caller, Read(c) PROVE CountInv'
  <2>1. /\ pc[c] = "read" /\ \E to \in {"release", "discard"} : pc' = [pc EXCEPT ![c] = to]
        /\ UNCHANGED <<sem, open>>
    BY <1>7 DEF Read, ReadFails, Goto, pool
  <2>. QED BY Zenon, <2>1, CountKept DEF Actor
<1>8. ASSUME NEW c \in Caller, Release(c) PROVE CountInv'
  BY Zenon, <1>8, CountKept DEF Release, Goto, pool, Actor
<1>9. ASSUME NEW c \in Caller, Put(c) PROVE CountInv'
  BY Zenon, <1>9, CountKept DEF Put, Goto, Actor
<1>10. ASSUME NEW a \in Actor, Discard(a) PROVE CountInv'
  <2>1. /\ IsFiniteSet(Between')
        /\ Cardinality(Between') = Cardinality(Between) + 1
    BY Zenon, <1>10, BetweenGains DEF Discard, Goto
  <2>2. open' = open \ {conn[a]} /\ conn[a] \in open /\ sem' = sem
    BY <1>10 DEF Discard, Goto, OwnInv, Holding, pool
  <2>3. IsFiniteSet(open') /\ Cardinality(open') = Cardinality(open) - 1
    BY Zenon, <2>2, FS_RemoveElement DEF CountInv
  <2>. QED BY <1>0, <2>1, <2>2, <2>3 DEF CountInv
<1>11. ASSUME NEW a \in Actor, FreeSlot(a) PROVE CountInv'
  <2>1. /\ IsFiniteSet(Between')
        /\ Cardinality(Between') = Cardinality(Between) - 1
    <3>1. pc[a] = "free" /\ \E to \in {"drain", "out"} : pc' = [pc EXCEPT ![a] = to]
      BY Zenon, <1>11 DEF FreeSlot, Goto
    <3>. QED BY Zenon, <3>1, BetweenLoses
  <2>. QED BY <1>0, <1>11, <2>1 DEF FreeSlot, CountInv
<1>12. ASSUME NEW t \in Closer, CloseBegin(t) PROVE CountInv'
  BY Zenon, <1>12, CountKept DEF CloseBegin, Goto, Actor
<1>13. ASSUME NEW t \in Closer, Drain(t) PROVE CountInv'
  <2>1. /\ pc[t] = "drain" /\ \E to \in {"discard", "returned"} : pc' = [pc EXCEPT ![t] = to]
        /\ UNCHANGED <<sem, open>>
    BY <1>13 DEF Drain, TakeIdle, Goto, pool
  <2>. QED BY Zenon, <2>1, CountKept DEF Actor
<1>14. CASE UNCHANGED <<pc, sem, open>>
  BY <1>14 DEF CountInv, Between
<1>15. ASSUME NEW k \in Conn, ServerStep(k) PROVE UNCHANGED <<pc, sem, open>>
  BY <1>15 DEF ServerStep, ServerRead, ServerReply, ServerEnd, pool
<1>16. Crash \/ UNCHANGED vars => UNCHANGED <<pc, sem, open>>
  BY DEF Crash, vars, pool
<1>. QED
  BY <1>1, <1>2, <1>3, <1>4, <1>5, <1>6, <1>7, <1>8, <1>9, <1>10, <1>11, <1>12, <1>13,
     <1>14, <1>15, <1>16
  DEF Next, CallStep, CloseStep, ActorStep

---------------------------------------------------------------------------
(* Theorems *)

\* The invariant holds at first.
LEMMA InitInv == Init => IInv
<1>. SUFFICES ASSUME Init PROVE IInv
  OBVIOUS
<1>1. TypeOK
  <2>1. sem \in 0..PoolSize /\ crashes \in 0..MaxCrashes /\ calls \in [Caller -> 0..MaxCalls]
    BY PoolSizeAssumption, BoundsAssumption DEF Init
  <2>2. pc \in [Actor -> Place] /\ conn \in [Actor -> Conn \cup {None}]
    BY DEF Init, Place
  <2>3. /\ idle \in Seq(Conn) /\ reqs \in [Conn -> Seq(Request)]
        /\ work \in [Conn -> Seq(Request)] /\ reps \in [Conn -> Seq(Reply)]
    <3>. HIDE DEF Request, Reply
    <3>. QED BY DEF Init
  <2>. QED BY Zenon, <2>1, <2>2, <2>3 DEF Init, TypeOK
<1>2. PlaceInv /\ OwnInv
  BY DEF Init, PlaceInv, OwnInv, Actor, Holding
<1>3. WireInv
  BY DEF Init, WireInv, Clean, Actor
<1>4. CountInv
  <2>1. open = {} /\ Between = {} /\ sem = 0
    BY DEF Init, Between
  <2>. QED BY <2>1, FS_EmptySet DEF CountInv
<1>. QED BY <1>1, <1>2, <1>3, <1>4 DEF IInv

\* The invariant holds in every reachable state of acquire, Call, release, Close
\* and handle_client.
THEOREM Invariance == Spec => []IInv
<1>1. IInv /\ [Next]_vars => IInv'
  BY TypeStep, PlaceStep, OwnStep, WireStep, CountStep DEF IInv
<1>. QED BY InitInv, <1>1, PTL DEF Spec

\* A call of Call reads only the reply to the request that it sent, for any
\* number of callers, connections, timeouts and crashes.
THEOREM CrossTalkFree == Spec => []NoCrossTalk
<1>1. IInv => NoCrossTalk
  <2>. SUFFICES ASSUME IInv, NEW c \in Caller, pc[c] = "read", NEW i \in DOMAIN reps[conn[c]]
                PROVE  reps[conn[c]][i].of = Mine(c)
    BY DEF NoCrossTalk
  <2>1. reps[conn[c]] # <<>> /\ Carries(conn[c], Mine(c))
    BY DEF IInv, WireInv
  <2>2. PICK d \in BOOLEAN : reps[conn[c]] = <<[of |-> Mine(c), decoded |-> d]>>
    BY Zenon, <2>1 DEF Carries, Clean
  <2>. QED BY <2>2
<1>. QED BY Invariance, <1>1, PTL

\* The slots of sem count the connections: acquire keeps at most PoolSize open,
\* and the receives <-c.sem of acquire, release and Close never wait.
THEOREM SlotsCorrect == Spec => []SlotsMatchConnections
<1>1. IInv => SlotsMatchConnections
  BY DEF IInv, CountInv, Between, SlotsMatchConnections
<1>. QED BY Invariance, <1>1, PTL

\* release always finds room for a healthy connection, as its comment says: the
\* idle connections and the one in hand are different, open and hold a slot each.
THEOREM RoomForHealthy == Spec => []IdleHasRoom
<1>1. IInv => IdleHasRoom
  <2>. SUFFICES ASSUME IInv, NEW c \in Caller, pc[c] = "put"
                PROVE  Len(idle) < PoolSize
    BY DEF IdleHasRoom
  <2>. DEFINE n == Len(idle)
              f == [i \in 1..n + 1 |-> IF i = n + 1 THEN conn[c] ELSE idle[i]]
  <2>1. n \in Nat /\ DOMAIN idle = 1..n
    BY DEF IInv, TypeOK
  <2>2. conn[c] \in open /\ c \in Actor /\ pc[c] \in Holding
    BY DEF IInv, OwnInv, Holding, Actor
  <2>3. f \in [1..n + 1 -> open]
    BY <2>1, <2>2 DEF IInv, OwnInv
  <2>4. \A i, j \in 1..n + 1 : f[i] = f[j] => i = j
    BY <2>1, <2>2 DEF IInv, OwnInv
  <2>5. f \in Injection(1..n + 1, open)
    BY <2>3, <2>4 DEF Injection, IsInjective
  <2>6. Cardinality(1..n + 1) <= Cardinality(open)
    BY <2>5, FS_Injection DEF IInv, CountInv
  <2>7. Cardinality(1..n + 1) = n + 1
    BY <2>1, FS_Interval
  <2>8. Cardinality(open) <= PoolSize
    <3>1. Cardinality(open) \in Nat /\ Cardinality(Between) \in Nat
      BY FS_CardinalityType DEF IInv, CountInv
    <3>. QED BY <3>1, PoolSizeAssumption DEF IInv, CountInv, TypeOK
  <2>9. Cardinality(open) \in Nat
    BY FS_CardinalityType DEF IInv, CountInv
  <2>. QED BY <2>1, <2>6, <2>7, <2>8, <2>9, PoolSizeAssumption
<1>. QED BY Invariance, <1>1, PTL

\* The slots of the pool are sound, for every pool size and any callers.
THEOREM SlotsSafe == Spec => []SlotsSound
<1>1. SlotsMatchConnections /\ IdleHasRoom => SlotsSound
  BY DEF SlotsSound
<1>. QED BY SlotsCorrect, RoomForHealthy, <1>1, PTL
=============================================================================
