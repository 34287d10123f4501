--------------------------- MODULE WriteBackProofs ---------------------------
(***************************************************************************)
(* Proofs about WriteBack, for any workspaces, clients, files and          *)
(* directories and any horizon: as long as no event is dropped, events     *)
(* alone bring what other tools do in the root of a projection into the    *)
(* map.                                                                    *)
(*                                                                         *)
(* The invariant says, of each file in the root of a live workspace that   *)
(* nobody is dropping: either the queue holds events about it and the last *)
(* ones say what has become of the file, or there is none and the map has  *)
(* the file as it is, or the event loop is about to bring it there.  It    *)
(* needs what a watch descriptor in an event can mean by the time the      *)
(* event is handled, that the root is watched once it is registered, and   *)
(* that a subdirectory's events never touch a file of the root.            *)
(***************************************************************************)
EXTENDS WriteBack, ShadowStoreProofs, FiniteSetTheorems

\* Leaves are given to Zenon unless they name another prover.
USE Zenon

\* Events alone keep the map right: no timed pass, no client writing, no event
\* dropped.
EventsOnly == ~horizon.ticks /\ writes = 0 /\ ~overflowed

WatchRecord == [wd : Nat, ws : Workspace, dir : Dir]
EventKind == {"sync", "newdir", "delete", "deldir", "self", "ignored", "overflow"}
Event == [wd : Nat, kind : EventKind, name : Dir \cup Path]
Place == {"idle", "read", "scan", "watch", "enter", "apply", "unwatch"}

EngineTypeOK ==
  /\ kernel \subseteq WatchRecord /\ IsFiniteSet(kernel)
  /\ watches \subseteq WatchRecord
  /\ nextWd \in Nat
  /\ queue \in Seq(Event)
  /\ apc \in [Actor -> Place]
  /\ aws \in [Actor -> Workspace]
  /\ aname \in [Actor -> Dir \cup Path]
  /\ scan \in [Actor -> Tree]
  /\ todo \in [Actor -> SUBSET Path]
  /\ sdirs \in [Actor -> SUBSET Dir]
  /\ added \in [Actor -> SUBSET WatchRecord]
  /\ gone = [a \in Actor |-> {}]
  /\ rest = [a \in Actor |-> {}]
  /\ horizon \in Horizon

\* A client runs the routine to register the workspace it has created; nobody
\* runs the reconciler's.  What is to be recorded was there when it was read.
ActorInv ==
  /\ apc[Reconciler] = "idle"
  /\ \A a \in Actor :
       /\ apc[a] # "idle" => aws[a] \in Known
       /\ \A p \in todo[a] : scan[a][p] # None
  /\ \A c \in Client :
       /\ pc[c] \notin Writing
       /\ apc[c] # "idle" =>
            /\ pc[c] = "register" /\ aws[c] = cws[c] /\ aname[c] = Root
            /\ apc[c] \in {"scan", "watch", "enter", "apply"}
       /\ pc[c] = "create" => disk[cws[c]] = ctree[c] /\ Root \in dirs[cws[c]]

\* A watch in the kernel or the table, or on its way from the one to the other.
Entry(k) == k \in kernel \/ k \in watches \/ \E a \in Actor : k \in added[a]

\* A descriptor names one watch for ever, and a directory has one watch at most.
WatchInv ==
  /\ \A k : Entry(k) => k.wd < nextWd /\ k.ws \in Known
  /\ \A k, l : Entry(k) /\ Entry(l) /\ k.wd = l.wd => k = l
  /\ \A k, l \in kernel : k.ws = l.ws /\ k.dir = l.dir => k = l

\* What an event in the queue says.
EventOK(e) ==
  /\ e.wd < nextWd
  /\ e.kind # "overflow"
  /\ e.kind = "ignored" => \A k \in kernel : k.wd # e.wd
  /\ e.kind \in {"newdir", "self", "deldir"} =>
       /\ e.name \in Dir
       /\ e.name = Root => \A k : Entry(k) /\ k.wd = e.wd => k.ws \notin live
  /\ e.kind \in {"sync", "delete"} =>
       /\ e.name \in Path
       /\ \A k : Entry(k) /\ k.wd = e.wd => k.dir = DirOf[e.name]

EventInv == \A i \in 1..Len(queue) : EventOK(queue[i])

Dropping(w) == \E c \in Client : cws[c] = w /\ pc[c] \in {"unregister", "forget"}
Registering(w) == \E c \in Client : cws[c] = w /\ pc[c] = "register"
Kept(w) == w \in live /\ ~Dropping(w)

RootWatch(w, k) == k.ws = w /\ k.dir = Root
RootEntered(w) == \E k \in kernel : RootWatch(w, k) /\ k \in watches

\* Event e of the watches K is about the file p in the root of workspace w.
About(K, e, w, p) ==
  /\ e.kind \in {"sync", "delete"} /\ e.name = p
  /\ \E k \in K : k.wd = e.wd /\ RootWatch(w, k)

NoneAbout(w, p) == \A i \in 1..Len(queue) : ~About(kernel, queue[i], w, p)

\* The root of a live workspace is watched once it is registered, and until it
\* is to be dropped.
CoverOK(w) ==
  /\ Root \in dirs[w]
  /\ RootEntered(w) \/ (Registering(w) /\ \A p \in Path : NoneAbout(w, p))
  /\ \A k : Entry(k) /\ RootWatch(w, k) => k \in kernel

CoverInv == \A w \in live : ~Dropping(w) => CoverOK(w)

\* What a client that registers workspace w still has to do.
RegisterOK(c, w) ==
  /\ apc[c] = "watch" => Root \in sdirs[c] \/ RootEntered(w)
  /\ apc[c] = "enter" =>
       \/ Root \in sdirs[c] \/ RootEntered(w)
       \/ \E k \in added[c] : k \in kernel /\ RootWatch(w, k)
  /\ apc[c] = "apply" => RootEntered(w)
  /\ apc[c] \in {"watch", "enter", "apply"} => \A p \in todo[c] : scan[c][p] = disk[w][p]

RegisterInv ==
  \A c \in Client : pc[c] = "register" /\ Kept(cws[c]) => RegisterOK(c, cws[c])

\* The event loop reads or records the file p of the root of w.
Reads(w, p) == apc[Inotify] = "read" /\ aws[Inotify] = w /\ aname[Inotify] = p
Applies(w, p) ==
  apc[Inotify] \in {"watch", "enter", "apply"} /\ aws[Inotify] = w /\ p \in todo[Inotify]

\* What the event loop does to a subdirectory does not reach the root.
LoopInv ==
  apc[Inotify] \in {"scan", "unwatch"} =>
    aname[Inotify] \in Dir /\ (aws[Inotify] \in live => aname[Inotify] # Root)

Matches(D, e, w, p) == e.kind = "sync" <=> D[w][p] # None

\* From some event about the file on, events about it say what has become of it.
Pending(w, p) ==
  \E i \in 1..Len(queue) :
    /\ About(kernel, queue[i], w, p)
    /\ \A j \in i..Len(queue) : About(kernel, queue[j], w, p) => Matches(disk, queue[j], w, p)

\* The map has the file as it is, or is about to.
InHand(w, p) ==
  \/ Reads(w, p) /\ disk[w][p] # None
  \/ Applies(w, p) /\ scan[Inotify][p] = disk[w][p]
  \/ ~Reads(w, p) /\ ~Applies(w, p) /\ files[w][p] = disk[w][p]

Settled(w, p) == NoneAbout(w, p) /\ InHand(w, p)

SyncOK(w, p) == Pending(w, p) \/ Settled(w, p)

SyncInv ==
  \A w \in live, p \in Path : ~Dropping(w) /\ DirOf[p] = Root => SyncOK(w, p)

EngineInv ==
  /\ EngineTypeOK /\ ActorInv /\ WatchInv /\ EventInv /\ CoverInv /\ RegisterInv
  /\ LoopInv /\ SyncInv

WBInv == writes \in Nat /\ (EventsOnly => TypeOK /\ NameInv /\ EngineInv)
-----------------------------------------------------------------------------
(***************************************************************************)
(* Events.                                                                 *)
(***************************************************************************)
Lists(ev, E) == ev \in Seq(Event) /\ Range(ev) = E

\* A finite set of events has an order.
LEMMA OrderLists ==
  ASSUME NEW E \in SUBSET Event, IsFiniteSet(E)
  PROVE  Lists(InSomeOrder(E), E)
<1>1. PICK n, s : n = Cardinality(E) /\ s = InSomeOrder(E)
  OBVIOUS
<1>2. n \in Nat /\ Bijection(1..n, E) # {}
  BY <1>1, FS_CardinalityType DEF ExistsBijection
<1>3. s \in Bijection(1..n, E)
  BY <1>1, <1>2 DEF InSomeOrder
<1>4. s \in [1..n -> E] /\ \A e \in E : \E i \in 1..n : s[i] = e
  BY <1>3 DEF Bijection, Injection, Surjection
<1>5. s \in Seq(Event)
  BY SMT, <1>2, <1>4
<1>6. Range(s) = E
  BY <1>4 DEF Range
<1> QED BY <1>1, <1>5, <1>6 DEF Lists

\* Events after events.
LEMMA ConcatLists ==
  ASSUME NEW s, NEW t, NEW A, NEW B, Lists(s, A), Lists(t, B)
  PROVE  Lists(s \o t, A \cup B)
<1>1. s \in Seq(Event) /\ t \in Seq(Event) /\ Range(s) = A /\ Range(t) = B
  BY DEF Lists
<1>2. s \o t \in Seq(Event)
  BY SMT, <1>1
<1>3. Range(s \o t) = Range(s) \cup Range(t)
  <2>1. /\ DOMAIN s = 1..Len(s) /\ DOMAIN t = 1..Len(t) /\ Len(s) \in Nat /\ Len(t) \in Nat
        /\ DOMAIN (s \o t) = 1..(Len(s) + Len(t))
    BY SMT, <1>1
  <2>2. ASSUME NEW e \in Range(s \o t) PROVE e \in Range(s) \cup Range(t)
    <3>1. PICK i \in 1..(Len(s) + Len(t)) : (s \o t)[i] = e
      BY <2>1, <2>2 DEF Range
    <3>2. CASE i <= Len(s)
      <4>1. i \in 1..Len(s) /\ s[i] = e
        BY SMT, <1>1, <2>1, <3>1, <3>2
      <4> QED BY <2>1, <4>1 DEF Range
    <3>3. CASE ~(i <= Len(s))
      <4>1. i - Len(s) \in 1..Len(t) /\ t[i - Len(s)] = e
        BY SMT, <1>1, <2>1, <3>1, <3>3
      <4> QED BY <2>1, <4>1 DEF Range
    <3> QED BY <3>2, <3>3
  <2>3. ASSUME NEW e \in Range(s) PROVE e \in Range(s \o t)
    <3>1. PICK i \in 1..Len(s) : s[i] = e
      BY <2>1, <2>3 DEF Range
    <3>2. i \in 1..(Len(s) + Len(t)) /\ (s \o t)[i] = e
      BY SMT, <1>1, <2>1, <3>1
    <3> QED BY <2>1, <3>2 DEF Range
  <2>4. ASSUME NEW e \in Range(t) PROVE e \in Range(s \o t)
    <3>1. PICK i \in 1..Len(t) : t[i] = e
      BY <2>1, <2>4 DEF Range
    <3>2. i + Len(s) \in 1..(Len(s) + Len(t)) /\ (s \o t)[i + Len(s)] = e
      BY SMT, <1>1, <2>1, <3>1
    <3> QED BY <2>1, <3>2 DEF Range
  <2> QED BY <2>2, <2>3, <2>4
<1> QED BY <1>1, <1>2, <1>3 DEF Lists

\* What the watches of w report of kind for named, as a set.
Reported(w, kind, named) ==
  {e \in Event : /\ e.kind = kind
                 /\ \E k \in kernel, n \in named :
                      k.ws = w /\ k.dir = n[1] /\ e.wd = k.wd /\ e.name = n[2]}

\* Report lists what is reported.
LEMMA ReportLists ==
  ASSUME EngineTypeOK, NEW w, NEW kind \in EventKind,
         NEW named \in SUBSET (Dir \X (Dir \cup Path)), IsFiniteSet(named)
  PROVE  Lists(Report(w, kind, named), Reported(w, kind, named))
<1> DEFINE X == {x \in kernel \X named : x[1].ws = w /\ x[1].dir = x[2][1]}
           E == {[wd |-> kn[1].wd, kind |-> kind, name |-> kn[2][2]] : kn \in X}
<1>1. IsFiniteSet(kernel \X named)
  BY FS_Product DEF EngineTypeOK
<1>2. IsFiniteSet(X)
  BY <1>1, FS_Subset
<1>3. IsFiniteSet(E)
  <2>1. PICK g : g = [kn \in X |-> [wd |-> kn[1].wd, kind |-> kind, name |-> kn[2][2]]]
    OBVIOUS
  <2>2. g \in Surjection(X, E)
    BY <2>1 DEF Surjection
  <2> QED BY <1>2, <2>2, FS_Surjection DEF ExistsSurjection
<1>4. E \subseteq Event
  <2> SUFFICES ASSUME NEW kn \in X
               PROVE  [wd |-> kn[1].wd, kind |-> kind, name |-> kn[2][2]] \in Event
    OBVIOUS
  <2>1. kn[1] \in kernel /\ kn[2] \in named
    <3>1. kn \in kernel \X named
      OBVIOUS
    <3> QED BY SMT, <3>1
  <2>2. kn[1].wd \in Nat /\ kn[2][2] \in Dir \cup Path
    BY SMT, <2>1 DEF EngineTypeOK, WatchRecord
  <2> QED BY <2>2 DEF Event
<1>5. E = Reported(w, kind, named)
  <2>1. ASSUME NEW kn \in X
        PROVE  [wd |-> kn[1].wd, kind |-> kind, name |-> kn[2][2]] \in Reported(w, kind, named)
    <3>1. PICK k \in kernel, n \in named : kn = <<k, n>>
      <4>1. kn \in kernel \X named
        OBVIOUS
      <4> QED BY SMT, <4>1
    <3>2. k.ws = w /\ k.dir = n[1]
      BY SMT, <3>1
    <3>3. PICK e : e = [wd |-> k.wd, kind |-> kind, name |-> n[2]]
      OBVIOUS
    <3>4. e.wd = k.wd /\ e.kind = kind /\ e.name = n[2]
      BY SMT, <3>3
    <3>5. e = [wd |-> kn[1].wd, kind |-> kind, name |-> kn[2][2]]
      BY SMT, <3>1, <3>3
    <3>6. e \in Event
      BY <1>4, <3>5
    <3> QED BY <3>2, <3>4, <3>5, <3>6 DEF Reported
  <2>2. ASSUME NEW e \in Reported(w, kind, named) PROVE e \in E
    <3>1. e \in Event /\ e.kind = kind
      BY DEF Reported
    <3>2. PICK k \in kernel, n \in named :
            k.ws = w /\ k.dir = n[1] /\ e.wd = k.wd /\ e.name = n[2]
      BY DEF Reported
    <3>3. PICK kn : kn = <<k, n>>
      OBVIOUS
    <3>4. kn \in kernel \X named /\ kn[1] = k /\ kn[2] = n
      BY SMT, <3>3
    <3>5. kn \in X
      BY <3>2, <3>4
    <3>6. e = [wd |-> kn[1].wd, kind |-> kind, name |-> kn[2][2]]
      BY SMT, <3>1, <3>2, <3>4 DEF Event
    <3> QED BY <3>5, <3>6
  <2> QED BY <2>1, <2>2
<1>6. Report(w, kind, named) = InSomeOrder(E)
  BY DEF Report
<1> QED BY <1>3, <1>4, <1>5, <1>6, OrderLists

\* The kernel has queued the events of E after those that were queued.
Adds(E) ==
  /\ queue' \in Seq(Event) /\ Len(queue) <= Len(queue')
  /\ \A i \in 1..Len(queue) : queue'[i] = queue[i]
  /\ \A i \in 1..Len(queue') : i \in 1..Len(queue) \/ queue'[i] \in E
  /\ \A e \in E : \E i \in 1..Len(queue') : i > Len(queue) /\ queue'[i] = e

\* It drops none, if the queue has not overflowed.
LEMMA PushAdds ==
  ASSUME EngineTypeOK, NEW ev, NEW E, Lists(ev, E), PushAll(ev), ~overflowed'
  PROVE  Adds(E)
<1>1. queue' = queue \o ev
  BY DEF PushAll
<1>2. queue \in Seq(Event) /\ ev \in Seq(Event) /\ Range(ev) = E
  BY DEF EngineTypeOK, Lists
<1>3. /\ Len(queue) \in Nat /\ Len(ev) \in Nat /\ Len(queue') = Len(queue) + Len(ev)
      /\ queue' \in Seq(Event)
      /\ \A i \in 1..Len(queue) : queue'[i] = queue[i]
      /\ \A i \in 1..Len(ev) : queue'[Len(queue) + i] = ev[i]
  BY SMT, <1>1, <1>2
<1>4. DOMAIN ev = 1..Len(ev)
  BY SMT, <1>2
<1>5. ASSUME NEW i \in 1..Len(queue'), i \notin 1..Len(queue) PROVE queue'[i] \in E
  <2>1. i - Len(queue) \in 1..Len(ev) /\ i = Len(queue) + (i - Len(queue))
    BY SMT, <1>3, <1>5
  <2>2. queue'[i] = ev[i - Len(queue)]
    BY <1>3, <2>1
  <2> QED BY <1>2, <1>4, <2>1, <2>2 DEF Range
<1>6. ASSUME NEW e \in E PROVE \E i \in 1..Len(queue') : i > Len(queue) /\ queue'[i] = e
  <2>1. PICK i \in 1..Len(ev) : ev[i] = e
    BY <1>2, <1>4 DEF Range
  <2>2. Len(queue) + i \in 1..Len(queue') /\ Len(queue) + i > Len(queue)
    BY SMT, <1>3
  <2> QED BY <1>3, <2>1, <2>2
<1>7. Len(queue) <= Len(queue')
  BY SMT, <1>3
<1> QED BY <1>3, <1>5, <1>6, <1>7 DEF Adds

\* A step that leaves the queue alone adds nothing.
LEMMA AddsNothing ==
  ASSUME EngineTypeOK, queue' = queue
  PROVE  Adds({})
<1>1. queue \in Seq(Event) /\ Len(queue) <= Len(queue)
  BY SMT DEF EngineTypeOK
<1> QED BY <1>1 DEF Adds

-----------------------------------------------------------------------------
(***************************************************************************)
(* What a step does to the events about a file in the root of a workspace. *)
(***************************************************************************)
\* The watches on the root of w stay, but for one that no event names yet.
RootSame(w) ==
  \A k : RootWatch(w, k) /\ k.wd < nextWd => (k \in kernel' <=> k \in kernel)

\* Then the queued events are about the same files.
LEMMA AboutSame ==
  ASSUME EventInv, NEW w, NEW p, RootSame(w), NEW i \in 1..Len(queue)
  PROVE  About(kernel', queue[i], w, p) <=> About(kernel, queue[i], w, p)
<1>1. queue[i].wd < nextWd
  BY DEF EventInv, EventOK
<1>2. \A k : RootWatch(w, k) /\ k.wd = queue[i].wd => (k \in kernel' <=> k \in kernel)
  BY <1>1 DEF RootSame
<1> QED BY <1>2 DEF About

\* Events about other files change nothing for a file that is as it was.
LEMMA StatusKept ==
  ASSUME EventInv, NEW w, NEW p, RootSame(w), NEW E, Adds(E),
         \A e \in E : ~About(kernel', e, w, p),
         disk'[w][p] = disk[w][p]
  PROVE  /\ Pending(w, p) => Pending(w, p)'
         /\ NoneAbout(w, p) => NoneAbout(w, p)'
<1>1. /\ Len(queue) <= Len(queue')
      /\ \A i \in 1..Len(queue) : queue'[i] = queue[i]
      /\ \A i \in 1..Len(queue') : i \in 1..Len(queue) \/ queue'[i] \in E
  BY DEF Adds
<1>2. ASSUME NEW i \in 1..Len(queue'), About(kernel', queue'[i], w, p)
      PROVE  i \in 1..Len(queue) /\ queue'[i] = queue[i] /\ About(kernel, queue[i], w, p)
  <2>1. i \in 1..Len(queue) /\ queue'[i] = queue[i]
    BY <1>1, <1>2
  <2> QED BY <1>2, <2>1, AboutSame
<1>3. ASSUME Pending(w, p) PROVE Pending(w, p)'
  <2>1. PICK i \in 1..Len(queue) :
          /\ About(kernel, queue[i], w, p)
          /\ \A j \in i..Len(queue) : About(kernel, queue[j], w, p) => Matches(disk, queue[j], w, p)
    BY <1>3 DEF Pending
  <2>2. About(kernel', queue'[i], w, p)
    BY <1>1, <2>1, AboutSame
  <2>3. i \in 1..Len(queue') /\ i \in Nat
    BY SMT, <1>1 DEF Adds
  <2>4. ASSUME NEW j \in i..Len(queue'), About(kernel', queue'[j], w, p)
        PROVE  Matches(disk', queue'[j], w, p)
    <3>1. j \in 1..Len(queue')
      BY SMT, <2>3 DEF Adds
    <3>2. j \in 1..Len(queue) /\ queue'[j] = queue[j] /\ About(kernel, queue[j], w, p)
      BY <1>2, <2>4, <3>1
    <3>3. j \in i..Len(queue)
      BY SMT, <2>3, <3>2
    <3>4. Matches(disk, queue[j], w, p)
      BY <2>1, <3>2, <3>3
    <3> QED BY <3>2, <3>4 DEF Matches
  <2> QED BY <2>2, <2>3, <2>4 DEF Pending
<1>4. ASSUME NoneAbout(w, p) PROVE NoneAbout(w, p)'
  BY <1>2, <1>4 DEF NoneAbout
<1> QED BY <1>3, <1>4

\* Events about the file that say what has become of it are pending.
LEMMA StatusMarked ==
  ASSUME EngineTypeOK, NEW w, NEW p, NEW E, Adds(E), NEW f \in E, About(kernel', f, w, p),
         \A e \in E : About(kernel', e, w, p) => Matches(disk', e, w, p)
  PROVE  Pending(w, p)'
<1>1. PICK i \in 1..Len(queue') : i > Len(queue) /\ queue'[i] = f
  BY DEF Adds
<1>2. ASSUME NEW j \in i..Len(queue'), About(kernel', queue'[j], w, p)
      PROVE  Matches(disk', queue'[j], w, p)
  <2>1. j \in 1..Len(queue') /\ j \notin 1..Len(queue)
    BY SMT, <1>1 DEF Adds, EngineTypeOK
  <2>2. PICK e \in E : e = queue'[j]
    BY <2>1 DEF Adds
  <2>3. Matches(disk', e, w, p)
    BY <1>2, <2>2
  <2> QED BY <2>2, <2>3 DEF Matches
<1> QED BY <1>1, <1>2 DEF Pending

\* What is left of the events about a file when the first event is taken.
LEMMA StatusTaken ==
  ASSUME EngineTypeOK, NEW w, NEW p, queue # <<>>, queue' = Tail(queue), kernel' = kernel,
         disk'[w][p] = disk[w][p]
  PROVE  /\ Pending(w, p) =>
              \/ Pending(w, p)'
              \/ /\ NoneAbout(w, p)' /\ About(kernel, Head(queue), w, p)
                 /\ Matches(disk, Head(queue), w, p)
         /\ NoneAbout(w, p) => NoneAbout(w, p)' /\ ~About(kernel, Head(queue), w, p)
<1>1. /\ Len(queue) \in Nat \ {0} /\ Len(queue') = Len(queue) - 1 /\ Head(queue) = queue[1]
      /\ \A i \in 1..Len(queue') : queue'[i] = queue[i + 1]
      /\ 1 \in 1..Len(queue)
  BY SMT DEF EngineTypeOK
<1>2. ASSUME NEW i \in 1..Len(queue')
      PROVE  i + 1 \in 1..Len(queue) /\ queue'[i] = queue[i + 1]
  BY SMT, <1>1, <1>2
<1>3. ASSUME NEW i \in 1..Len(queue), i # 1
      PROVE  i - 1 \in 1..Len(queue') /\ queue'[i - 1] = queue[i]
  BY SMT, <1>1, <1>3
<1>4. ASSUME NoneAbout(w, p)
      PROVE  NoneAbout(w, p)' /\ ~About(kernel, Head(queue), w, p)
  BY <1>1, <1>2, <1>4 DEF NoneAbout
<1>5. ASSUME NEW i \in 1..Len(queue), i # 1, About(kernel, queue[i], w, p),
             \A j \in i..Len(queue) : About(kernel, queue[j], w, p) => Matches(disk, queue[j], w, p)
      PROVE  Pending(w, p)'
  <2>1. About(kernel', queue'[i - 1], w, p)
    BY <1>3, <1>5
  <2>2. ASSUME NEW j \in (i - 1)..Len(queue'), About(kernel', queue'[j], w, p)
        PROVE  Matches(disk', queue'[j], w, p)
    <3>1. j \in 1..Len(queue') /\ j + 1 \in i..Len(queue)
      BY SMT, <1>1, <1>5
    <3>2. queue'[j] = queue[j + 1]
      BY <1>2, <3>1
    <3>3. Matches(disk, queue[j + 1], w, p)
      BY <1>5, <2>2, <3>1, <3>2
    <3> QED BY <3>2, <3>3 DEF Matches
  <2>3. i - 1 \in 1..Len(queue')
    BY <1>3, <1>5
  <2> QED BY <2>1, <2>2, <2>3 DEF Pending
<1>6. ASSUME Pending(w, p), ~Pending(w, p)'
      PROVE  /\ NoneAbout(w, p)' /\ About(kernel, Head(queue), w, p)
             /\ Matches(disk, Head(queue), w, p)
  <2>1. PICK i \in 1..Len(queue) :
          /\ About(kernel, queue[i], w, p)
          /\ \A j \in i..Len(queue) : About(kernel, queue[j], w, p) => Matches(disk, queue[j], w, p)
    BY <1>6 DEF Pending
  <2>2. i = 1
    BY <1>5, <1>6, <2>1
  <2>3. 1 \in i..Len(queue)
    BY SMT, <1>1, <2>2
  <2>4. ASSUME NEW m \in 1..Len(queue'), About(kernel', queue'[m], w, p) PROVE FALSE
    <3>1. m + 1 \in 1..Len(queue) /\ queue'[m] = queue[m + 1] /\ m + 1 # 1
      BY SMT, <1>2
    <3>2. \A j \in (m + 1)..Len(queue) : j \in i..Len(queue)
      BY SMT, <2>2
    <3> QED BY <1>5, <1>6, <2>1, <2>4, <3>1, <3>2
  <2> QED BY <1>1, <2>1, <2>2, <2>3, <2>4 DEF NoneAbout
<1> QED BY <1>4, <1>6

-----------------------------------------------------------------------------
(***************************************************************************)
(* Steps that leave a watch, an event, a workspace or a client alone.      *)
(***************************************************************************)
\* No watch is new.
LEMMA WatchKept ==
  ASSUME WatchInv, kernel' \subseteq kernel, \A k : Entry(k)' => Entry(k), nextWd' = nextWd,
         Known \subseteq Known'
  PROVE  WatchInv'
BY DEF WatchInv

\* No event is new but those of E.
QueueFrom(E) ==
  \A i \in 1..Len(queue') : queue'[i] \in E \/ \E j \in 1..Len(queue) : queue'[i] = queue[j]

\* Events stay right as long as descriptors are not used again and no workspace
\* comes back.
LEMMA EventsKept ==
  ASSUME EngineTypeOK, EventInv, NEW E, QueueFrom(E), \A e \in E : EventOK(e)',
         nextWd' \in Nat, nextWd <= nextWd',
         \A k \in kernel' : k \in kernel \/ ~(k.wd < nextWd),
         \A k : Entry(k)' => Entry(k) \/ ~(k.wd < nextWd),
         \A k : Entry(k) /\ k.ws \in live' => k.ws \in live
  PROVE  EventInv'
<1> SUFFICES ASSUME NEW i \in 1..Len(queue') PROVE EventOK(queue[i])'
  BY DEF EventInv
<1>1. PICK e : e = queue'[i]
  OBVIOUS
<1>2. EventOK(e)'
  <2>1. CASE e \in E
    BY <2>1
  <2>2. CASE e \notin E
    <3>1. PICK j \in 1..Len(queue) : e = queue[j]
      BY <1>1, <2>2 DEF QueueFrom
    <3>2. EventOK(e)
      BY <3>1 DEF EventInv
    <3>3. e.wd < nextWd'
      <4>1. e \in Event
        <5>1. queue \in Seq(Event)
          BY DEF EngineTypeOK
        <5> QED BY SMT, <3>1, <5>1
      <4>2. e.wd \in Nat
        BY SMT, <4>1 DEF Event
      <4>3. e.wd < nextWd /\ nextWd \in Nat
        BY <3>2 DEF EventOK, EngineTypeOK
      <4> QED BY SMT, <4>2, <4>3
    <3>4. \A k \in kernel' : k.wd = e.wd => k \in kernel
      BY <3>2 DEF EventOK
    <3>5. \A k : Entry(k)' /\ k.wd = e.wd => Entry(k)
      BY <3>2 DEF EventOK
    <3> QED BY <3>2, <3>3, <3>4, <3>5 DEF EventOK
  <2> QED BY <2>1, <2>2
<1> QED BY <1>1, <1>2 DEF EventOK

\* Events that are added, and an event that is taken.
LEMMA AddsFrom ==
  ASSUME NEW E, Adds(E)
  PROVE  QueueFrom(E)
BY DEF Adds, QueueFrom

\* The first event is taken.
LEMMA TakenFrom ==
  ASSUME EngineTypeOK, queue # <<>>, queue' = Tail(queue)
  PROVE  QueueFrom({}) /\ queue' \in Seq(Event)
<1>1. \A i \in 1..Len(queue') : i + 1 \in 1..Len(queue) /\ queue'[i] = queue[i + 1]
  BY SMT DEF EngineTypeOK
<1>2. queue' \in Seq(Event)
  BY SMT DEF EngineTypeOK
<1> QED BY <1>1, <1>2 DEF QueueFrom

\* The watches on the root of w stay in the kernel and in the table.
RootsKept(w) ==
  \A k : RootWatch(w, k) =>
    /\ k \in kernel' <=> k \in kernel
    /\ k \in kernel /\ k \in watches => k \in watches'
    /\ Entry(k)' => Entry(k)

\* What follows for the root of w.
LEMMA RootsFacts ==
  ASSUME NEW w, RootsKept(w)
  PROVE  RootSame(w) /\ (RootEntered(w) => RootEntered(w)')
BY DEF RootsKept, RootSame, RootEntered

\* The cover of w stays.
LEMMA CoverKept ==
  ASSUME NEW w, CoverOK(w), RootsKept(w), Root \in dirs'[w],
         Registering(w) => Registering(w)' \/ RootEntered(w),
         RootEntered(w) \/ \A p \in Path : NoneAbout(w, p) => NoneAbout(w, p)'
  PROVE  CoverOK(w)'
BY RootsFacts DEF CoverOK, RootsKept

\* A client that registers a workspace stays where it is.
LEMMA RegisterKept ==
  ASSUME NEW c \in Client, NEW w, RegisterOK(c, w), RootsKept(w), disk'[w] = disk[w],
         apc'[c] = apc[c], sdirs'[c] = sdirs[c], added'[c] = added[c],
         todo'[c] = todo[c], scan'[c] = scan[c]
  PROVE  RegisterOK(c, w)'
BY RootsFacts DEF RegisterOK, RootsKept

\* The event loop stays where it is.
LoopSame ==
  /\ apc'[Inotify] = apc[Inotify] /\ aws'[Inotify] = aws[Inotify]
  /\ aname'[Inotify] = aname[Inotify] /\ todo'[Inotify] = todo[Inotify]
  /\ scan'[Inotify] = scan[Inotify]

\* The state of a file stays.
LEMMA SyncKept ==
  ASSUME EventInv, NEW w, NEW p, SyncOK(w, p), RootSame(w), NEW E, Adds(E),
         \A e \in E : ~About(kernel', e, w, p),
         disk'[w][p] = disk[w][p], files'[w][p] = files[w][p], LoopSame
  PROVE  SyncOK(w, p)'
BY StatusKept DEF SyncOK, Settled, InHand, Reads, Applies, LoopSame

\* What a step leaves of a workspace that it does not touch.
Undisturbed(w, E) ==
  /\ Kept(w) /\ RootsKept(w)
  /\ disk'[w] = disk[w] /\ dirs'[w] = dirs[w] /\ files'[w] = files[w]
  /\ \A e \in E, p \in Path : ~About(kernel', e, w, p)

\* What a step has to show of a workspace that it touches.
Rebuilt(w) ==
  /\ ~Registering(w)
  /\ CoverOK(w)'
  /\ \A p \in Path : DirOf[p] = Root => SyncOK(w, p)'

\* Steps of requests and of other tools: no routine moves and no watch is added.
LEMMA ElsewhereStep ==
  ASSUME TypeOK, NameInv, EngineInv, EngineTypeOK',
         UNCHANGED <<apc, aws, aname, scan, todo, sdirs, added, nextWd>>,
         kernel' \subseteq kernel, watches' \subseteq watches,
         Known \subseteq Known', \A w \in Known : w \in live' => w \in live,
         NEW E, Adds(E), \A e \in E : EventOK(e)',
         \A w : Kept(w)' => Undisturbed(w, E) \/ Rebuilt(w),
         \A c \in Client :
           /\ pc[c] = "register" => pc'[c] = "register" /\ cws'[c] = cws[c]
           /\ pc'[c] = "register" => pc[c] = "register" \/ apc[c] = "idle"
           /\ pc'[c] \notin Writing
           /\ pc'[c] = "create" => disk'[cws'[c]] = ctree'[c] /\ Root \in dirs'[cws'[c]]
  PROVE  EngineInv'
<1>1. EngineTypeOK /\ ActorInv /\ WatchInv /\ EventInv /\ CoverInv /\ RegisterInv /\ LoopInv /\ SyncInv
  BY DEF EngineInv
<1>2. \A k : Entry(k)' => Entry(k)
  BY DEF Entry
<1>3. ActorInv'
  BY <1>1 DEF ActorInv
<1>4. WatchInv'
  BY <1>1, <1>2, WatchKept
<1>5. EventInv'
  <2>1. QueueFrom(E)
    BY AddsFrom
  <2>2. \A k : Entry(k) /\ k.ws \in live' => k.ws \in live
    BY <1>1 DEF WatchInv
  <2>3. nextWd' \in Nat /\ nextWd <= nextWd'
    BY SMT, <1>1 DEF EngineTypeOK
  <2> QED BY <1>1, <1>2, <2>1, <2>2, <2>3, EventsKept
<1>6. LoopSame
  BY DEF LoopSame
<1>7. ASSUME NEW w, Undisturbed(w, E)
      PROVE  CoverOK(w)' /\ \A p \in Path : DirOf[p] = Root => SyncOK(w, p)'
  <2>1. /\ w \in live /\ ~Dropping(w) /\ RootsKept(w) /\ RootSame(w)
        /\ disk'[w] = disk[w] /\ dirs'[w] = dirs[w] /\ files'[w] = files[w]
    BY <1>7, RootsFacts DEF Undisturbed, Kept
  <2>2. CoverOK(w)
    BY <1>1, <2>1 DEF CoverInv
  <2>3. Registering(w) => Registering(w)'
    BY DEF Registering
  <2>4. ASSUME NEW p \in Path PROVE NoneAbout(w, p) => NoneAbout(w, p)'
    <3>1. \A e \in E : ~About(kernel', e, w, p)
      BY <1>7 DEF Undisturbed
    <3>2. disk'[w][p] = disk[w][p]
      BY <2>1
    <3> QED BY <1>1, <2>1, <3>1, <3>2, StatusKept
  <2>5. CoverOK(w)'
    <3>1. Root \in dirs'[w]
      BY <2>1, <2>2 DEF CoverOK
    <3> QED BY <2>1, <2>2, <2>3, <2>4, <3>1, CoverKept
  <2>6. ASSUME NEW p \in Path, DirOf[p] = Root PROVE SyncOK(w, p)'
    <3>1. \A e \in E : ~About(kernel', e, w, p)
      BY <1>7 DEF Undisturbed
    <3>2. disk'[w][p] = disk[w][p] /\ files'[w][p] = files[w][p]
      BY <2>1
    <3>3. SyncOK(w, p)
      BY <1>1, <2>1, <2>6 DEF SyncInv
    <3> QED BY <1>1, <1>6, <2>1, <3>1, <3>2, <3>3, SyncKept
  <2> QED BY <2>5, <2>6
<1>8. CoverInv'
  BY <1>7 DEF CoverInv, Kept, Rebuilt
<1>9. SyncInv'
  BY <1>7 DEF SyncInv, Kept, Rebuilt
<1>10. LoopInv'
  BY <1>1, EngineAssumption DEF LoopInv, ActorInv, Actor, Engine
<1>11. ASSUME NEW c \in Client, pc'[c] = "register", Kept(cws[c])'
       PROVE  RegisterOK(c, cws[c])'
  <2>1. CASE apc[c] = "idle"
    BY <2>1 DEF RegisterOK
  <2>2. CASE apc[c] # "idle"
    <3>1. pc[c] = "register" /\ cws'[c] = cws[c]
      BY <1>11, <2>2
    <3>2. PICK w : w = cws[c]
      OBVIOUS
    <3>3. Registering(w)
      BY <3>1, <3>2 DEF Registering
    <3>4. Undisturbed(w, E)
      BY <1>11, <3>1, <3>2, <3>3 DEF Rebuilt, Kept, Dropping
    <3>5. RegisterOK(c, w)
      BY <1>1, <3>1, <3>2, <3>4 DEF RegisterInv, Undisturbed
    <3>6. RegisterOK(c, w)'
      BY <3>4, <3>5, RegisterKept DEF Undisturbed
    <3> QED BY <3>1, <3>2, <3>6 DEF RegisterOK, RootEntered, RootWatch
  <2> QED BY <2>1, <2>2
<1>12. RegisterInv'
  BY <1>11 DEF RegisterInv
<1> QED BY <1>3, <1>4, <1>5, <1>8, <1>9, <1>10, <1>12 DEF EngineInv

-----------------------------------------------------------------------------
(***************************************************************************)
(* The requests.                                                           *)
(***************************************************************************)
\* A request goes on, without an event, to a step that registers nothing.
Goes(c) ==
  \/ pc'[c] = pc[c] /\ cws'[c] = cws[c] /\ ctree'[c] = ctree[c]
  \/ /\ pc[c] \notin {"register", "unregister"}
     /\ pc[c] = "forget" => cws[c] \notin live'
     /\ pc'[c] \notin Writing /\ pc'[c] # "register"
     /\ pc'[c] = "create" => disk'[cws'[c]] = ctree'[c] /\ Root \in dirs'[cws'[c]]

\* Steps of the store that the engine does not see.
LEMMA StoreStep ==
  ASSUME TypeOK, NameInv, EngineInv,
         UNCHANGED <<kernel, nextWd, queue, watches, actorVars, horizon>>,
         live' \subseteq live, Known \subseteq Known',
         \A w \in used : disk'[w] = disk[w] /\ dirs'[w] = dirs[w],
         \A w \in live' : files'[w] = files[w],
         \A c \in Client : Goes(c)
  PROVE  EngineInv'
<1>1. EngineTypeOK /\ ActorInv
  BY DEF EngineInv
<1>2. UNCHANGED <<apc, aws, aname, scan, todo, gone, sdirs, added, rest, kernel, nextWd, watches>>
  BY DEF actorVars
<1>3. EngineTypeOK'
  BY <1>1, <1>2 DEF EngineTypeOK
<1>4. Adds({})
  BY <1>1, AddsNothing
<1>5. ASSUME NEW w, Kept(w)' PROVE Undisturbed(w, {})
  <2>1. w \in live' /\ w \in live /\ w \in used
    BY <1>5 DEF Kept, TypeOK
  <2>2. ~Dropping(w)
    BY <1>5, <2>1 DEF Kept, Dropping, Goes
  <2>3. RootsKept(w)
    BY <1>2 DEF RootsKept, Entry
  <2> QED BY <2>1, <2>2, <2>3 DEF Undisturbed, Kept
<1>6. ASSUME NEW c \in Client
      PROVE  /\ pc[c] = "register" => pc'[c] = "register" /\ cws'[c] = cws[c]
             /\ pc'[c] = "register" => pc[c] = "register" \/ apc[c] = "idle"
             /\ pc'[c] \notin Writing
             /\ pc'[c] = "create" => disk'[cws'[c]] = ctree'[c] /\ Root \in dirs'[cws'[c]]
  <2>1. Goes(c)
    OBVIOUS
  <2>2. pc[c] = "create" => cws[c] \in used /\ disk[cws[c]] = ctree[c] /\ Root \in dirs[cws[c]]
    BY <1>1 DEF ActorInv, NameInv
  <2>3. pc[c] \notin Writing
    BY <1>1 DEF ActorInv
  <2> QED BY <2>1, <2>2, <2>3 DEF Goes
<1>7. \A w \in Known : w \in live' => w \in live
  OBVIOUS
<1>8. \A e \in {} : EventOK(e)'
  OBVIOUS
<1> QED BY <1>2, <1>3, <1>4, <1>5, <1>6, <1>7, <1>8, ElsewhereStep

\* create up to the insertion into the map.
LEMMA CreateSteps ==
  ASSUME TypeOK, NameInv, EngineInv,
         UNCHANGED <<kernel, nextWd, queue, watches, actorVars, horizon>>,
         NEW c \in Client, NEW w \in Workspace, NEW b \in 0..Len(odb),
         CreateProject(c, w, b) \/ \E left \in [Path -> Value] : CreateFails(c, w, b, left)
  PROVE  EngineInv'
<1>1. CASE CreateProject(c, w, b)
  <2>1. /\ pc[c] = "idle" /\ w \notin used
        /\ live' = live /\ files' = files /\ UNCHANGED history
        /\ dirs' = [dirs EXCEPT ![w] = DirsFor(BaseTree(b))]
        /\ disk' = [disk EXCEPT ![w] = BaseTree(b)]
        /\ cws' = [cws EXCEPT ![c] = w] /\ ctree' = [ctree EXCEPT ![c] = BaseTree(b)]
        /\ pc' = [pc EXCEPT ![c] = "create"]
    BY <1>1 DEF CreateProject, Project, Goto
  <2>2. \A v \in used : disk'[v] = disk[v] /\ dirs'[v] = dirs[v]
    BY <2>1 DEF TypeOK
  <2>3. pc'[c] = "create" /\ cws'[c] = w /\ disk'[w] = ctree'[c] /\ Root \in dirs'[w]
    BY <2>1 DEF TypeOK, DirsFor
  <2>4. Goes(c)
    BY <2>1, <2>3 DEF Goes, Writing
  <2>5. \A d \in Client : Goes(d)
    BY <2>1, <2>4 DEF Goes, TypeOK
  <2>6. Known' = Known
    BY <2>1 DEF Known, history
  <2> QED BY <2>1, <2>2, <2>5, <2>6, StoreStep
<1>2. CASE \E left \in [Path -> Value] : CreateFails(c, w, b, left)
  <2>1. PICK left \in [Path -> Value] : CreateFails(c, w, b, left)
    BY <1>2
  <2>2. /\ w \notin used
        /\ live' = live /\ files' = files /\ UNCHANGED history
        /\ dirs' = [dirs EXCEPT ![w] = DirsFor(left)]
        /\ disk' = [disk EXCEPT ![w] = left]
        /\ cws' = cws /\ ctree' = ctree /\ pc' = pc
    BY <2>1 DEF CreateFails, Project, reqVars
  <2>3. \A v \in used : disk'[v] = disk[v] /\ dirs'[v] = dirs[v]
    BY <2>2 DEF TypeOK
  <2>4. \A d \in Client : Goes(d)
    BY <2>2 DEF Goes
  <2>5. Known' = Known
    BY <2>2 DEF Known, history
  <2> QED BY <2>2, <2>3, <2>4, <2>5, StoreStep
<1> QED BY <1>1, <1>2

\* commit.
LEMMA CommitSteps ==
  ASSUME TypeOK, NameInv, EngineInv,
         UNCHANGED <<kernel, nextWd, queue, watches, actorVars, horizon>>,
         NEW c \in Client, CommitStep(c)
  PROVE  EngineInv'
<1>1. /\ live' = live /\ files' = files /\ UNCHANGED <<dirs, disk, dropped, old>>
      /\ pc[c] \in {"idle", "read", "commit", "advance"}
      /\ pc'[c] \in {"idle", "read", "commit", "advance"}
      /\ \A d \in Client : d # c => pc'[d] = pc[d] /\ cws'[d] = cws[d] /\ ctree'[d] = ctree[d]
  <2>1. CASE \E w \in Workspace : CommitLock(c, w)
    BY <2>1 DEF CommitLock, Goto, diskVars, history, TypeOK
  <2>2. CASE CommitRead(c)
    BY <2>2 DEF CommitRead, Goto, memVars, diskVars, history, TypeOK
  <2>3. CASE CommitRefused(c)
    BY <2>3 DEF CommitRefused, Goto, diskVars, reqVars, history, TypeOK
  <2>4. CASE CommitObject(c)
    BY <2>4 DEF CommitObject, Goto, memVars, diskVars, history, TypeOK
  <2>5. CASE CommitAdvance(c)
    BY <2>5 DEF CommitAdvance, Goto, diskVars, reqVars, history, TypeOK
  <2>6. CASE CommitFails(c)
    BY <2>6 DEF CommitFails, Goto, diskVars, reqVars, history, TypeOK
  <2> QED BY <2>1, <2>2, <2>3, <2>4, <2>5, <2>6 DEF CommitStep
<1>2. \A d \in Client : Goes(d)
  BY <1>1 DEF Goes, Writing
<1>3. Known' = Known
  BY <1>1 DEF Known
<1> QED BY <1>1, <1>2, <1>3, StoreStep

\* drop_workspace up to the removal from the map.
LEMMA DropSteps ==
  ASSUME TypeOK, NameInv, EngineInv,
         UNCHANGED <<kernel, nextWd, queue, watches, actorVars, horizon>>,
         NEW c \in Client, DropForget(c) \/ \E w \in Workspace : DropBegin(c, w)
  PROVE  EngineInv'
<1>1. ASSUME NEW w \in Workspace, DropBegin(c, w) PROVE EngineInv'
  <2>1. /\ pc[c] = "idle" /\ pc'[c] = "unregister"
        /\ live' = live /\ files' = files /\ UNCHANGED <<dirs, disk, dropped, old>>
        /\ \A d \in Client : d # c => pc'[d] = pc[d] /\ cws'[d] = cws[d] /\ ctree'[d] = ctree[d]
    BY <1>1, EngineAssumption DEF DropBegin, Goto, memVars, diskVars, history, TypeOK
  <2>2. \A d \in Client : Goes(d)
    BY <2>1 DEF Goes, Writing
  <2>3. Known' = Known
    BY <2>1 DEF Known
  <2> QED BY <2>1, <2>2, <2>3, StoreStep
<1>2. CASE DropForget(c)
  <2>1. /\ pc[c] = "forget" /\ pc'[c] = "unlink"
        /\ live' = live \ {cws[c]} /\ files' = [files EXCEPT ![cws[c]] = NoFiles]
        /\ UNCHANGED <<dirs, disk, old>> /\ dropped' = dropped \cup {cws[c]}
        /\ \A d \in Client : d # c => pc'[d] = pc[d] /\ cws'[d] = cws[d] /\ ctree'[d] = ctree[d]
    BY <1>2 DEF DropForget, Goto, diskVars, reqVars, TypeOK
  <2>2. \A d \in Client : Goes(d)
    BY <2>1 DEF Goes, Writing
  <2>3. Known \subseteq Known' /\ live' \subseteq live
    BY <2>1 DEF Known
  <2>4. \A w \in live' : files'[w] = files[w]
    BY <2>1, <2>3 DEF TypeOK
  <2> QED BY <2>1, <2>2, <2>3, <2>4, StoreStep
<1> QED BY <1>1, <1>2

\* No request moves: a request that only looks, the event loop stops, a stutter.
LEMMA SameStep ==
  ASSUME TypeOK, NameInv, EngineInv,
         UNCHANGED <<kernel, nextWd, queue, watches, actorVars, horizon>>,
         UNCHANGED <<live, files, dirs, disk, dropped, old, pc, cws, ctree>>
  PROVE  EngineInv'
<1>1. \A d \in Client : Goes(d)
  BY DEF Goes
<1>2. Known' = Known
  BY DEF Known
<1> QED BY <1>1, <1>2, StoreStep

\* The workspace enters the map, as it is projected.
LEMMA InsertStep ==
  ASSUME TypeOK, NameInv, EngineInv,
         UNCHANGED <<kernel, nextWd, queue, watches, actorVars, horizon>>,
         NEW c \in Client, CreateInsert(c)
  PROVE  EngineInv'
<1>1. EngineTypeOK /\ ActorInv /\ WatchInv
  BY DEF EngineInv
<1>2. UNCHANGED <<apc, aws, aname, scan, todo, gone, sdirs, added, rest, kernel, nextWd, watches>>
  BY DEF actorVars
<1>3. EngineTypeOK'
  BY <1>1, <1>2 DEF EngineTypeOK
<1>4. Adds({})
  BY <1>1, AddsNothing
<1>5. PICK w : w = cws[c]
  OBVIOUS
<1>6. /\ pc[c] = "create" /\ live' = live \cup {w} /\ pc'[c] = "register"
      /\ files' = [files EXCEPT ![w] = ctree[c]]
      /\ \A d \in Client : d # c => pc'[d] = pc[d]
      /\ UNCHANGED <<dirs, disk, cws, ctree, dropped, old>>
  BY <1>5, EngineAssumption DEF CreateInsert, Goto, diskVars, reqVars, history, TypeOK
<1>7. w \in Workspace /\ w \notin Known
  BY <1>5, <1>6 DEF NameInv, TypeOK
<1>8. disk[w] = ctree[c] /\ Root \in dirs[w] /\ files'[w] = disk'[w]
  BY <1>1, <1>5, <1>6, <1>7 DEF ActorInv, TypeOK
<1>9. \A k : Entry(k)' => k.ws # w
  BY <1>1, <1>2, <1>7 DEF WatchInv, Entry
<1>10. apc[Inotify] = "idle" \/ aws[Inotify] # w
  BY <1>1, <1>7 DEF ActorInv, Actor, Engine
<1>11. \A p : NoneAbout(w, p)'
  BY <1>9 DEF NoneAbout, About, RootWatch, Entry
<1>12. Rebuilt(w)
  <2>1. ~Registering(w)
    BY <1>7 DEF Registering, NameInv
  <2>2. Registering(w)'
    BY <1>5, <1>6 DEF Registering
  <2>3. CoverOK(w)'
    BY <1>6, <1>8, <1>9, <1>11, <2>2 DEF CoverOK, RootWatch
  <2>4. ASSUME NEW p \in Path PROVE SyncOK(w, p)'
    BY <1>2, <1>8, <1>10, <1>11 DEF SyncOK, Settled, InHand, Reads, Applies
  <2> QED BY <2>1, <2>3, <2>4 DEF Rebuilt
<1>13. ASSUME NEW v, Kept(v)', v # w PROVE Undisturbed(v, {})
  <2>1. v \in live /\ v \in Workspace
    BY <1>6, <1>13 DEF Kept, TypeOK
  <2>2. ~Dropping(v)
    BY <1>6, <1>13 DEF Kept, Dropping
  <2>3. RootsKept(v)
    BY <1>2 DEF RootsKept, Entry
  <2>4. files'[v] = files[v]
    BY <1>6, <1>13, <2>1 DEF TypeOK
  <2> QED BY <1>6, <2>1, <2>2, <2>3, <2>4 DEF Undisturbed, Kept
<1>14. ASSUME NEW d \in Client
      PROVE  /\ pc[d] = "register" => pc'[d] = "register" /\ cws'[d] = cws[d]
             /\ pc'[d] = "register" => pc[d] = "register" \/ apc[d] = "idle"
             /\ pc'[d] \notin Writing
             /\ pc'[d] = "create" => disk'[cws'[d]] = ctree'[d] /\ Root \in dirs'[cws'[d]]
  <2>1. pc'[c] \notin Writing /\ pc[d] \notin Writing
    BY <1>1, <1>6 DEF ActorInv, Writing
  <2> QED BY <1>1, <1>6, <2>1 DEF ActorInv
<1>15. Known \subseteq Known' /\ \A v \in Known : v \in live' => v \in live
  BY <1>6, <1>7 DEF Known
<1>16. \A e \in {} : EventOK(e)'
  OBVIOUS
<1> QED BY <1>2, <1>3, <1>4, <1>12, <1>13, <1>14, <1>15, <1>16, ElsewhereStep

\* Event e of kind is what one watch of w, and only this, says of named.
From(e, w, kind, named) ==
  \E k \in kernel, n \in named :
    /\ k.ws = w /\ k.dir = n[1] /\ e.name = n[2] /\ e.kind = kind
    /\ e.wd = k.wd /\ e.wd < nextWd
    /\ \A l : Entry(l) /\ l.wd = e.wd => l = k

\* What is reported comes from one watch.
LEMMA ReportedFrom ==
  ASSUME WatchInv, NEW w, NEW kind, NEW named, NEW e \in Reported(w, kind, named)
  PROVE  From(e, w, kind, named)
<1>1. PICK k \in kernel, n \in named :
        e.kind = kind /\ k.ws = w /\ k.dir = n[1] /\ e.wd = k.wd /\ e.name = n[2]
  BY DEF Reported
<1>2. Entry(k)
  BY DEF Entry
<1>3. e.wd < nextWd /\ \A l : Entry(l) /\ l.wd = e.wd => l = k
  BY <1>1, <1>2 DEF WatchInv
<1> QED BY <1>1, <1>3 DEF From

\* Names are finitely many.
LEMMA NamedFinite ==
  ASSUME NEW named \in SUBSET (Dir \X (Dir \cup Path))
  PROVE  IsFiniteSet(named)
<1>1. IsFiniteSet(Dir)
  BY FiniteAssumption, FS_Singleton, FS_Union DEF Dir
<1>2. IsFiniteSet(Dir \cup Path)
  BY <1>1, FiniteAssumption, FS_Union
<1> QED BY <1>1, <1>2, FS_Product, FS_Subset

Removed(w, paths, ds) ==
  Reported(w, "delete", {<<DirOf[p], p>> : p \in paths})
    \cup Reported(w, "self", {<<d, d>> : d \in ds})
    \cup Reported(w, "ignored", {<<d, d>> : d \in ds})
    \cup Reported(w, "deldir", {<<Root, d>> : d \in ds \ {Root}})

\* RemovalEvents lists what a removal reports.
LEMMA RemovalLists ==
  ASSUME EngineTypeOK, NEW w, NEW paths \in SUBSET Path, NEW ds \in SUBSET Dir
  PROVE  Lists(RemovalEvents(w, paths, ds), Removed(w, paths, ds))
<1> DEFINE A == {<<DirOf[p], p>> : p \in paths}
           B == {<<d, d>> : d \in ds}
           C == {<<Root, d>> : d \in ds \ {Root}}
<1>1. A \in SUBSET (Dir \X (Dir \cup Path))
  BY SMT, DirAssumption
<1>2. B \in SUBSET (Dir \X (Dir \cup Path))
  BY SMT
<1>3. C \in SUBSET (Dir \X (Dir \cup Path))
  BY SMT DEF Dir
<1>4. {"delete", "self", "ignored", "deldir"} \subseteq EventKind
  BY DEF EventKind
<1> HIDE DEF A, B, C
<1>5. Lists(Report(w, "delete", A), Reported(w, "delete", A))
  BY <1>1, <1>4, NamedFinite, ReportLists
<1>6. Lists(Report(w, "self", B), Reported(w, "self", B))
  BY <1>2, <1>4, NamedFinite, ReportLists
<1>7. Lists(Report(w, "ignored", B), Reported(w, "ignored", B))
  BY <1>2, <1>4, NamedFinite, ReportLists
<1>8. Lists(Report(w, "deldir", C), Reported(w, "deldir", C))
  BY <1>3, <1>4, NamedFinite, ReportLists
<1>9. Lists(Report(w, "delete", A) \o Report(w, "self", B) \o Report(w, "ignored", B) \o Report(w, "deldir", C),
            Reported(w, "delete", A) \cup Reported(w, "self", B) \cup Reported(w, "ignored", B)
              \cup Reported(w, "deldir", C))
  BY <1>5, <1>6, <1>7, <1>8, ConcatLists
<1> QED BY <1>9 DEF RemovalEvents, Removed, A, B, C

\* E is what the kernel adds when paths, and perhaps directories, leave w.
Reports(E, w, paths) ==
  /\ Adds(E)
  /\ \A e \in E : EventOK(e)'
  /\ \A e \in E : \A v, q :
       About(kernel', e, v, q) => v = w /\ q \in paths /\ DirOf[q] = Root /\ e.kind = "delete"

\* The events of a removal.
LEMMA VanishFacts ==
  ASSUME EngineTypeOK, WatchInv, NEW w, NEW paths \in SUBSET Path, NEW ds \in SUBSET Dir,
         Vanish(w, paths, ds), ~overflowed', \A k : Entry(k)' => Entry(k),
         Root \in ds => w \notin live'
  PROVE  Reports(Removed(w, paths, ds), w, paths)
<1>1. Adds(Removed(w, paths, ds))
  BY RemovalLists, PushAdds DEF Vanish
<1>2. kernel' = {k \in kernel : ~(k.ws = w /\ k.dir \in ds)} /\ nextWd' = nextWd
  BY DEF Vanish
<1>3. ASSUME NEW e \in Removed(w, paths, ds)
      PROVE  /\ EventOK(e)'
             /\ \A v, q : About(kernel', e, v, q) =>
                  v = w /\ q \in paths /\ DirOf[q] = Root /\ e.kind = "delete"
  <2>1. CASE e \in Reported(w, "delete", {<<DirOf[p], p>> : p \in paths})
    <3>1. PICK named : named = {<<DirOf[p], p>> : p \in paths}
      OBVIOUS
    <3>2. PICK k \in kernel, n \in named :
            /\ k.ws = w /\ k.dir = n[1] /\ e.name = n[2] /\ e.kind = "delete"
            /\ e.wd = k.wd /\ e.wd < nextWd
            /\ \A l : Entry(l) /\ l.wd = e.wd => l = k
      <4>1. From(e, w, "delete", named)
        BY <2>1, <3>1, ReportedFrom
      <4> QED BY <4>1 DEF From
    <3>3. PICK p \in paths : n = <<DirOf[p], p>>
      BY <3>1
    <3>4. n[1] = DirOf[p] /\ n[2] = p
      BY SMT, <3>3
    <3>5. e.name = p /\ k.dir = DirOf[p]
      BY <3>2, <3>4
    <3>6. e.name \in Path
      BY <3>5
    <3>7. EventOK(e)'
      BY <1>2, <3>2, <3>5, <3>6 DEF EventOK
    <3>8. ASSUME NEW v, NEW q, About(kernel', e, v, q)
          PROVE  v = w /\ q \in paths /\ DirOf[q] = Root /\ e.kind = "delete"
      <4>1. PICK l \in kernel' : l.wd = e.wd /\ RootWatch(v, l) /\ e.name = q
        BY <3>8 DEF About
      <4>2. l = k
        BY <3>2, <4>1 DEF Entry
      <4> QED BY <3>2, <3>5, <4>1, <4>2 DEF RootWatch
    <3> QED BY <3>7, <3>8
  <2>2. CASE e \in Reported(w, "self", {<<d, d>> : d \in ds})
    <3>1. PICK named : named = {<<d, d>> : d \in ds}
      OBVIOUS
    <3>2. PICK k \in kernel, n \in named :
            /\ k.ws = w /\ k.dir = n[1] /\ e.name = n[2] /\ e.kind = "self"
            /\ e.wd = k.wd /\ e.wd < nextWd
            /\ \A l : Entry(l) /\ l.wd = e.wd => l = k
      <4>1. From(e, w, "self", named)
        BY <2>2, <3>1, ReportedFrom
      <4> QED BY <4>1 DEF From
    <3>3. PICK d \in ds : n = <<d, d>>
      BY <3>1
    <3>4. n[1] = d /\ n[2] = d
      BY SMT, <3>3
    <3>5. e.name = d /\ d \in Dir
      BY <3>2, <3>4
    <3>6. EventOK(e)'
      BY <1>2, <3>2, <3>5 DEF EventOK
    <3> QED BY <3>2, <3>6 DEF About
  <2>3. CASE e \in Reported(w, "ignored", {<<d, d>> : d \in ds})
    <3>1. PICK named : named = {<<d, d>> : d \in ds}
      OBVIOUS
    <3>2. PICK k \in kernel, n \in named :
            /\ k.ws = w /\ k.dir = n[1] /\ e.name = n[2] /\ e.kind = "ignored"
            /\ e.wd = k.wd /\ e.wd < nextWd
            /\ \A l : Entry(l) /\ l.wd = e.wd => l = k
      <4>1. From(e, w, "ignored", named)
        BY <2>3, <3>1, ReportedFrom
      <4> QED BY <4>1 DEF From
    <3>3. PICK d \in ds : n = <<d, d>>
      BY <3>1
    <3>4. n[1] = d
      BY SMT, <3>3
    <3>5. k \notin kernel'
      BY <1>2, <3>2, <3>4
    <3>6. \A l \in kernel' : l.wd # e.wd
      BY <3>2, <3>5 DEF Entry
    <3>7. EventOK(e)'
      BY <1>2, <3>2, <3>6 DEF EventOK
    <3> QED BY <3>2, <3>7 DEF About
  <2>4. CASE e \in Reported(w, "deldir", {<<Root, d>> : d \in ds \ {Root}})
    <3>1. PICK named : named = {<<Root, d>> : d \in ds \ {Root}}
      OBVIOUS
    <3>2. PICK k \in kernel, n \in named :
            /\ e.name = n[2] /\ e.kind = "deldir" /\ e.wd < nextWd
      <4>1. From(e, w, "deldir", named)
        BY <2>4, <3>1, ReportedFrom
      <4> QED BY <4>1 DEF From
    <3>3. PICK d \in ds \ {Root} : n = <<Root, d>>
      BY <3>1
    <3>4. n[2] = d
      BY SMT, <3>3
    <3>5. e.name \in Dir /\ e.name # Root
      BY <3>2, <3>4
    <3>6. EventOK(e)'
      BY <1>2, <3>2, <3>5 DEF EventOK
    <3> QED BY <3>2, <3>6 DEF About
  <2> QED BY <2>1, <2>2, <2>3, <2>4 DEF Removed
<1> QED BY <1>1, <1>3 DEF Reports

\* The types, after a step that moves no routine.
LEMMA SameTypes ==
  ASSUME EngineTypeOK, NEW E, Adds(E), kernel' \subseteq kernel, watches' \subseteq watches,
         UNCHANGED <<nextWd, actorVars, horizon>>
  PROVE  EngineTypeOK'
<1>1. UNCHANGED <<apc, aws, aname, scan, todo, gone, sdirs, added, rest>>
  BY DEF actorVars
<1>2. kernel' \subseteq WatchRecord /\ watches' \subseteq WatchRecord
  BY DEF EngineTypeOK
<1>3. IsFiniteSet(kernel')
  BY FS_Subset DEF EngineTypeOK
<1> QED BY <1>1, <1>2, <1>3 DEF EngineTypeOK, Adds

\* remove_dir_all takes what is left of a dropped workspace.
LEMMA GoneStep ==
  ASSUME TypeOK, NameInv, EngineInv, ~overflowed',
         NEW c \in Client, NEW w, w = cws[c], pc[c] \in {"unlink", "rmdir"},
         pc'[c] \in {"rmdir", "idle"}, \A d \in Client : d # c => pc'[d] = pc[d],
         UNCHANGED <<live, files, cws, ctree, dropped, old, watches, actorVars, horizon>>,
         \A v \in Workspace : v # w => disk'[v] = disk[v] /\ dirs'[v] = dirs[v],
         NEW paths \in SUBSET Path, NEW ds \in SUBSET Dir, Vanish(w, paths, ds)
  PROVE  EngineInv'
<1>1. EngineTypeOK /\ ActorInv /\ WatchInv
  BY DEF EngineInv
<1>2. UNCHANGED <<apc, aws, aname, scan, todo, sdirs, added>>
  BY DEF actorVars
<1>3. /\ kernel' = {k \in kernel : ~(k.ws = w /\ k.dir \in ds)} /\ kernel' \subseteq kernel
      /\ nextWd' = nextWd
  BY DEF Vanish
<1>4. w \in dropped /\ w \notin live' /\ w \in Known
  BY DEF NameInv, Known
<1>5. \A k : Entry(k)' => Entry(k)
  BY <1>2, <1>3 DEF Entry
<1>6. PICK E : E = Removed(w, paths, ds)
  OBVIOUS
<1>7. /\ Adds(E) /\ \A e \in E : EventOK(e)'
      /\ \A e \in E : \A v, q : About(kernel', e, v, q) => v = w
  <2>1. Reports(E, w, paths)
    BY <1>1, <1>4, <1>5, <1>6, VanishFacts
  <2> QED BY <2>1 DEF Reports
<1>8. EngineTypeOK'
  BY <1>1, <1>3, <1>7, SameTypes
<1>9. ASSUME NEW v, Kept(v)' PROVE Undisturbed(v, E)
  <2>1. v \in live /\ v \in Workspace /\ v # w
    BY <1>4, <1>9 DEF Kept, TypeOK
  <2>2. ~Dropping(v)
    BY <1>9 DEF Kept, Dropping
  <2>3. RootsKept(v)
    BY <1>3, <1>5, <2>1 DEF RootsKept, RootWatch
  <2>4. \A e \in E, p \in Path : ~About(kernel', e, v, p)
    BY <1>7, <2>1
  <2> QED BY <2>1, <2>2, <2>3, <2>4 DEF Undisturbed, Kept
<1>10. ASSUME NEW d \in Client
       PROVE  /\ pc[d] = "register" => pc'[d] = "register" /\ cws'[d] = cws[d]
              /\ pc'[d] = "register" => pc[d] = "register" \/ apc[d] = "idle"
              /\ pc'[d] \notin Writing
              /\ pc'[d] = "create" => disk'[cws'[d]] = ctree'[d] /\ Root \in dirs'[cws'[d]]
  <2>1. pc'[c] \notin Writing /\ pc[d] \notin Writing
    BY <1>1 DEF ActorInv, Writing
  <2>2. pc[d] = "create" => cws[d] \in Workspace /\ cws[d] # w
    BY <1>4 DEF NameInv, TypeOK
  <2>3. pc[d] = "create" => disk[cws[d]] = ctree[d] /\ Root \in dirs[cws[d]]
    BY <1>1 DEF ActorInv
  <2> QED BY <2>1, <2>2, <2>3
<1>11. Known' = Known
  BY DEF Known
<1> QED BY <1>2, <1>3, <1>7, <1>8, <1>9, <1>10, <1>11, ElsewhereStep

\* remove_dir_all.
LEMMA RemoveDirSteps ==
  ASSUME TypeOK, NameInv, EngineInv, ~overflowed', UNCHANGED <<watches, actorVars, horizon>>,
         NEW c \in Client,
         \/ DropUnlink(c) \/ DropRmdir(c)
         \/ \E kept \in SUBSET (SubDir \cup Path) : DropUnlinkFails(c, kept),
         Vanish(cws[c], Unlinked(cws[c]), dirs[cws[c]] \ dirs'[cws[c]])
  PROVE  EngineInv'
<1>1. PICK w : w = cws[c]
  OBVIOUS
<1>2. dirs[w] \subseteq Dir /\ Unlinked(w) \subseteq Path /\ w \in Workspace
  BY <1>1 DEF TypeOK, Present, Unlinked
<1>3. PICK paths, ds : paths = Unlinked(w) /\ ds = dirs[w] \ dirs'[w]
  OBVIOUS
<1>4. paths \in SUBSET Path /\ ds \in SUBSET Dir /\ Vanish(w, paths, ds)
  BY <1>1, <1>2, <1>3
<1>5. CASE DropUnlink(c)
  <2>1. /\ pc[c] = "unlink" /\ pc'[c] = "rmdir" /\ \A d \in Client : d # c => pc'[d] = pc[d]
        /\ UNCHANGED <<live, files, cws, ctree, dropped, old>>
        /\ disk' = [disk EXCEPT ![w] = NoFiles] /\ dirs' = [dirs EXCEPT ![w] = @ \cap {Root}]
    BY <1>1, <1>5 DEF DropUnlink, Goto, memVars, reqVars, history, TypeOK
  <2>2. \A v \in Workspace : v # w => disk'[v] = disk[v] /\ dirs'[v] = dirs[v]
    BY <2>1 DEF TypeOK
  <2> QED BY <1>1, <1>4, <2>1, <2>2, GoneStep
<1>6. CASE DropRmdir(c)
  <2>1. /\ pc[c] = "rmdir" /\ pc'[c] = "idle" /\ \A d \in Client : d # c => pc'[d] = pc[d]
        /\ UNCHANGED <<live, files, cws, ctree, dropped, old>>
        /\ disk' = disk /\ dirs' \in {dirs, [dirs EXCEPT ![w] = {}]}
    BY <1>1, <1>6 DEF DropRmdir, Goto, memVars, reqVars, history, TypeOK
  <2>2. \A v \in Workspace : v # w => disk'[v] = disk[v] /\ dirs'[v] = dirs[v]
    BY <2>1 DEF TypeOK
  <2> QED BY <1>1, <1>4, <2>1, <2>2, GoneStep
<1>7. ASSUME NEW kept, DropUnlinkFails(c, kept)
      PROVE  EngineInv'
  <2>1. /\ pc[c] = "unlink" /\ pc'[c] = "idle" /\ \A d \in Client : d # c => pc'[d] = pc[d]
        /\ UNCHANGED <<live, files, cws, ctree, dropped, old>>
        /\ disk' = [disk EXCEPT ![w] = FilesLeft(w, kept)]
        /\ dirs' = [dirs EXCEPT ![w] = DirsLeft(w, kept)]
    BY <1>1, <1>7 DEF DropUnlinkFails, Goto, memVars, reqVars, history, TypeOK
  <2>2. \A v \in Workspace : v # w => disk'[v] = disk[v] /\ dirs'[v] = dirs[v]
    BY <2>1 DEF TypeOK
  <2> QED BY <1>1, <1>4, <2>1, <2>2, GoneStep
<1> QED BY <1>5, <1>6, <1>7

\* Watches that are removed are reported as ignored.
LEMMA RemoveFacts ==
  ASSUME EngineTypeOK, WatchInv, NEW stale, RemoveWatches(stale), ~overflowed', added' = added
  PROVE  \E E : /\ Adds(E)
                /\ \A e \in E : EventOK(e)'
                /\ \A e \in E : e.kind = "ignored"
<1> DEFINE X == stale \cap kernel
           E == {[wd |-> k.wd, kind |-> "ignored", name |-> Root] : k \in X}
<1>1. /\ kernel' = kernel \ stale /\ PushAll(InSomeOrder(E)) /\ watches' = watches \ stale
      /\ nextWd' = nextWd
  BY DEF RemoveWatches
<1>2. IsFiniteSet(E)
  <2>1. PICK g : g = [k \in X |-> [wd |-> k.wd, kind |-> "ignored", name |-> Root]]
    OBVIOUS
  <2>2. g \in Surjection(X, E)
    BY <2>1 DEF Surjection
  <2>3. IsFiniteSet(X)
    BY FS_Subset DEF EngineTypeOK
  <2> QED BY <2>2, <2>3, FS_Surjection DEF ExistsSurjection
<1>3. E \in SUBSET Event
  <2>1. \A k \in X : k.wd \in Nat
    BY SMT DEF EngineTypeOK, WatchRecord
  <2>2. "ignored" \in EventKind /\ Root \in Dir \cup Path
    BY DEF EventKind, Dir
  <2>3. \A k \in X : [wd |-> k.wd, kind |-> "ignored", name |-> Root] \in Event
    BY SMT, <2>1, <2>2 DEF Event
  <2> QED BY <2>3
<1>4. Lists(InSomeOrder(E), E)
  BY <1>2, <1>3, OrderLists
<1>5. ASSUME NEW e \in E PROVE EventOK(e)' /\ e.kind = "ignored"
  <2>1. PICK k \in X : e = [wd |-> k.wd, kind |-> "ignored", name |-> Root]
    OBVIOUS
  <2>2. e.wd = k.wd /\ e.kind = "ignored"
    BY SMT, <2>1
  <2>3. Entry(k) /\ k \in stale
    BY DEF Entry
  <2>4. e.wd < nextWd'
    BY <1>1, <2>2, <2>3 DEF WatchInv
  <2>5. \A l \in kernel' : l.wd # e.wd
    BY <1>1, <2>2, <2>3 DEF WatchInv, Entry
  <2> QED BY <2>2, <2>4, <2>5 DEF EventOK
<1> HIDE DEF E
<1>6. Adds(E)
  BY <1>1, <1>4, PushAdds
<1> QED BY <1>5, <1>6

\* unregister_workspace.
LEMMA UnregisterStep ==
  ASSUME TypeOK, NameInv, EngineInv, ~overflowed', NEW c \in Client, Unregister(c)
  PROVE  EngineInv'
<1>1. EngineTypeOK /\ ActorInv /\ WatchInv
  BY DEF EngineInv
<1>2. UNCHANGED <<apc, aws, aname, scan, todo, sdirs, added, actorVars, horizon>>
  BY DEF Unregister, actorVars, editVars
<1>3. PICK w, stale : w = cws[c] /\ stale = EntriesUnder(w, Root)
  OBVIOUS
<1>4. /\ RemoveWatches(stale) /\ pc[c] = "unregister" /\ pc'[c] = "forget"
      /\ \A d \in Client : d # c => pc'[d] = pc[d]
      /\ UNCHANGED <<live, files, dirs, disk, cws, ctree, dropped, old>>
  BY <1>3 DEF Unregister, Goto, memVars, diskVars, reqVars, history, TypeOK
<1>5. /\ kernel' = kernel \ stale /\ watches' = watches \ stale /\ nextWd' = nextWd
      /\ kernel' \subseteq kernel /\ watches' \subseteq watches
  BY <1>4 DEF RemoveWatches
<1>6. PICK E : /\ Adds(E) /\ \A e \in E : EventOK(e)'
               /\ \A e \in E : e.kind = "ignored"
  BY <1>1, <1>2, <1>4, RemoveFacts
<1>7. EngineTypeOK'
  BY <1>1, <1>2, <1>5, <1>6, SameTypes
<1>8. ASSUME NEW v, Kept(v)' PROVE Undisturbed(v, E)
  <2>1. v \in live /\ v \in Workspace /\ v # w /\ ~Dropping(v)
    BY <1>3, <1>4, <1>8 DEF Kept, Dropping, TypeOK
  <2>2. \A k : RootWatch(v, k) => k \notin stale
    BY <1>3, <2>1 DEF RootWatch, EntriesUnder
  <2>3. RootsKept(v)
    BY <1>2, <1>5, <2>2 DEF RootsKept, Entry
  <2>4. \A e \in E, p \in Path : ~About(kernel', e, v, p)
    BY <1>6 DEF About
  <2> QED BY <1>4, <2>1, <2>3, <2>4 DEF Undisturbed, Kept
<1>9. ASSUME NEW d \in Client
      PROVE  /\ pc[d] = "register" => pc'[d] = "register" /\ cws'[d] = cws[d]
             /\ pc'[d] = "register" => pc[d] = "register" \/ apc[d] = "idle"
             /\ pc'[d] \notin Writing
             /\ pc'[d] = "create" => disk'[cws'[d]] = ctree'[d] /\ Root \in dirs'[cws'[d]]
  <2>1. pc'[c] \notin Writing /\ pc[d] \notin Writing
    BY <1>1, <1>4 DEF ActorInv, Writing
  <2>2. pc[d] = "create" => disk[cws[d]] = ctree[d] /\ Root \in dirs[cws[d]]
    BY <1>1 DEF ActorInv
  <2> QED BY <1>4, <2>1, <2>2
<1>10. Known' = Known
  BY <1>4 DEF Known
<1>11. \A v \in Known : v \in live' => v \in live
  BY <1>4
<1> QED BY <1>2, <1>5, <1>6, <1>7, <1>8, <1>9, <1>10, <1>11, ElsewhereStep

-----------------------------------------------------------------------------
(***************************************************************************)
(* Other tools.                                                            *)
(***************************************************************************)
\* The file q of w is as it was, or an event that is queued says otherwise.
Told(E, w, q) ==
  \/ disk'[w][q] = disk[w][q] /\ \A e \in E : ~About(kernel', e, w, q)
  \/ RootEntered(w) => Pending(w, q)'

\* An edit that the kernel reports as it should.
LEMMA EditedStep ==
  ASSUME TypeOK, NameInv, EngineInv, NEW w \in Workspace, Edit(w),
         kernel' \subseteq kernel, nextWd' = nextWd, \A v : RootsKept(v),
         NEW E, Adds(E), \A e \in E : EventOK(e)',
         \A v \in Workspace : v # w => disk'[v] = disk[v] /\ dirs'[v] = dirs[v],
         \A e \in E : \A v, q : About(kernel', e, v, q) => v = w,
         Root \in dirs[w] => Root \in dirs'[w],
         \A q \in Path : DirOf[q] = Root => Told(E, w, q)
  PROVE  EngineInv'
<1>1. EngineTypeOK /\ ActorInv /\ WatchInv /\ EventInv /\ CoverInv /\ SyncInv
  BY DEF EngineInv
<1>2. /\ UNCHANGED <<apc, aws, aname, scan, todo, sdirs, added, actorVars, horizon>>
      /\ UNCHANGED <<live, files, pc, cws, ctree, dropped, old, watches>>
      /\ \A c \in Client : cws[c] = w => pc[c] \notin {"create", "register"}
  BY DEF Edit, actorVars, memVars, reqVars, history
<1>3. EngineTypeOK'
  BY <1>1, <1>2, SameTypes
<1>4. \A v : Kept(v)' => Kept(v)
  BY <1>2 DEF Kept, Dropping
<1>5. ASSUME NEW v, Kept(v)', v # w PROVE Undisturbed(v, E)
  <2>1. Kept(v) /\ v \in Workspace
    BY <1>4, <1>5 DEF Kept, TypeOK
  <2> QED BY <1>2, <1>5, <2>1 DEF Undisturbed
<1>6. ASSUME Kept(w) PROVE Rebuilt(w)
  <2>1. ~Registering(w)
    BY <1>2 DEF Registering
  <2>2. CoverOK(w) /\ RootEntered(w) /\ RootsKept(w) /\ RootSame(w)
    BY <1>1, <1>6, <2>1, RootsFacts DEF Kept, CoverInv, CoverOK
  <2>3. CoverOK(w)'
    <3>1. Root \in dirs'[w]
      BY <2>2 DEF CoverOK
    <3> QED BY <2>1, <2>2, <3>1, CoverKept
  <2>4. ASSUME NEW q \in Path, DirOf[q] = Root PROVE SyncOK(w, q)'
    <3>1. CASE Pending(w, q)'
      BY <3>1 DEF SyncOK
    <3>2. CASE ~Pending(w, q)'
      <4>1. disk'[w][q] = disk[w][q] /\ \A e \in E : ~About(kernel', e, w, q)
        BY <2>2, <2>4, <3>2 DEF Told
      <4>2. SyncOK(w, q)
        BY <1>1, <1>6, <2>4 DEF SyncInv, Kept
      <4>3. LoopSame /\ files'[w][q] = files[w][q]
        BY <1>2 DEF LoopSame
      <4> QED BY <1>1, <2>2, <4>1, <4>2, <4>3, SyncKept
    <3> QED BY <3>1, <3>2
  <2> QED BY <2>1, <2>3, <2>4 DEF Rebuilt
<1>7. \A v : Kept(v)' => Undisturbed(v, E) \/ Rebuilt(v)
  BY <1>4, <1>5, <1>6
<1>8. ASSUME NEW d \in Client
      PROVE  /\ pc[d] = "register" => pc'[d] = "register" /\ cws'[d] = cws[d]
             /\ pc'[d] = "register" => pc[d] = "register" \/ apc[d] = "idle"
             /\ pc'[d] \notin Writing
             /\ pc'[d] = "create" => disk'[cws'[d]] = ctree'[d] /\ Root \in dirs'[cws'[d]]
  <2>1. pc[d] \notin Writing
    BY <1>1 DEF ActorInv
  <2>2. pc[d] = "create" => cws[d] # w /\ cws[d] \in Workspace
    BY <1>2 DEF TypeOK
  <2>3. pc[d] = "create" => disk[cws[d]] = ctree[d] /\ Root \in dirs[cws[d]]
    BY <1>1 DEF ActorInv
  <2> QED BY <1>2, <2>1, <2>2, <2>3
<1>9. Known' = Known /\ \A v \in Known : v \in live' => v \in live
  BY <1>2 DEF Known
<1>10. watches' \subseteq watches
  BY <1>2
<1> QED BY <1>2, <1>3, <1>7, <1>8, <1>9, <1>10, ElsewhereStep

\* The watch on the root reports an event that is about the file.
LEMMA RootReports ==
  ASSUME EngineTypeOK, NEW w, RootEntered(w), NEW p \in Path, DirOf[p] = Root,
         NEW kind \in {"sync", "delete"}, kernel' = kernel
  PROVE  \E f \in Reported(w, kind, {<<DirOf[p], p>>}) : About(kernel', f, w, p)
<1>1. PICK k \in kernel : RootWatch(w, k)
  BY DEF RootEntered
<1>2. PICK f : f = [wd |-> k.wd, kind |-> kind, name |-> p]
  OBVIOUS
<1>3. f.wd = k.wd /\ f.kind = kind /\ f.name = p
  BY SMT, <1>2
<1>4. f \in Event
  <2>1. k.wd \in Nat
    BY SMT DEF EngineTypeOK, WatchRecord
  <2>2. kind \in EventKind /\ p \in Dir \cup Path
    BY DEF EventKind
  <2> QED BY SMT, <1>2, <2>1, <2>2 DEF Event
<1>5. PICK n : n = <<DirOf[p], p>>
  OBVIOUS
<1>6. n[1] = DirOf[p] /\ n[2] = p
  BY SMT, <1>5
<1>7. f \in Reported(w, kind, {n})
  BY <1>1, <1>3, <1>4, <1>6 DEF Reported, RootWatch
<1>8. About(kernel', f, w, p)
  BY <1>1, <1>3 DEF About
<1> QED BY <1>5, <1>7, <1>8

\* A watch stays that is not on a removed directory.
LEMMA RootsStay ==
  ASSUME \A k : k.dir = Root => (k \in kernel' <=> k \in kernel), kernel' \subseteq kernel,
         UNCHANGED <<watches, added>>
  PROVE  \A v : RootsKept(v)
BY DEF RootsKept, RootWatch, Entry

\* A tool writes a file.
LEMMA EditWriteStep ==
  ASSUME TypeOK, NameInv, EngineInv, ~overflowed', NEW w \in Workspace, NEW p \in Path,
         NEW x \in Content, EditWrite(w, p, x)
  PROVE  EngineInv'
<1>1. EngineTypeOK /\ WatchInv
  BY DEF EngineInv
<1>2. PICK named, E, ev : named = {<<DirOf[p], p>>} /\ E = Reported(w, "sync", named)
                          /\ ev = Report(w, "sync", named)
  OBVIOUS
<1>3. /\ Edit(w) /\ disk' = [disk EXCEPT ![w][p] = x] /\ dirs' = dirs
      /\ PushAll(IF disk[w][p] = None THEN ev \o ev ELSE ev)
      /\ UNCHANGED <<kernel, nextWd, watches, added>>
  BY <1>2 DEF EditWrite, Appear, Edit, actorVars
<1>4. Lists(ev, E)
  <2>1. named \in SUBSET (Dir \X (Dir \cup Path))
    BY SMT, <1>2, DirAssumption
  <2>2. "sync" \in EventKind
    BY DEF EventKind
  <2> QED BY <1>1, <1>2, <2>1, <2>2, NamedFinite, ReportLists
<1>5. Lists(ev \o ev, E)
  <2>1. Lists(ev \o ev, E \cup E)
    BY <1>4, ConcatLists
  <2>2. E \cup E = E
    OBVIOUS
  <2> QED BY <2>1, <2>2
<1>6. Adds(E)
  BY <1>1, <1>3, <1>4, <1>5, PushAdds
<1>7. \A k : Entry(k)' <=> Entry(k)
  BY <1>3 DEF Entry
<1>8. ASSUME NEW e \in E
      PROVE  /\ EventOK(e)' /\ e.kind = "sync"
             /\ \A v, q : About(kernel', e, v, q) => v = w /\ q = p
  <2>1. PICK k \in kernel, n \in named :
          /\ k.ws = w /\ k.dir = n[1] /\ e.name = n[2] /\ e.kind = "sync"
          /\ e.wd = k.wd /\ e.wd < nextWd
          /\ \A l : Entry(l) /\ l.wd = e.wd => l = k
    <3>1. From(e, w, "sync", named)
      BY <1>1, <1>2, <1>8, ReportedFrom
    <3> QED BY <3>1 DEF From
  <2>2. n = <<DirOf[p], p>>
    BY <1>2, <2>1
  <2>3. n[1] = DirOf[p] /\ n[2] = p
    BY SMT, <2>2
  <2>4. EventOK(e)'
    BY <1>3, <1>7, <2>1, <2>3 DEF EventOK
  <2> QED BY <1>3, <2>1, <2>3, <2>4 DEF About, RootWatch, Entry
<1>9. \A v \in Workspace : v # w => disk'[v] = disk[v] /\ dirs'[v] = dirs[v]
  BY <1>3 DEF TypeOK
<1>10. disk'[w][p] = x /\ x # None /\ \A q \in Path : q # p => disk'[w][q] = disk[w][q]
  BY <1>3, ValueAssumption DEF TypeOK, Tree
<1>11. ASSUME NEW q \in Path, DirOf[q] = Root PROVE Told(E, w, q)
  <2>1. CASE q # p
    BY <1>8, <1>10, <2>1 DEF Told
  <2>2. CASE q = p
    <3>1. ASSUME RootEntered(w) PROVE Pending(w, p)'
      <4>1. PICK f \in E : About(kernel', f, w, p)
        BY <1>1, <1>2, <1>3, <1>11, <2>2, <3>1, RootReports
      <4>2. \A e \in E : About(kernel', e, w, p) => Matches(disk', e, w, p)
        BY <1>8, <1>10 DEF Matches
      <4> QED BY <1>1, <1>6, <4>1, <4>2, StatusMarked
    <3> QED BY <2>2, <3>1 DEF Told
  <2> QED BY <2>1, <2>2
<1>12. \A v : RootsKept(v)
  BY <1>3, RootsStay
<1> QED BY <1>3, <1>6, <1>8, <1>9, <1>11, <1>12, EditedStep

\* A tool removes a file.
LEMMA EditDeleteStep ==
  ASSUME TypeOK, NameInv, EngineInv, ~overflowed', NEW w \in Workspace, NEW p \in Path,
         EditDelete(w, p)
  PROVE  EngineInv'
<1>1. EngineTypeOK /\ WatchInv
  BY DEF EngineInv
<1>2. /\ Edit(w) /\ disk' = [disk EXCEPT ![w][p] = None] /\ dirs' = dirs
      /\ Vanish(w, {p}, {}) /\ UNCHANGED <<watches, added>>
  BY DEF EditDelete, Edit, actorVars
<1>3. kernel' = kernel /\ nextWd' = nextWd
  BY <1>2 DEF Vanish
<1>4. \A k : Entry(k)' => Entry(k)
  BY <1>2, <1>3 DEF Entry
<1>5. PICK paths, ds, E : paths = {p} /\ ds = {} /\ E = Removed(w, paths, ds)
  OBVIOUS
<1>6. Reports(E, w, paths)
  <2>1. paths \in SUBSET Path /\ ds \in SUBSET Dir /\ Root \notin ds /\ Vanish(w, paths, ds)
    BY <1>2, <1>5
  <2> QED BY <1>1, <1>4, <1>5, <2>1, VanishFacts
<1>7. \A v \in Workspace : v # w => disk'[v] = disk[v] /\ dirs'[v] = dirs[v]
  BY <1>2 DEF TypeOK
<1>8. disk'[w][p] = None /\ \A q \in Path : q # p => disk'[w][q] = disk[w][q]
  BY <1>2 DEF TypeOK, Tree
<1>9. ASSUME NEW q \in Path, DirOf[q] = Root PROVE Told(E, w, q)
  <2>1. CASE q # p
    <3>1. q \notin paths
      BY <1>5, <2>1
    <3>2. \A e \in E : ~About(kernel', e, w, q)
      BY <1>6, <3>1 DEF Reports
    <3> QED BY <1>8, <2>1, <3>2 DEF Told
  <2>2. CASE q = p
    <3>1. ASSUME RootEntered(w) PROVE Pending(w, p)'
      <4>1. PICK f \in Reported(w, "delete", {<<DirOf[p], p>>}) : About(kernel', f, w, p)
        BY <1>1, <1>3, <1>9, <2>2, <3>1, RootReports
      <4>2. {<<DirOf[o], o>> : o \in paths} = {<<DirOf[p], p>>}
        BY <1>5
      <4>3. f \in E
        <5>1. f \in Reported(w, "delete", {<<DirOf[o], o>> : o \in paths})
          BY <4>1, <4>2
        <5> QED BY <1>5, <5>1 DEF Removed
      <4>4. \A e \in E : About(kernel', e, w, p) => Matches(disk', e, w, p)
        BY <1>6, <1>8 DEF Matches, Reports
      <4>5. Adds(E)
        BY <1>6 DEF Reports
      <4> QED BY <1>1, <4>1, <4>3, <4>4, <4>5, StatusMarked
    <3> QED BY <2>2, <3>1 DEF Told
  <2> QED BY <2>1, <2>2
<1>10. \A v : RootsKept(v)
  BY <1>2, <1>3, RootsStay
<1>11. /\ Adds(E) /\ \A e \in E : EventOK(e)'
       /\ \A e \in E : \A v, q : About(kernel', e, v, q) => v = w
  <2>1. ASSUME NEW e \in E, NEW v, NEW q, About(kernel', e, v, q) PROVE v = w
    <3>1. About(kernel', e, v, q) => v = w /\ q \in paths /\ DirOf[q] = Root /\ e.kind = "delete"
      BY <1>6 DEF Reports
    <3> QED BY <2>1, <3>1
  <2>2. Adds(E) /\ \A e \in E : EventOK(e)'
    BY <1>6 DEF Reports
  <2> QED BY <2>1, <2>2
<1>12. Edit(w) /\ (Root \in dirs[w] => Root \in dirs'[w]) /\ kernel' \subseteq kernel
  BY <1>2, <1>3
<1> QED BY <1>3, <1>7, <1>9, <1>10, <1>11, <1>12, EditedStep

\* A tool makes a directory.
LEMMA EditMkdirStep ==
  ASSUME TypeOK, NameInv, EngineInv, ~overflowed', NEW w \in Workspace, NEW d \in SubDir,
         EditMkdir(w, d)
  PROVE  EngineInv'
<1>1. EngineTypeOK /\ WatchInv
  BY DEF EngineInv
<1>2. PICK named, E : named = {<<Root, d>>} /\ E = Reported(w, "newdir", named)
  OBVIOUS
<1>3. /\ Edit(w) /\ disk' = disk /\ dirs' = [dirs EXCEPT ![w] = @ \cup {d}]
      /\ PushAll(Report(w, "newdir", named)) /\ UNCHANGED <<kernel, nextWd, watches, added>>
  BY <1>2 DEF EditMkdir, Appear, Edit, actorVars
<1>4. d \in Dir /\ d # Root
  BY DirAssumption DEF Dir
<1>5. Adds(E)
  <2>1. named \in SUBSET (Dir \X (Dir \cup Path))
    BY SMT, <1>2, <1>4 DEF Dir
  <2>2. "newdir" \in EventKind
    BY DEF EventKind
  <2>3. Lists(Report(w, "newdir", named), E)
    BY <1>1, <1>2, <2>1, <2>2, NamedFinite, ReportLists
  <2> QED BY <1>1, <1>3, <2>3, PushAdds
<1>6. ASSUME NEW e \in E PROVE EventOK(e)' /\ e.kind = "newdir"
  <2>1. PICK n \in named : e.name = n[2] /\ e.kind = "newdir" /\ e.wd < nextWd
    <3>1. From(e, w, "newdir", named)
      BY <1>1, <1>2, <1>6, ReportedFrom
    <3> QED BY <3>1 DEF From
  <2>2. n = <<Root, d>>
    BY <1>2, <2>1
  <2>3. n[2] = d
    BY SMT, <2>2
  <2> QED BY <1>3, <1>4, <2>1, <2>3 DEF EventOK
<1>7. \A v \in Workspace : v # w => disk'[v] = disk[v] /\ dirs'[v] = dirs[v]
  BY <1>3 DEF TypeOK
<1>8. Root \in dirs[w] => Root \in dirs'[w]
  BY <1>3 DEF TypeOK
<1>9. \A q \in Path : Told(E, w, q)
  BY <1>3, <1>6 DEF Told, About
<1>10. \A e \in E : \A v, q : About(kernel', e, v, q) => v = w
  BY <1>6 DEF About
<1>11. \A v : RootsKept(v)
  BY <1>3, RootsStay
<1> QED BY <1>3, <1>5, <1>6, <1>7, <1>8, <1>9, <1>10, <1>11, EditedStep

\* A tool removes a directory and what is in it.
LEMMA EditRmdirStep ==
  ASSUME TypeOK, NameInv, EngineInv, ~overflowed', NEW w \in Workspace, NEW d \in SubDir,
         EditRmdir(w, d)
  PROVE  EngineInv'
<1>1. EngineTypeOK /\ WatchInv
  BY DEF EngineInv
<1>2. PICK paths, ds, E : /\ paths = {p \in Present(w) : DirOf[p] = d} /\ ds = {d}
                          /\ E = Removed(w, paths, ds)
  OBVIOUS
<1>3. /\ Edit(w) /\ dirs' = [dirs EXCEPT ![w] = @ \ {d}]
      /\ disk' = [disk EXCEPT ![w] = [p \in Path |-> IF DirOf[p] = d THEN None ELSE @[p]]]
      /\ Vanish(w, paths, ds) /\ UNCHANGED <<watches, added>>
  BY <1>2 DEF EditRmdir, Edit, actorVars
<1>4. d \in Dir /\ d # Root
  BY DirAssumption DEF Dir
<1>5. kernel' = {k \in kernel : ~(k.ws = w /\ k.dir \in ds)} /\ nextWd' = nextWd
  BY <1>3 DEF Vanish
<1>6. kernel' \subseteq kernel /\ \A k : k.dir = Root => (k \in kernel' <=> k \in kernel)
  BY <1>2, <1>4, <1>5
<1>7. \A k : Entry(k)' => Entry(k)
  BY <1>3, <1>6 DEF Entry
<1>8. Reports(E, w, paths)
  <2>1. paths \in SUBSET Path /\ ds \in SUBSET Dir /\ Root \notin ds
    BY <1>2, <1>4 DEF Present
  <2> QED BY <1>1, <1>2, <1>3, <1>7, <2>1, VanishFacts
<1>9. \A v \in Workspace : v # w => disk'[v] = disk[v] /\ dirs'[v] = dirs[v]
  BY <1>3 DEF TypeOK
<1>10. Root \in dirs[w] => Root \in dirs'[w]
  BY <1>3, <1>4 DEF TypeOK
<1>11. ASSUME NEW q \in Path, DirOf[q] = Root PROVE Told(E, w, q)
  <2>1. q \notin paths
    BY <1>2, <1>4, <1>11
  <2>2. disk'[w][q] = disk[w][q]
    <3>1. disk'[w] = [p \in Path |-> IF DirOf[p] = d THEN None ELSE disk[w][p]]
      BY <1>3 DEF TypeOK
    <3> QED BY <1>4, <1>11, <3>1
  <2> QED BY <1>8, <2>1, <2>2 DEF Told, Reports
<1>12. \A v : RootsKept(v)
  BY <1>3, <1>6, RootsStay
<1>13. /\ Adds(E) /\ \A e \in E : EventOK(e)'
       /\ \A e \in E : \A v, q : About(kernel', e, v, q) => v = w
  <2>1. ASSUME NEW e \in E, NEW v, NEW q, About(kernel', e, v, q) PROVE v = w
    <3>1. About(kernel', e, v, q) => v = w /\ q \in paths /\ DirOf[q] = Root /\ e.kind = "delete"
      BY <1>8 DEF Reports
    <3> QED BY <2>1, <3>1
  <2>2. Adds(E) /\ \A e \in E : EventOK(e)'
    BY <1>8 DEF Reports
  <2> QED BY <2>1, <2>2
<1>14. Edit(w) /\ nextWd' = nextWd /\ kernel' \subseteq kernel
  BY <1>3, <1>5, <1>6
<1> QED BY <1>9, <1>10, <1>11, <1>12, <1>13, <1>14, EditedStep

\* The service is killed.
LEMMA CrashStep ==
  ASSUME TypeOK, NameInv, EngineInv, WBCrash
  PROVE  EngineInv'
<1>1. EngineTypeOK
  BY DEF EngineInv
<1>2. /\ kernel' = {} /\ watches' = {} /\ queue' = <<>> /\ apc' = [a \in Actor |-> "idle"]
      /\ scan' = [a \in Actor |-> NoFiles] /\ todo' = [a \in Actor |-> {}]
      /\ gone' = [a \in Actor |-> {}] /\ sdirs' = [a \in Actor |-> {}]
      /\ added' = [a \in Actor |-> {}] /\ rest' = [a \in Actor |-> {}]
      /\ aname' = [a \in Actor |-> Root] /\ UNCHANGED <<nextWd, aws, horizon>>
      /\ live' = {} /\ pc' = [c \in Client |-> "idle"]
  BY DEF WBCrash, Crash, editVars
<1>3. EngineTypeOK'
  <2>1. queue' \in Seq(Event) /\ IsFiniteSet(kernel')
    BY SMT, <1>2, FS_EmptySet
  <2>2. "idle" \in Place /\ Root \in Dir \cup Path
    BY DEF Place, Dir
  <2> QED BY <1>1, <1>2, <2>1, <2>2, NoFilesType DEF EngineTypeOK
<1>4. \A k : ~Entry(k)'
  BY <1>2 DEF Entry
<1>5. ActorInv'
  BY <1>2 DEF ActorInv, Writing, Actor, Engine
<1>6. WatchInv'
  BY <1>2, <1>4 DEF WatchInv
<1>7. EventInv'
  <2>1. Len(queue') = 0
    BY SMT, <1>2
  <2>2. \A i \in 1..Len(queue') : FALSE
    BY SMT, <2>1
  <2> QED BY <2>2 DEF EventInv
<1>8. CoverInv' /\ SyncInv' /\ LoopInv'
  <2>1. apc'[Inotify] = "idle"
    BY <1>2 DEF Actor, Engine
  <2> QED BY <1>2, <2>1 DEF CoverInv, SyncInv, LoopInv
<1>9. RegisterInv'
  BY <1>2 DEF RegisterInv
<1> QED BY <1>3, <1>5, <1>6, <1>7, <1>8, <1>9 DEF EngineInv

\* A new process starts: nothing is live and no request is going on.
LEMMA StartStep ==
  ASSUME TypeOK, NameInv, EngineInv, WBStart
  PROVE  EngineInv'
<1>1. EngineTypeOK /\ ActorInv
  BY DEF EngineInv
<1>2. /\ UNCHANGED <<kernel, nextWd, queue, watches, actorVars, horizon>>
      /\ UNCHANGED <<live, pc, cws, dropped, old>> /\ ~up
  BY DEF WBStart, Start, wbVars, kernelVars, editVars, reqVars, history
<1>3. UNCHANGED <<apc, aws, aname, scan, todo, sdirs, added>>
  BY <1>2 DEF actorVars
<1>4. live' = {} /\ \A c \in Client : pc'[c] = "idle" /\ pc[c] = "idle"
  BY <1>2 DEF NameInv
<1>5. kernel' \subseteq kernel /\ watches' \subseteq watches
  BY <1>2
<1>6. Adds({})
  BY <1>1, <1>2, AddsNothing
<1>7. EngineTypeOK'
  BY <1>1, <1>2, <1>5, <1>6, SameTypes
<1>8. \A v : Kept(v)' => Undisturbed(v, {}) \/ Rebuilt(v)
  BY <1>4 DEF Kept
<1>9. Known' = Known /\ \A v \in Known : v \in live' => v \in live
  BY <1>2 DEF Known
<1>10. ASSUME NEW d \in Client
       PROVE  /\ pc[d] = "register" => pc'[d] = "register" /\ cws'[d] = cws[d]
              /\ pc'[d] = "register" => pc[d] = "register" \/ apc[d] = "idle"
              /\ pc'[d] \notin Writing
              /\ pc'[d] = "create" => disk'[cws'[d]] = ctree'[d] /\ Root \in dirs'[cws'[d]]
  BY <1>4 DEF Writing
<1>11. \A e \in {} : EventOK(e)'
  OBVIOUS
<1> QED BY <1>2, <1>3, <1>5, <1>6, <1>7, <1>8, <1>9, <1>10, <1>11, ElsewhereStep

-----------------------------------------------------------------------------
(***************************************************************************)
(* The routine of an actor.                                                *)
(***************************************************************************)
\* Steps of the routine that leave the kernel alone.
LEMMA RoutineStep ==
  ASSUME TypeOK, EngineInv, EngineTypeOK', ActorInv', LoopInv',
         UNCHANGED <<kernel, nextWd, queue, live, dropped, old, disk, dirs, cws>>,
         watches \subseteq watches', \A k : Entry(k)' => Entry(k),
         \A w : Kept(w)' => Kept(w),
         \A w : Kept(w) /\ Registering(w) => Registering(w)' \/ RootEntered(w),
         \A c \in Client : pc'[c] = "register" /\ Kept(cws[c]) => RegisterOK(c, cws[c])',
         \A w : \A p \in Path : Kept(w) /\ DirOf[p] = Root /\ InHand(w, p) => InHand(w, p)'
  PROVE  EngineInv'
<1>1. EngineTypeOK /\ WatchInv /\ EventInv /\ CoverInv /\ SyncInv
  BY DEF EngineInv
<1>2. Known' = Known
  BY DEF Known
<1>3. WatchInv'
  BY <1>1, <1>2, WatchKept
<1>4. EventInv'
  <2>1. QueueFrom({})
    BY DEF QueueFrom
  <2>2. nextWd' \in Nat /\ nextWd <= nextWd'
    BY SMT, <1>1 DEF EngineTypeOK
  <2>3. \A e \in {} : EventOK(e)'
    OBVIOUS
  <2> QED BY <1>1, <2>1, <2>2, <2>3, EventsKept
<1>5. \A w, p : NoneAbout(w, p) => NoneAbout(w, p)'
  BY DEF NoneAbout
<1>6. \A w, p : Pending(w, p) => Pending(w, p)'
  BY DEF Pending, Matches
<1>7. ASSUME NEW w, Kept(w) PROVE CoverOK(w)'
  <2>1. CoverOK(w) /\ Root \in dirs'[w]
    BY <1>1, <1>7 DEF CoverInv, Kept, CoverOK
  <2>2. RootsKept(w)
    BY DEF RootsKept
  <2> QED BY <1>5, <1>7, <2>1, <2>2, CoverKept
<1>8. ASSUME NEW w, NEW p \in Path, Kept(w), DirOf[p] = Root PROVE SyncOK(w, p)'
  <2>1. SyncOK(w, p)
    BY <1>1, <1>8 DEF SyncInv, Kept
  <2> QED BY <1>5, <1>6, <1>8, <2>1 DEF SyncOK, Settled
<1>9. CoverInv'
  BY <1>7 DEF CoverInv, Kept
<1>10. SyncInv'
  BY <1>8 DEF SyncInv, Kept
<1>11. RegisterInv'
  <2> SUFFICES ASSUME NEW c \in Client, pc'[c] = "register", Kept(cws[c])'
               PROVE  RegisterOK(c, cws[c])'
    BY DEF RegisterInv
  <2>1. Kept(cws[c])
    BY DEF Kept, Dropping
  <2> QED BY <2>1
<1> QED BY <1>3, <1>4, <1>9, <1>10, <1>11 DEF EngineInv

\* The routines of other actors stay.
ActorSame(b) ==
  /\ apc'[b] = apc[b] /\ aws'[b] = aws[b] /\ aname'[b] = aname[b] /\ scan'[b] = scan[b]
  /\ todo'[b] = todo[b] /\ sdirs'[b] = sdirs[b] /\ added'[b] = added[b]

\* What follows for the clients among them, and for the event loop.
LEMMA OthersRegister ==
  ASSUME EngineInv, NEW c \in Client, ActorSame(c), pc[c] = "register", Kept(cws[c]),
         UNCHANGED <<kernel, disk, cws>>, watches \subseteq watches'
  PROVE  RegisterOK(c, cws[c])'
<1>1. RegisterOK(c, cws[c])
  BY DEF EngineInv, RegisterInv
<1>2. \A w : RootEntered(w) => RootEntered(w)'
  BY DEF RootEntered
<1> QED BY <1>1, <1>2 DEF RegisterOK, ActorSame

\* The event loop has what it had in hand.
LEMMA LoopIdle ==
  ASSUME ActorSame(Inotify), NEW w, NEW p, UNCHANGED disk, files'[w][p] = files[w][p], InHand(w, p)
  PROVE  InHand(w, p)'
BY DEF InHand, Reads, Applies, ActorSame

\* No workspace begins or ceases to be kept.
LEMMA KeptSame ==
  ASSUME UNCHANGED <<live, pc, cws>>
  PROVE  \A w : (Kept(w)' <=> Kept(w)) /\ (Registering(w)' <=> Registering(w))
BY DEF Kept, Dropping, Registering

\* The event loop handles what it handled.
LEMMA LoopKept ==
  ASSUME LoopInv, ActorSame(Inotify), live' = live
  PROVE  LoopInv'
BY DEF LoopInv, ActorSame

\* One actor moves.
LEMMA ActorStep ==
  ASSUME ActorInv, NEW c \in Actor, c # Reconciler, \A b \in Actor : b # c => ActorSame(b),
         UNCHANGED <<live, dropped, old, disk, dirs, cws, ctree>>,
         \A d \in Client : d # c => pc'[d] = pc[d],
         apc'[c] # "idle" => aws'[c] \in Known,
         \A p \in todo'[c] : scan'[c][p] # None,
         c \in Client =>
           /\ pc'[c] \notin Writing /\ pc'[c] # "create"
           /\ apc'[c] # "idle" =>
                /\ pc'[c] = "register" /\ aws'[c] = cws[c] /\ aname'[c] = Root
                /\ apc'[c] \in {"scan", "watch", "enter", "apply"}
  PROVE  ActorInv'
<1>1. Known' = Known
  BY DEF Known
<1>2. apc'[Reconciler] = "idle"
  BY DEF ActorInv, ActorSame, Actor, Engine
<1>3. ASSUME NEW a \in Actor
      PROVE  (apc'[a] # "idle" => aws'[a] \in Known') /\ \A p \in todo'[a] : scan'[a][p] # None
  <2>1. CASE a = c
    BY <1>1, <2>1
  <2>2. CASE a # c
    <3>1. apc'[a] = apc[a] /\ aws'[a] = aws[a] /\ todo'[a] = todo[a] /\ scan'[a] = scan[a]
      BY <2>2 DEF ActorSame
    <3>2. (apc[a] # "idle" => aws[a] \in Known) /\ \A p \in todo[a] : scan[a][p] # None
      BY DEF ActorInv
    <3> QED BY <1>1, <3>1, <3>2
  <2> QED BY <2>1, <2>2
<1>4. ASSUME NEW d \in Client
      PROVE  /\ pc'[d] \notin Writing
             /\ apc'[d] # "idle" =>
                  /\ pc'[d] = "register" /\ aws'[d] = cws'[d] /\ aname'[d] = Root
                  /\ apc'[d] \in {"scan", "watch", "enter", "apply"}
             /\ pc'[d] = "create" => disk'[cws'[d]] = ctree'[d] /\ Root \in dirs'[cws'[d]]
  <2>1. CASE d = c
    BY <2>1
  <2>2. CASE d # c
    <3>1. ActorSame(d) /\ pc'[d] = pc[d]
      BY <2>2 DEF Actor
    <3> QED BY <3>1 DEF ActorInv, ActorSame
  <2> QED BY <2>1, <2>2
<1> QED BY <1>2, <1>3, <1>4 DEF ActorInv

\* A client begins to register the workspace it has created.
LEMMA RegisterStep ==
  ASSUME TypeOK, NameInv, EngineInv, NEW c \in Client, Register(c)
  PROVE  EngineInv'
<1>1. EngineTypeOK /\ ActorInv /\ LoopInv
  BY DEF EngineInv
<1>2. c \in Actor /\ c # Inotify /\ c # Reconciler /\ Inotify \in Actor /\ Reconciler \in Actor
  BY EngineAssumption DEF Actor, Engine
<1>3. /\ pc[c] = "register" /\ apc' = [apc EXCEPT ![c] = "scan"]
      /\ aws' = [aws EXCEPT ![c] = cws[c]] /\ aname' = [aname EXCEPT ![c] = Root]
      /\ UNCHANGED <<kernel, nextWd, queue, live, dropped, old, disk, dirs, cws, pc, files, ctree,
                     watches, added, scan, todo, gone, sdirs, rest, horizon>>
  BY DEF Register, At, vars, memVars, diskVars, reqVars, history, engineVars, kernelVars, editVars
<1>4. \A b \in Actor : b # c => ActorSame(b)
  BY <1>3 DEF ActorSame, EngineTypeOK, EngineInv
<1>5. apc'[c] = "scan" /\ aws'[c] = cws[c] /\ aname'[c] = Root /\ cws[c] \in Known
  BY <1>1, <1>2, <1>3 DEF EngineTypeOK, NameInv
<1>6. EngineTypeOK'
  <2>1. "scan" \in Place /\ Root \in Dir \cup Path /\ cws[c] \in Workspace
    BY DEF Place, Dir, TypeOK
  <2> QED BY <1>1, <1>2, <1>3, <2>1 DEF EngineTypeOK
<1>7. ActorInv'
  <2>1. \A p \in todo'[c] : scan'[c][p] # None
    BY <1>1, <1>2, <1>3 DEF ActorInv
  <2>2. "register" \notin Writing
    BY DEF Writing
  <2> QED BY <1>1, <1>2, <1>3, <1>4, <1>5, <2>1, <2>2, ActorStep
<1>8. LoopInv'
  BY <1>1, <1>2, <1>3, <1>4, LoopKept
<1>9. \A k : Entry(k)' => Entry(k)
  BY <1>3 DEF Entry
<1>10. ASSUME NEW d \in Client, pc'[d] = "register", Kept(cws[d]) PROVE RegisterOK(d, cws[d])'
  <2>1. CASE d = c
    BY <1>5, <2>1 DEF RegisterOK
  <2>2. CASE d # c
    <3>1. ActorSame(d) /\ pc[d] = "register"
      BY <1>3, <1>4, <1>10, <2>2 DEF Actor
    <3> QED BY <1>3, <1>10, <3>1, OthersRegister
  <2> QED BY <2>1, <2>2
<1>11. \A w : \A p \in Path : InHand(w, p) => InHand(w, p)'
  BY <1>2, <1>3, <1>4, LoopIdle
<1>12. \A w : (Kept(w)' <=> Kept(w)) /\ (Registering(w)' <=> Registering(w))
  BY <1>3, KeptSame
<1>13. watches \subseteq watches'
  BY <1>3
<1> QED BY <1>3, <1>6, <1>7, <1>8, <1>9, <1>10, <1>11, <1>12, <1>13, RoutineStep

\* It is done.
LEMMA RegisteredStep ==
  ASSUME TypeOK, NameInv, EngineInv, NEW c \in Client, Registered(c)
  PROVE  EngineInv'
<1>1. EngineTypeOK /\ ActorInv /\ LoopInv /\ RegisterInv
  BY DEF EngineInv
<1>2. c \in Actor /\ c # Inotify /\ c # Reconciler /\ Inotify \in Actor /\ Reconciler \in Actor
  BY EngineAssumption DEF Actor, Engine
<1>3. /\ apc[c] = "apply" /\ todo[c] = {} /\ apc' = [apc EXCEPT ![c] = "idle"]
      /\ pc' = [pc EXCEPT ![c] = "idle"] /\ scan' = [scan EXCEPT ![c] = NoFiles]
      /\ UNCHANGED <<kernel, nextWd, queue, live, dropped, old, disk, dirs, cws, files, ctree,
                     watches, added, aws, aname, todo, gone, sdirs, rest, horizon>>
  BY DEF Registered, Applied, Goto, At, memVars, diskVars, reqVars, history, engineVars,
               kernelVars, editVars
<1>4. \A b \in Actor : b # c => ActorSame(b)
  BY <1>1, <1>3 DEF ActorSame, EngineTypeOK
<1>5. /\ apc'[c] = "idle" /\ pc'[c] = "idle" /\ pc[c] = "register"
      /\ \A d \in Client : d # c => pc'[d] = pc[d]
  BY <1>1, <1>2, <1>3 DEF EngineTypeOK, ActorInv, TypeOK
<1>6. EngineTypeOK'
  <2>1. "idle" \in Place
    BY DEF Place
  <2> QED BY <1>1, <1>2, <1>3, <2>1, NoFilesType DEF EngineTypeOK
<1>7. ActorInv'
  <2>1. \A p \in todo'[c] : scan'[c][p] # None
    BY <1>3
  <2>2. "idle" \notin Writing
    BY DEF Writing
  <2> QED BY <1>1, <1>2, <1>3, <1>4, <1>5, <2>1, <2>2, ActorStep
<1>8. LoopInv'
  BY <1>1, <1>2, <1>3, <1>4, LoopKept
<1>9. \A k : Entry(k)' => Entry(k)
  BY <1>3 DEF Entry
<1>10. ASSUME NEW d \in Client, pc'[d] = "register", Kept(cws[d]) PROVE RegisterOK(d, cws[d])'
  <2>1. d # c
    BY <1>5, <1>10
  <2>2. ActorSame(d) /\ pc[d] = "register"
    BY <1>4, <1>5, <1>10, <2>1 DEF Actor
  <2> QED BY <1>3, <1>10, <2>2, OthersRegister
<1>11. \A w : \A p \in Path : InHand(w, p) => InHand(w, p)'
  BY <1>2, <1>3, <1>4, LoopIdle
<1>12. \A w : Kept(w)' => Kept(w)
  BY <1>3, <1>5 DEF Kept, Dropping
<1>13. ASSUME NEW w, Kept(w), Registering(w) PROVE Registering(w)' \/ RootEntered(w)
  <2>1. PICK d \in Client : cws[d] = w /\ pc[d] = "register"
    BY <1>13 DEF Registering
  <2>2. CASE d = c
    BY <1>1, <1>3, <1>13, <2>1, <2>2 DEF RegisterInv, RegisterOK
  <2>3. CASE d # c
    BY <1>3, <1>5, <2>1, <2>3 DEF Registering
  <2> QED BY <2>2, <2>3
<1>14. watches \subseteq watches'
  BY <1>3
<1> QED BY <1>3, <1>6, <1>7, <1>8, <1>9, <1>10, <1>11, <1>12, <1>13, <1>14, RoutineStep

\* An actor goes on with its routine and leaves the kernel alone.
LEMMA MoveStep ==
  ASSUME TypeOK, EngineInv, EngineTypeOK', NEW a \in Actor, apc[a] # "idle", aws' = aws,
         \A b \in Actor : b # a => ActorSame(b),
         UNCHANGED <<kernel, nextWd, queue, live, dropped, old, disk, dirs, cws, ctree, pc>>,
         watches \subseteq watches', \A k : Entry(k)' => Entry(k),
         \A p \in todo'[a] : scan'[a][p] # None,
         a \in Client =>
           /\ aname'[a] = aname[a] /\ apc'[a] \in {"scan", "watch", "enter", "apply"}
           /\ Kept(cws[a]) => RegisterOK(a, cws[a])',
         LoopInv',
         \A w : \A p \in Path : Kept(w) /\ DirOf[p] = Root /\ InHand(w, p) => InHand(w, p)'
  PROVE  EngineInv'
<1>1. ActorInv /\ a # Reconciler
  BY DEF EngineInv, ActorInv
<1>2. /\ aws[a] \in Known /\ aws'[a] = aws[a]
      /\ a \in Client => pc[a] = "register" /\ pc[a] \notin Writing /\ aws[a] = cws[a] /\ aname[a] = Root
  BY <1>1 DEF ActorInv
<1>3. ActorInv'
  <2>1. a \in Client =>
           /\ pc'[a] \notin Writing /\ pc'[a] # "create"
           /\ apc'[a] # "idle" =>
                /\ pc'[a] = "register" /\ aws'[a] = cws[a] /\ aname'[a] = Root
                /\ apc'[a] \in {"scan", "watch", "enter", "apply"}
    BY <1>2
  <2>2. (apc'[a] # "idle" => aws'[a] \in Known) /\ \A d \in Client : d # a => pc'[d] = pc[d]
    BY <1>2
  <2> QED BY <1>1, <2>1, <2>2, ActorStep
<1>4. ASSUME NEW d \in Client, pc'[d] = "register", Kept(cws[d]) PROVE RegisterOK(d, cws[d])'
  <2>1. CASE d = a
    BY <1>4, <2>1
  <2>2. CASE d # a
    <3>1. ActorSame(d) /\ pc[d] = "register"
      BY <1>4, <2>2 DEF Actor
    <3> QED BY <1>4, <3>1, OthersRegister
  <2> QED BY <2>1, <2>2
<1>5. \A w : (Kept(w)' <=> Kept(w)) /\ (Registering(w)' <=> Registering(w))
  BY KeptSame
<1> QED BY <1>3, <1>4, <1>5, RoutineStep

\* The event loop is one actor, and neither a client nor the reconciler.
LEMMA Actors ==
  /\ Inotify \in Actor /\ Reconciler \in Actor /\ Inotify # Reconciler
  /\ Inotify \notin Client /\ Reconciler \notin Client /\ \A c \in Client : c \in Actor
BY EngineAssumption DEF Actor, Engine, Inotify, Reconciler

\* The projection, or a new directory in it, is scanned.
LEMMA ScanStep ==
  ASSUME TypeOK, NameInv, EngineInv, NEW a \in Actor, SyncScan(a)
  PROVE  EngineInv'
<1>1. EngineTypeOK /\ ActorInv /\ LoopInv
  BY DEF EngineInv
<1>2. PICK w, d : w = aws[a] /\ d = aname[a]
  OBVIOUS
<1>3. PICK S : S = {p \in Present(w) : InDir(p, d)}
  OBVIOUS
<1>4. PICK D : D = {d} \cup {o \in dirs[w] : d = Root}
  OBVIOUS
<1>5. /\ apc[a] = "scan" /\ apc' = [apc EXCEPT ![a] = "watch"]
      /\ scan' = [scan EXCEPT ![a] = Seen(w, d)] /\ todo' = [todo EXCEPT ![a] = S]
      /\ sdirs' = [sdirs EXCEPT ![a] = D]
      /\ UNCHANGED <<kernel, nextWd, queue, live, dropped, old, disk, dirs, cws, ctree, pc>>
      /\ UNCHANGED <<files, watches, added, aws, aname, gone, rest, horizon>>
  BY <1>2, <1>3, <1>4
     DEF SyncScan, At, vars, memVars, diskVars, reqVars, history, engineVars, kernelVars, editVars
<1>6. \A b \in Actor : b # a => ActorSame(b)
  BY <1>1, <1>5 DEF ActorSame, EngineTypeOK
<1>7. /\ apc'[a] = "watch" /\ scan'[a] = Seen(w, d) /\ todo'[a] = S /\ sdirs'[a] = D
      /\ aname'[a] = aname[a]
  BY <1>1, <1>5 DEF EngineTypeOK
<1>8. w \in Workspace /\ disk[w] \in Tree /\ dirs[w] \subseteq Dir
  BY <1>1, <1>2 DEF TypeOK, EngineTypeOK
<1>9. \A p \in S : p \in Path /\ InDir(p, d) /\ disk[w][p] # None /\ scan'[a][p] = disk[w][p]
  BY <1>3, <1>7 DEF Present, Seen
<1>10. EngineTypeOK'
  <2>1. "watch" \in Place /\ S \subseteq Path
    BY <1>9 DEF Place
  <2>2. Seen(w, d) \in Tree
    BY <1>8 DEF Seen, Tree, Value
  <2>3. sdirs' \in [Actor -> SUBSET Dir]
    <3>1. d \in Dir
      <4>1. a \in Client \/ a = Inotify
        BY <1>1, <1>5 DEF ActorInv, Actor, Engine
      <4> QED BY <1>1, <1>2, <1>5, <4>1 DEF ActorInv, LoopInv, Dir
    <3> QED BY <1>1, <1>4, <1>5, <1>8, <3>1 DEF EngineTypeOK
  <2> QED BY <1>1, <1>5, <2>1, <2>2, <2>3 DEF EngineTypeOK
<1>11. \A p \in todo'[a] : scan'[a][p] # None
  BY <1>7, <1>9
<1>12. ASSUME a \in Client
       PROVE  /\ aname'[a] = aname[a] /\ apc'[a] \in {"scan", "watch", "enter", "apply"}
              /\ RegisterOK(a, cws[a])'
  <2>1. w = cws'[a] /\ d = Root
    BY <1>1, <1>2, <1>5, <1>12 DEF ActorInv
  <2>2. Root \in sdirs'[a] /\ \A p \in todo'[a] : scan'[a][p] = disk'[w][p]
    BY <1>4, <1>5, <1>7, <1>9, <2>1
  <2> QED BY <1>7, <2>1, <2>2 DEF RegisterOK
<1>13. LoopInv'
  <2>1. CASE a = Inotify
    BY <1>7, <2>1 DEF LoopInv
  <2>2. CASE a # Inotify
    BY <1>1, <1>5, <1>6, <2>2, Actors, LoopKept
  <2> QED BY <2>1, <2>2
<1>14. ASSUME NEW v, NEW p \in Path, Kept(v), DirOf[p] = Root, InHand(v, p) PROVE InHand(v, p)'
  <2>1. CASE a = Inotify
    <3>1. ~Reads(v, p) /\ ~Applies(v, p) /\ ~Reads(v, p)'
      BY <1>5, <1>7, <2>1 DEF Reads, Applies
    <3>2. ASSUME Applies(v, p)' PROVE FALSE
      <4>1. v = w /\ p \in S /\ d # Root
        BY <1>1, <1>2, <1>5, <1>7, <1>14, <2>1, <3>2 DEF Applies, LoopInv, Kept
      <4> QED BY <1>9, <1>14, <4>1 DEF InDir
    <3> QED BY <1>5, <1>14, <3>1, <3>2 DEF InHand
  <2>2. CASE a # Inotify
    BY <1>5, <1>6, <1>14, <2>2, Actors, LoopIdle
  <2> QED BY <2>1, <2>2
<1>15. \A k : Entry(k)' => Entry(k)
  BY <1>5 DEF Entry
<1>16. apc[a] # "idle" /\ aws' = aws /\ watches \subseteq watches'
  BY <1>5
<1> QED BY <1>5, <1>6, <1>10, <1>11, <1>12, <1>13, <1>14, <1>15, <1>16, MoveStep

\* sync_file reads the file.
LEMMA ReadStep ==
  ASSUME TypeOK, NameInv, EngineInv, SyncRead(Inotify)
  PROVE  EngineInv'
<1>1. EngineTypeOK /\ ActorInv /\ LoopInv
  BY DEF EngineInv
<1>2. PICK w, o : w = aws[Inotify] /\ o = aname[Inotify]
  OBVIOUS
<1>3. /\ apc[Inotify] = "read" /\ apc' = [apc EXCEPT ![Inotify] = "apply"]
      /\ scan' = [scan EXCEPT ![Inotify] = disk[w]]
      /\ todo' = [todo EXCEPT ![Inotify] = {o} \cap Present(w)]
      /\ UNCHANGED <<kernel, nextWd, queue, live, dropped, old, disk, dirs, cws, ctree, pc>>
      /\ UNCHANGED <<files, watches, added, aws, aname, sdirs, gone, rest, horizon>>
  BY <1>2
     DEF SyncRead, At, vars, memVars, diskVars, reqVars, history, engineVars, kernelVars, editVars
<1>4. \A b \in Actor : b # Inotify => ActorSame(b)
  BY <1>1, <1>3 DEF ActorSame, EngineTypeOK
<1>5. /\ apc'[Inotify] = "apply" /\ scan'[Inotify] = disk[w]
      /\ todo'[Inotify] = {o} \cap Present(w)
  BY <1>1, <1>3, Actors DEF EngineTypeOK
<1>6. w \in Workspace /\ disk[w] \in Tree
  BY <1>1, <1>2, Actors DEF TypeOK, EngineTypeOK
<1>7. EngineTypeOK'
  <2>1. "apply" \in Place /\ {o} \cap Present(w) \subseteq Path
    BY DEF Place, Present
  <2> QED BY <1>1, <1>3, <1>6, <2>1 DEF EngineTypeOK
<1>8. \A p \in todo'[Inotify] : scan'[Inotify][p] # None
  BY <1>5 DEF Present
<1>9. LoopInv'
  BY <1>5 DEF LoopInv
<1>10. ASSUME NEW v, NEW p \in Path, InHand(v, p) PROVE InHand(v, p)'
  <2>1. ~Applies(v, p) /\ ~Reads(v, p)'
    BY <1>3, <1>5 DEF Reads, Applies
  <2>2. CASE Reads(v, p)
    <3>1. v = w /\ p = o /\ disk[w][o] # None
      BY <1>2, <1>10, <2>1, <2>2 DEF InHand, Reads
    <3>2. Applies(v, p)' /\ scan'[Inotify][p] = disk'[v][p]
      BY <1>2, <1>3, <1>5, <3>1 DEF Applies, Present
    <3> QED BY <3>2 DEF InHand
  <2>3. CASE ~Reads(v, p)
    <3>1. ~Applies(v, p)'
      BY <1>2, <1>3, <1>5, <2>3 DEF Applies, Reads
    <3> QED BY <1>3, <1>10, <2>1, <2>3, <3>1 DEF InHand
  <2> QED BY <2>2, <2>3
<1>11. \A k : Entry(k)' => Entry(k)
  BY <1>3 DEF Entry
<1>12. apc[Inotify] # "idle" /\ aws' = aws /\ watches \subseteq watches'
  BY <1>3
<1> QED BY <1>3, <1>4, <1>7, <1>8, <1>9, <1>10, <1>11, <1>12, Actors, MoveStep

\* The event has been handled.
LEMMA AppliedStep ==
  ASSUME TypeOK, NameInv, EngineInv, EngineApplied(Inotify)
  PROVE  EngineInv'
<1>1. EngineTypeOK /\ ActorInv /\ LoopInv
  BY DEF EngineInv
<1>2. /\ apc[Inotify] = "apply" /\ todo[Inotify] = {} /\ apc' = [apc EXCEPT ![Inotify] = "idle"]
      /\ scan' = [scan EXCEPT ![Inotify] = NoFiles] /\ aname' = [aname EXCEPT ![Inotify] = Root]
      /\ UNCHANGED <<kernel, nextWd, queue, live, dropped, old, disk, dirs, cws, ctree, pc>>
      /\ UNCHANGED <<files, watches, added, aws, todo, sdirs, gone, rest, horizon>>
  <2>1. rest[Inotify] = {}
    BY <1>1, Actors DEF EngineTypeOK
  <2> QED
    BY <2>1
       DEF EngineApplied, Applied, NextOrIdle, At, vars, memVars, diskVars, reqVars, history,
           engineVars, kernelVars, editVars
<1>3. \A b \in Actor : b # Inotify => ActorSame(b)
  BY <1>1, <1>2 DEF ActorSame, EngineTypeOK
<1>4. apc'[Inotify] = "idle" /\ todo'[Inotify] = {}
  BY <1>1, <1>2, Actors DEF EngineTypeOK
<1>5. EngineTypeOK'
  <2>1. "idle" \in Place /\ Root \in Dir \cup Path
    BY DEF Place, Dir
  <2> QED BY <1>1, <1>2, <2>1, NoFilesType DEF EngineTypeOK
<1>6. LoopInv'
  BY <1>4 DEF LoopInv
<1>7. ASSUME NEW v, NEW p \in Path, InHand(v, p) PROVE InHand(v, p)'
  BY <1>2, <1>4, <1>7 DEF InHand, Reads, Applies
<1>8. \A k : Entry(k)' => Entry(k)
  BY <1>2 DEF Entry
<1>9. /\ apc[Inotify] # "idle" /\ aws' = aws /\ watches \subseteq watches'
      /\ \A p \in todo'[Inotify] : scan'[Inotify][p] # None
  BY <1>2, <1>4
<1> QED BY <1>2, <1>3, <1>5, <1>6, <1>7, <1>8, <1>9, Actors, MoveStep

\* One file that was read is recorded.
LEMMA ApplyStep ==
  ASSUME TypeOK, NameInv, EngineInv, NEW a \in Actor, ApplyWrite(a)
  PROVE  EngineInv'
<1>1. EngineTypeOK /\ ActorInv /\ LoopInv /\ RegisterInv
  BY DEF EngineInv
<1>2. PICK p \in todo[a] : Record(aws[a], p, scan[a][p]) /\ todo' = [todo EXCEPT ![a] = @ \ {p}]
  BY DEF ApplyWrite
<1>3. PICK w, x : w = aws[a] /\ x = scan[a][p]
  OBVIOUS
<1>4. /\ apc[a] = "apply" /\ files' = (IF w \in live THEN [files EXCEPT ![w][p] = x] ELSE files)
      /\ UNCHANGED <<kernel, nextWd, queue, live, dropped, old, disk, dirs, cws, ctree, pc>>
      /\ UNCHANGED <<watches, added, apc, aws, aname, scan, sdirs, gone, rest, horizon>>
  BY <1>2, <1>3
     DEF ApplyWrite, Record, diskVars, reqVars, history, engineVars, kernelVars, editVars
<1>5. todo'[a] = todo[a] \ {p} /\ \A b \in Actor : b # a => todo'[b] = todo[b]
  BY <1>1, <1>2 DEF EngineTypeOK
<1>6. \A b \in Actor : b # a => ActorSame(b)
  BY <1>4, <1>5 DEF ActorSame
<1>7. w \in Workspace /\ p \in Path
  BY <1>1, <1>2, <1>3 DEF EngineTypeOK
<1>8. EngineTypeOK'
  <2>1. todo[a] \ {p} \subseteq Path
    BY <1>1 DEF EngineTypeOK
  <2> QED BY <1>1, <1>2, <1>4, <2>1 DEF EngineTypeOK
<1>9. \A o \in todo'[a] : scan'[a][o] # None
  BY <1>1, <1>4, <1>5 DEF ActorInv
<1>10. ASSUME a \in Client
       PROVE  /\ aname'[a] = aname[a] /\ apc'[a] \in {"scan", "watch", "enter", "apply"}
              /\ pc[a] = "register" /\ w = cws[a]
              /\ Kept(cws[a]) => RegisterOK(a, cws[a])' /\ RegisterOK(a, cws[a])
  <2>1. pc[a] = "register" /\ w = cws[a]
    BY <1>1, <1>3, <1>4, <1>10 DEF ActorInv
  <2>2. ASSUME Kept(cws[a]) PROVE RegisterOK(a, cws[a])' /\ RegisterOK(a, cws[a])
    <3>1. RegisterOK(a, cws[a])
      BY <1>1, <1>10, <2>1, <2>2 DEF RegisterInv
    <3>2. \A v : RootEntered(v)' <=> RootEntered(v)
      BY <1>4 DEF RootEntered
    <3> QED BY <1>4, <1>5, <3>1, <3>2 DEF RegisterOK
  <2> QED BY <1>4, <2>1, <2>2
<1>11. LoopInv'
  BY <1>1, <1>4 DEF LoopInv
<1>12. \A v \in Workspace : \A o \in Path : ~(v = w /\ o = p) => files'[v][o] = files[v][o]
  BY <1>4 DEF TypeOK, Tree
<1>13. w \in live => files'[w][p] = x
  BY <1>4, <1>7 DEF TypeOK, Tree
<1>14. ASSUME NEW v, NEW o \in Path, Kept(v), DirOf[o] = Root, InHand(v, o) PROVE InHand(v, o)'
  <2>1. v \in Workspace /\ v \in live
    BY <1>14 DEF Kept, TypeOK
  <2>2. CASE a = Inotify
    <3>1. ~Reads(v, o) /\ ~Reads(v, o)'
      BY <1>4, <2>2 DEF Reads
    <3>2. CASE v = w /\ o = p
      <4>1. Applies(v, o) /\ ~Applies(v, o)' /\ x = disk[w][p]
        BY <1>2, <1>3, <1>4, <1>5, <1>14, <2>2, <3>1, <3>2 DEF InHand, Applies
      <4> QED BY <1>4, <1>13, <2>1, <3>1, <3>2, <4>1 DEF InHand
    <3>3. CASE ~(v = w /\ o = p)
      <4>1. Applies(v, o)' <=> Applies(v, o)
        BY <1>3, <1>4, <1>5, <2>2, <3>3 DEF Applies
      <4>2. files'[v][o] = files[v][o]
        BY <1>12, <2>1, <3>3
      <4> QED BY <1>4, <1>14, <3>1, <4>1, <4>2 DEF InHand
    <3> QED BY <3>2, <3>3
  <2>3. CASE a # Inotify
    <3>1. ActorSame(Inotify)
      BY <1>6, <2>3, Actors
    <3>2. CASE v = w /\ o = p
      <4>1. a \in Client
        BY <1>1, <1>4, <2>3 DEF ActorInv, Actor, Engine
      <4>2. RegisterOK(a, w) /\ p \in todo[a]
        BY <1>10, <1>14, <3>2, <4>1
      <4>3. x = disk[w][p]
        BY <1>3, <1>4, <4>2 DEF RegisterOK
      <4>4. files'[v][o] = disk'[v][o]
        BY <1>4, <1>13, <2>1, <3>2, <4>3
      <4> QED BY <1>4, <1>14, <3>1, <4>4 DEF InHand, Reads, Applies, ActorSame
    <3>3. CASE ~(v = w /\ o = p)
      <4>1. files'[v][o] = files[v][o]
        BY <1>12, <2>1, <3>3
      <4> QED BY <1>4, <1>14, <3>1, <4>1, LoopIdle
    <3> QED BY <3>2, <3>3
  <2> QED BY <2>2, <2>3
<1>15. \A k : Entry(k)' => Entry(k)
  BY <1>4 DEF Entry
<1>16. apc[a] # "idle" /\ aws' = aws /\ watches \subseteq watches'
  BY <1>4
<1> QED BY <1>4, <1>6, <1>8, <1>9, <1>10, <1>11, <1>14, <1>15, <1>16, MoveStep

\* The watch is entered in the table.
LEMMA EnterStep ==
  ASSUME TypeOK, NameInv, EngineInv, NEW a \in Actor, WatchEnter(a)
  PROVE  EngineInv'
<1>1. EngineTypeOK /\ ActorInv /\ LoopInv /\ RegisterInv
  BY DEF EngineInv
<1>2. PICK l : l = (IF sdirs[a] = {} THEN "apply" ELSE "watch")
  OBVIOUS
<1>3. /\ apc[a] = "enter" /\ apc' = [apc EXCEPT ![a] = l]
      /\ watches' = watches \cup added[a] /\ added' = [added EXCEPT ![a] = {}]
      /\ UNCHANGED <<kernel, nextWd, queue, live, dropped, old, disk, dirs, cws, ctree, pc>>
      /\ UNCHANGED <<files, aws, aname, scan, todo, sdirs, gone, rest, horizon>>
  BY <1>2
     DEF WatchEnter, WatchOrApply, At, vars, memVars, diskVars, reqVars, history, kernelVars, editVars
<1>4. \A b \in Actor : b # a => ActorSame(b)
  BY <1>1, <1>3 DEF ActorSame, EngineTypeOK
<1>5. apc'[a] = l /\ added'[a] = {} /\ l \in {"watch", "apply"} /\ added[a] \subseteq WatchRecord
  BY <1>1, <1>2, <1>3 DEF EngineTypeOK
<1>6. EngineTypeOK'
  <2>1. l \in Place /\ watches' \subseteq WatchRecord
    BY <1>1, <1>3, <1>5 DEF Place, EngineTypeOK
  <2> QED BY <1>1, <1>3, <2>1 DEF EngineTypeOK
<1>7. \A p \in todo'[a] : scan'[a][p] # None
  BY <1>1, <1>3 DEF ActorInv
<1>8. ASSUME a \in Client
      PROVE  /\ aname'[a] = aname[a] /\ apc'[a] \in {"scan", "watch", "enter", "apply"}
             /\ Kept(cws[a]) => RegisterOK(a, cws[a])'
  <2>1. ASSUME Kept(cws[a]) PROVE RegisterOK(a, cws[a])'
    <3>1. PICK w : w = cws[a]
      OBVIOUS
    <3>2. RegisterOK(a, w)
      BY <1>1, <1>3, <1>8, <2>1, <3>1 DEF RegisterInv, ActorInv
    <3>3. Root \in sdirs[a] \/ RootEntered(w)'
      BY <1>3, <3>2 DEF RegisterOK, RootEntered
    <3>4. RegisterOK(a, w)'
      BY <1>2, <1>3, <1>5, <3>2, <3>3 DEF RegisterOK
    <3> QED BY <1>3, <3>1, <3>4 DEF RegisterOK, RootEntered, RootWatch
  <2> QED BY <1>3, <1>5, <2>1
<1>9. LoopInv'
  <2>1. CASE a = Inotify
    BY <1>5, <2>1 DEF LoopInv
  <2>2. CASE a # Inotify
    BY <1>1, <1>3, <1>4, <2>2, Actors, LoopKept
  <2> QED BY <2>1, <2>2
<1>10. ASSUME NEW v, NEW p \in Path, InHand(v, p) PROVE InHand(v, p)'
  <2>1. CASE a = Inotify
    BY <1>3, <1>5, <1>10, <2>1 DEF InHand, Reads, Applies
  <2>2. CASE a # Inotify
    BY <1>3, <1>4, <1>10, <2>2, Actors, LoopIdle
  <2> QED BY <2>1, <2>2
<1>11. ASSUME NEW k, Entry(k)' PROVE Entry(k)
  BY <1>3, <1>4, <1>5, <1>11 DEF Entry, ActorSame
<1>12. apc[a] # "idle" /\ aws' = aws /\ watches \subseteq watches'
  BY <1>3
<1> QED BY <1>3, <1>4, <1>6, <1>7, <1>8, <1>9, <1>10, <1>11, <1>12, MoveStep

-----------------------------------------------------------------------------
(***************************************************************************)
(* The event loop.                                                         *)
(***************************************************************************)
\* The first event is about the file p of w.
Said(w, p) == About(kernel, Head(queue), w, p)

\* An event is taken from the queue.
LEMMA HandledStep ==
  ASSUME TypeOK, EngineInv, EngineTypeOK', ActorInv', LoopInv', queue # <<>>, queue' = Tail(queue),
         UNCHANGED <<kernel, nextWd, added, live, dropped, old, disk, dirs, cws, pc>>,
         watches' \subseteq watches, \A w : Kept(w) => RootsKept(w),
         \A b \in Actor : b # Inotify => ActorSame(b),
         \A w : \A p \in Path : Kept(w) /\ DirOf[p] = Root =>
           /\ Said(w, p) /\ Matches(disk, Head(queue), w, p) => InHand(w, p)'
           /\ ~Said(w, p) /\ InHand(w, p) => InHand(w, p)'
  PROVE  EngineInv'
<1>1. EngineTypeOK /\ WatchInv /\ EventInv /\ CoverInv /\ SyncInv /\ RegisterInv
  BY DEF EngineInv
<1>2. Known' = Known
  BY DEF Known
<1>3. \A k : Entry(k)' => Entry(k)
  BY DEF Entry
<1>4. WatchInv'
  BY <1>1, <1>2, <1>3, WatchKept
<1>5. EventInv'
  <2>1. QueueFrom({})
    BY <1>1, TakenFrom
  <2>2. nextWd' \in Nat /\ nextWd <= nextWd'
    BY SMT, <1>1 DEF EngineTypeOK
  <2>3. \A e \in {} : EventOK(e)'
    OBVIOUS
  <2> QED BY <1>1, <1>3, <2>1, <2>2, <2>3, EventsKept
<1>6. \A w : (Kept(w)' <=> Kept(w)) /\ (Registering(w)' <=> Registering(w))
  BY KeptSame
<1>7. ASSUME NEW w, NEW p
      PROVE  /\ NoneAbout(w, p) => NoneAbout(w, p)' /\ ~Said(w, p)
             /\ Pending(w, p) =>
                  Pending(w, p)' \/ (NoneAbout(w, p)' /\ Said(w, p) /\ Matches(disk, Head(queue), w, p))
  BY <1>1, StatusTaken DEF Said
<1>8. ASSUME NEW w, Kept(w) PROVE CoverOK(w)'
  <2>1. CoverOK(w) /\ Root \in dirs'[w]
    BY <1>1, <1>8 DEF CoverInv, Kept, CoverOK
  <2> QED BY <1>6, <1>7, <1>8, <2>1, CoverKept
<1>9. ASSUME NEW w, NEW p \in Path, Kept(w), DirOf[p] = Root PROVE SyncOK(w, p)'
  <2>1. SyncOK(w, p)
    BY <1>1, <1>9 DEF SyncInv, Kept
  <2> QED BY <1>7, <1>9, <2>1 DEF SyncOK, Settled
<1>10. CoverInv'
  BY <1>6, <1>8 DEF CoverInv, Kept
<1>11. SyncInv'
  BY <1>6, <1>9 DEF SyncInv, Kept
<1>12. RegisterInv'
  <2> SUFFICES ASSUME NEW c \in Client, pc'[c] = "register", Kept(cws[c])'
               PROVE  RegisterOK(c, cws[c])'
    BY DEF RegisterInv
  <2>1. PICK w : w = cws[c]
    OBVIOUS
  <2>2. Kept(w) /\ RegisterOK(c, w) /\ RootsKept(w)
    BY <1>1, <2>1 DEF RegisterInv, Kept, Dropping
  <2>3. ActorSame(c)
    BY Actors
  <2>4. RegisterOK(c, w)'
    BY <2>2, <2>3, RegisterKept DEF ActorSame
  <2> QED BY <2>1, <2>4 DEF RegisterOK, RootEntered, RootWatch
<1> QED BY <1>4, <1>5, <1>10, <1>11, <1>12 DEF EngineInv

\* The event at the head of the queue, and what HandleEvent leaves alone.
LEMMA HandleFacts ==
  ASSUME EngineInv, HandleEvent
  PROVE  /\ apc[Inotify] = "idle" /\ queue # <<>> /\ queue' = Tail(queue) /\ queue' \in Seq(Event)
         /\ EventOK(Head(queue)) /\ Head(queue) \in Event /\ \E i \in 1..Len(queue) : Head(queue) = queue[i]
         /\ UNCHANGED <<kernel, nextWd, added, scan, todo, gone, sdirs, horizon>>
<1>1. EngineTypeOK /\ EventInv
  BY DEF EngineInv
<1>2. /\ apc[Inotify] = "idle" /\ queue # <<>> /\ queue' = Tail(queue)
      /\ UNCHANGED <<kernel, nextWd, added, scan, todo, gone, sdirs, horizon>>
  BY DEF HandleEvent, editVars
<1>3. queue' \in Seq(Event)
  BY <1>1, <1>2, TakenFrom
<1>4. 1 \in 1..Len(queue) /\ Head(queue) = queue[1] /\ queue[1] \in Event
  <2>1. queue \in Seq(Event)
    BY <1>1 DEF EngineTypeOK
  <2> QED BY SMT, <1>2, <2>1
<1>5. EventOK(queue[1])
  BY <1>1, <1>4 DEF EventInv
<1> QED BY <1>2, <1>3, <1>4, <1>5

\* The kernel has dropped a watch: its entry goes.
LEMMA IgnoredStep ==
  ASSUME TypeOK, NameInv, EngineInv, HandleIgnored
  PROVE  EngineInv'
<1>1. EngineTypeOK /\ ActorInv /\ LoopInv
  BY DEF EngineInv
<1>2. PICK e : e = Head(queue)
  OBVIOUS
<1>3. /\ queue # <<>> /\ queue' = Tail(queue) /\ queue' \in Seq(Event) /\ EventOK(e)
      /\ e.kind = "ignored" /\ watches' = watches \ EntryOf(e)
      /\ UNCHANGED <<kernel, nextWd, added, scan, todo, gone, sdirs, horizon>>
      /\ UNCHANGED <<apc, aws, aname, rest>>
      /\ UNCHANGED <<live, dropped, old, disk, dirs, cws, pc, files, ctree>>
  BY <1>2, HandleFacts DEF HandleIgnored, vars, memVars, diskVars, reqVars, history
<1>4. EngineTypeOK' /\ ActorInv' /\ LoopInv'
  <2>1. watches' \subseteq WatchRecord
    BY <1>1, <1>3 DEF EngineTypeOK
  <2>2. Known' = Known
    BY <1>3 DEF Known
  <2>3. EngineTypeOK'
    BY <1>1, <1>3, <2>1 DEF EngineTypeOK
  <2>4. ActorInv'
    BY <1>1, <1>3, <2>2 DEF ActorInv
  <2> QED BY <1>1, <1>3, <2>3, <2>4 DEF LoopInv
<1>5. \A k \in kernel : k \notin EntryOf(e)
  BY <1>3 DEF EventOK, EntryOf
<1>6. \A w : RootsKept(w)
  BY <1>3, <1>5 DEF RootsKept, Entry
<1>7. \A b \in Actor : ActorSame(b)
  BY <1>3 DEF ActorSame
<1>8. \A w, p : ~Said(w, p)
  BY <1>2, <1>3 DEF Said, About
<1>9. \A w, p : InHand(w, p) => InHand(w, p)'
  BY <1>3 DEF InHand, Reads, Applies
<1>10. watches' \subseteq watches
  BY <1>3
<1> QED BY <1>3, <1>4, <1>6, <1>7, <1>8, <1>9, <1>10, HandledStep

\* The event is of no watch in the table, or of a workspace that is gone.
LEMMA StaleStep ==
  ASSUME TypeOK, NameInv, EngineInv, HandleStale
  PROVE  EngineInv'
<1>1. EngineTypeOK /\ ActorInv /\ LoopInv /\ WatchInv /\ CoverInv
  BY DEF EngineInv
<1>2. PICK e : e = Head(queue)
  OBVIOUS
<1>3. /\ queue # <<>> /\ queue' = Tail(queue) /\ queue' \in Seq(Event)
      /\ \A x \in EntryOf(e) : x.ws \notin live
      /\ UNCHANGED <<kernel, nextWd, added, scan, todo, gone, sdirs, horizon>>
      /\ UNCHANGED <<watches, apc, aws, aname, rest>>
      /\ UNCHANGED <<live, dropped, old, disk, dirs, cws, pc, files, ctree>>
  BY <1>2, HandleFacts DEF HandleStale, vars, memVars, diskVars, reqVars, history
<1>4. EngineTypeOK' /\ ActorInv' /\ LoopInv'
  <2>1. Known' = Known
    BY <1>3 DEF Known
  <2>2. EngineTypeOK'
    BY <1>1, <1>3 DEF EngineTypeOK
  <2>3. ActorInv'
    BY <1>1, <1>3, <2>1 DEF ActorInv
  <2> QED BY <1>1, <1>3, <2>2, <2>3 DEF LoopInv
<1>5. \A w : RootsKept(w)
  BY <1>3 DEF RootsKept, Entry
<1>6. \A b \in Actor : ActorSame(b)
  BY <1>3 DEF ActorSame
<1>7. ASSUME NEW w, NEW p \in Path, Kept(w), Said(w, p) PROVE FALSE
  <2>1. PICK k \in kernel : k.wd = e.wd /\ RootWatch(w, k)
    BY <1>2, <1>7 DEF Said, About
  <2>2. CoverOK(w) /\ w \in live
    BY <1>1, <1>7 DEF CoverInv, Kept
  <2>3. RootEntered(w)
    <3>1. \E i \in 1..Len(queue) : Head(queue) = queue[i]
      BY HandleFacts DEF HandleStale
    <3> QED BY <1>7, <2>2, <3>1 DEF CoverOK, NoneAbout, Said
  <2>4. k \in watches
    BY <1>1, <2>1, <2>3 DEF RootEntered, RootWatch, WatchInv
  <2> QED BY <1>3, <2>1, <2>2, <2>4 DEF EntryOf, RootWatch
<1>8. \A w, p : InHand(w, p) => InHand(w, p)'
  BY <1>3 DEF InHand, Reads, Applies
<1>9. watches' \subseteq watches
  BY <1>3
<1> QED BY <1>3, <1>4, <1>5, <1>6, <1>7, <1>8, <1>9, HandledStep

\* An event of a live workspace that the table has begins its handling.
LEMMA BegunStep ==
  ASSUME TypeOK, NameInv, EngineInv, HandleEvent, NEW x, x \in EntryOf(Head(queue)), x.ws \in live,
         UNCHANGED <<live, dropped, old, disk, dirs, cws, pc, ctree, watches, rest>>,
         aws' = [aws EXCEPT ![Inotify] = x.ws],
         NEW l \in Place, apc' = [apc EXCEPT ![Inotify] = l],
         NEW o \in Dir \cup Path, aname' = [aname EXCEPT ![Inotify] = o],
         l \in {"scan", "unwatch"} => o \in Dir /\ o # Root,
         \A w : \A p \in Path : Kept(w) /\ DirOf[p] = Root =>
           /\ Said(w, p) /\ Matches(disk, Head(queue), w, p) => InHand(w, p)'
           /\ ~Said(w, p) /\ InHand(w, p) => InHand(w, p)'
  PROVE  EngineInv'
<1>1. EngineTypeOK /\ ActorInv /\ LoopInv /\ WatchInv
  BY DEF EngineInv
<1>2. /\ queue # <<>> /\ queue' = Tail(queue) /\ queue' \in Seq(Event)
      /\ UNCHANGED <<kernel, nextWd, added, scan, todo, gone, sdirs, horizon>>
  BY HandleFacts
<1>3. x.ws \in Known /\ x.ws \in Workspace
  BY DEF Known, TypeOK
<1>4. EngineTypeOK'
  BY <1>1, <1>2, <1>3 DEF EngineTypeOK
<1>5. \A b \in Actor : b # Inotify => ActorSame(b)
  BY <1>1, <1>2 DEF ActorSame, EngineTypeOK
<1>6. apc'[Inotify] = l /\ aws'[Inotify] = x.ws /\ aname'[Inotify] = o
  BY <1>1, Actors DEF EngineTypeOK
<1>7. ActorInv'
  <2>1. \A p \in todo'[Inotify] : scan'[Inotify][p] # None
    BY <1>1, <1>2, Actors DEF ActorInv
  <2> QED BY <1>1, <1>3, <1>5, <1>6, <2>1, Actors, ActorStep
<1>8. LoopInv'
  BY <1>6 DEF LoopInv
<1>9. \A w : RootsKept(w)
  BY <1>2 DEF RootsKept, Entry
<1>10. watches' \subseteq watches
  OBVIOUS
<1> QED BY <1>2, <1>4, <1>5, <1>7, <1>8, <1>9, <1>10, HandledStep

\* It is about a file of the root of w if, and only if, its watch is on this root.
LEMMA LiveSaid ==
  ASSUME EngineInv, NEW x, x \in EntryOf(Head(queue)), EventOK(Head(queue)),
         NEW w, Kept(w), NEW p \in Path, DirOf[p] = Root
  PROVE  Said(w, p) <=> x.ws = w /\ Head(queue).name = p /\ Head(queue).kind \in {"sync", "delete"}
<1>1. WatchInv /\ CoverInv
  BY DEF EngineInv
<1>2. PICK e : e = Head(queue)
  OBVIOUS
<1>3. Entry(x) /\ x.wd = e.wd
  BY <1>2 DEF EntryOf, Entry
<1>4. ASSUME Said(w, p) PROVE x.ws = w /\ e.name = p /\ e.kind \in {"sync", "delete"}
  <2>1. PICK k \in kernel : k.wd = e.wd /\ RootWatch(w, k)
    BY <1>2, <1>4 DEF Said, About
  <2>2. k = x
    BY <1>1, <1>3, <2>1 DEF WatchInv, Entry
  <2> QED BY <1>2, <1>4, <2>1, <2>2 DEF Said, About, RootWatch
<1>5. ASSUME x.ws = w, e.name = p, e.kind \in {"sync", "delete"} PROVE Said(w, p)
  <2>1. x.dir = Root
    BY <1>2, <1>3, <1>5 DEF EventOK
  <2>2. x \in kernel
    BY <1>1, <1>3, <1>5, <2>1 DEF CoverInv, CoverOK, Kept, RootWatch
  <2> QED BY <1>2, <1>3, <1>5, <2>1, <2>2 DEF Said, About, RootWatch
<1> QED BY <1>2, <1>4, <1>5

\* The event loop handles an event.
LEMMA LiveStep ==
  ASSUME TypeOK, NameInv, EngineInv, HandleLive
  PROVE  EngineInv'
<1>1. EngineTypeOK /\ ActorInv
  BY DEF EngineInv
<1>2. PICK e : e = Head(queue)
  OBVIOUS
<1>3. PICK x \in EntryOf(e) :
        /\ x.ws \in live /\ aws' = [aws EXCEPT ![Inotify] = x.ws]
        /\ \/ e.kind = "sync" /\ Begin("read") /\ UNCHANGED vars
           \/ e.kind = "newdir" /\ Begin("scan") /\ UNCHANGED vars
           \/ e.kind = "delete" /\ Forget(x.ws, {e.name}) /\ UNCHANGED <<apc, aname>>
           \/ /\ e.kind \in {"self", "deldir"}
              /\ Forget(x.ws, {p \in Path : InDir(p, e.name)}) /\ Begin("unwatch")
  BY <1>2 DEF HandleLive
<1>4. /\ HandleEvent /\ apc[Inotify] = "idle" /\ EventOK(e) /\ e \in Event
      /\ UNCHANGED <<watches, rest>>
  BY <1>2, HandleFacts DEF HandleLive
<1>5. e.name \in Dir \cup Path
  BY SMT, <1>4 DEF Event
<1>6. \A w : \A p \in Path : InHand(w, p) => files[w][p] = disk[w][p]
  <2> SUFFICES ASSUME NEW w, NEW p \in Path PROVE InHand(w, p) => files[w][p] = disk[w][p]
    OBVIOUS
  <2> QED BY <1>4 DEF InHand, Reads, Applies
<1>7. \A w : \A p \in Path : Kept(w) /\ DirOf[p] = Root =>
        (Said(w, p) <=> x.ws = w /\ e.name = p /\ e.kind \in {"sync", "delete"})
  BY <1>2, <1>3, <1>4, LiveSaid
<1>8. Entry(x) /\ x.wd = e.wd
  BY <1>3 DEF EntryOf, Entry
<1>9. e.kind \in {"newdir", "self", "deldir"} => e.name \in Dir /\ e.name # Root
  BY <1>3, <1>4, <1>8 DEF EventOK
<1>10. aws'[Inotify] = x.ws
  BY <1>1, <1>3, Actors DEF EngineTypeOK
<1>11. ASSUME UNCHANGED vars
       PROVE  UNCHANGED <<live, dropped, old, disk, dirs, cws, pc, ctree, files>>
  BY <1>11 DEF vars, memVars, diskVars, reqVars, history
<1>12. ASSUME NEW l, Begin(l)
       PROVE  /\ apc' = [apc EXCEPT ![Inotify] = l] /\ aname' = [aname EXCEPT ![Inotify] = e.name]
              /\ apc'[Inotify] = l /\ aname'[Inotify] = e.name
  BY <1>1, <1>2, <1>12, Actors DEF Begin, At, EngineTypeOK
<1>13. ASSUME NEW paths, Forget(x.ws, paths)
       PROVE  /\ UNCHANGED <<live, dropped, old, disk, dirs, cws, pc, ctree>>
              /\ \A w \in Workspace : \A p \in Path :
                   files'[w][p] = IF w = x.ws /\ p \in paths THEN None ELSE files[w][p]
  <2>1. /\ UNCHANGED <<live, dropped, old, disk, dirs, cws, pc, ctree>>
        /\ files' = [files EXCEPT ![x.ws] = [p \in Path |-> IF p \in paths THEN None ELSE @[p]]]
    BY <1>3, <1>13 DEF Forget, diskVars, reqVars, history
  <2> QED BY <2>1 DEF TypeOK
<1>14. {"read", "scan", "unwatch", "idle"} \subseteq Place
  BY DEF Place
<1>15. CASE e.kind = "sync" /\ Begin("read") /\ UNCHANGED vars
  <2>1. ASSUME NEW w, NEW p \in Path, Kept(w), DirOf[p] = Root
        PROVE  /\ Said(w, p) /\ Matches(disk, e, w, p) => InHand(w, p)'
               /\ ~Said(w, p) /\ InHand(w, p) => InHand(w, p)'
    <3>1. ~Applies(w, p)' /\ (Reads(w, p)' <=> Said(w, p))
      BY <1>7, <1>10, <1>12, <1>15, <2>1 DEF Applies, Reads
    <3> QED BY <1>6, <1>11, <1>15, <3>1 DEF InHand, Matches
  <2> QED BY <1>2, <1>3, <1>4, <1>5, <1>11, <1>12, <1>14, <1>15, <2>1, BegunStep
<1>16. CASE e.kind = "newdir" /\ Begin("scan") /\ UNCHANGED vars
  <2>1. ASSUME NEW w, NEW p \in Path, Kept(w), DirOf[p] = Root
        PROVE  /\ Said(w, p) /\ Matches(disk, e, w, p) => InHand(w, p)'
               /\ ~Said(w, p) /\ InHand(w, p) => InHand(w, p)'
    <3>1. ~Applies(w, p)' /\ ~Reads(w, p)' /\ ~Said(w, p)
      <4>1. ~Said(w, p)
        BY <1>7, <1>16, <2>1
      <4>2. apc'[Inotify] = "scan"
        BY <1>12, <1>16
      <4> QED BY <4>1, <4>2 DEF Applies, Reads
    <3> QED BY <1>6, <1>11, <1>16, <3>1 DEF InHand
  <2> QED BY <1>2, <1>3, <1>4, <1>5, <1>9, <1>11, <1>12, <1>14, <1>16, <2>1, BegunStep
<1>17. CASE e.kind = "delete" /\ Forget(x.ws, {e.name}) /\ UNCHANGED <<apc, aname>>
  <2>1. PICK o : o = aname[Inotify]
    OBVIOUS
  <2>2. /\ apc' = [apc EXCEPT ![Inotify] = "idle"] /\ aname' = [aname EXCEPT ![Inotify] = o]
        /\ o \in Dir \cup Path
    BY <1>1, <1>4, <1>17, <2>1, Actors DEF EngineTypeOK
  <2>3. ASSUME NEW w, NEW p \in Path, Kept(w), DirOf[p] = Root
        PROVE  /\ Said(w, p) /\ Matches(disk, e, w, p) => InHand(w, p)'
               /\ ~Said(w, p) /\ InHand(w, p) => InHand(w, p)'
    <3>1. ~Applies(w, p)' /\ ~Reads(w, p)' /\ w \in Workspace /\ disk'[w][p] = disk[w][p]
      BY <1>4, <1>13, <1>17, <2>3 DEF Applies, Reads, Kept, TypeOK
    <3>2. files'[w][p] = IF Said(w, p) THEN None ELSE files[w][p]
      <4>1. PICK S : S = {e.name}
        OBVIOUS
      <4>2. Forget(x.ws, S)
        BY <1>17, <4>1
      <4>3. \A u \in Workspace : \A q \in Path :
              files'[u][q] = IF u = x.ws /\ q \in S THEN None ELSE files[u][q]
        BY <1>13, <4>2
      <4>4. files'[w][p] = IF w = x.ws /\ p \in S THEN None ELSE files[w][p]
        BY <3>1, <4>3
      <4>5. Said(w, p) <=> w = x.ws /\ p \in S
        BY <1>7, <1>17, <2>3, <4>1
      <4> QED BY <4>4, <4>5
    <3> QED BY <1>6, <1>17, <3>1, <3>2 DEF InHand, Matches
  <2> QED BY <1>2, <1>3, <1>4, <1>13, <1>14, <1>17, <2>2, <2>3, BegunStep
<1>18. CASE /\ e.kind \in {"self", "deldir"}
            /\ Forget(x.ws, {p \in Path : InDir(p, e.name)}) /\ Begin("unwatch")
  <2>1. ASSUME NEW w, NEW p \in Path, Kept(w), DirOf[p] = Root
        PROVE  /\ Said(w, p) /\ Matches(disk, e, w, p) => InHand(w, p)'
               /\ ~Said(w, p) /\ InHand(w, p) => InHand(w, p)'
    <3>1. /\ ~Applies(w, p)' /\ ~Reads(w, p)' /\ ~Said(w, p) /\ w \in Workspace
          /\ disk'[w][p] = disk[w][p]
      <4>1. ~Said(w, p)
        BY <1>7, <1>18, <2>1
      <4>2. apc'[Inotify] = "unwatch"
        BY <1>12, <1>18
      <4>3. UNCHANGED disk
        BY <1>13, <1>18
      <4> QED BY <2>1, <4>1, <4>2, <4>3 DEF Applies, Reads, Kept, TypeOK
    <3>2. p \notin {q \in Path : InDir(q, e.name)}
      BY <1>9, <1>18, <2>1 DEF InDir
    <3>3. files'[w][p] = files[w][p]
      <4>1. PICK S : S = {q \in Path : InDir(q, e.name)}
        OBVIOUS
      <4>2. Forget(x.ws, S)
        BY <1>18, <4>1
      <4>3. \A u \in Workspace : \A q \in Path :
              files'[u][q] = IF u = x.ws /\ q \in S THEN None ELSE files[u][q]
        BY <1>13, <4>2
      <4>4. files'[w][p] = IF w = x.ws /\ p \in S THEN None ELSE files[w][p]
        BY <3>1, <4>3
      <4> QED BY <3>2, <4>1, <4>4
    <3> QED BY <1>6, <3>1, <3>3 DEF InHand
  <2>2. UNCHANGED <<live, dropped, old, disk, dirs, cws, pc, ctree>>
    BY <1>13, <1>18
  <2>3. /\ apc' = [apc EXCEPT ![Inotify] = "unwatch"]
        /\ aname' = [aname EXCEPT ![Inotify] = e.name]
    BY <1>12, <1>18
  <2>4. e.name \in Dir /\ e.name # Root
    BY <1>9, <1>18
  <2> QED BY <1>2, <1>3, <1>4, <1>5, <1>14, <2>1, <2>2, <2>3, <2>4, BegunStep
<1> QED BY <1>3, <1>15, <1>16, <1>17, <1>18

\* The event loop removes the watches of a subdirectory, or of a workspace that
\* is gone.
LEMMA UnwatchStep ==
  ASSUME TypeOK, NameInv, EngineInv, ~overflowed', Unwatch
  PROVE  EngineInv'
<1>1. /\ EngineTypeOK /\ ActorInv /\ WatchInv /\ EventInv /\ CoverInv /\ RegisterInv
      /\ LoopInv /\ SyncInv
  BY DEF EngineInv
<1>2. PICK w, stale : w = aws[Inotify] /\ stale = EntriesUnder(w, aname[Inotify])
  OBVIOUS
<1>3. /\ apc[Inotify] = "unwatch" /\ RemoveWatches(stale)
      /\ apc' = [apc EXCEPT ![Inotify] = "idle"] /\ aname' = [aname EXCEPT ![Inotify] = Root]
      /\ UNCHANGED <<live, files, dropped, old, disk, dirs, cws, ctree, pc>>
      /\ UNCHANGED <<added, aws, scan, todo, gone, sdirs, rest, horizon>>
  BY <1>2 DEF Unwatch, At, vars, memVars, diskVars, reqVars, history, editVars
<1>4. /\ kernel' = kernel \ stale /\ watches' = watches \ stale /\ nextWd' = nextWd
      /\ kernel' \subseteq kernel /\ watches' \subseteq watches
  BY <1>3 DEF RemoveWatches
<1>5. PICK E : /\ Adds(E) /\ \A e \in E : EventOK(e)'
               /\ \A e \in E : e.kind = "ignored"
  BY <1>1, <1>3, RemoveFacts
<1>6. /\ apc'[Inotify] = "idle" /\ aname'[Inotify] = Root
      /\ \A b \in Actor : b # Inotify => ActorSame(b)
  BY <1>1, <1>3, Actors DEF EngineTypeOK, ActorSame
<1>7. EngineTypeOK'
  <2>1. IsFiniteSet(kernel')
    BY <1>1, <1>4, FS_Subset DEF EngineTypeOK
  <2>2. queue' \in Seq(Event) /\ "idle" \in Place /\ Root \in Dir \cup Path
    BY <1>5 DEF Adds, Place, Dir
  <2> QED BY <1>1, <1>3, <1>4, <2>1, <2>2 DEF EngineTypeOK
<1>8. \A k : Entry(k)' => Entry(k)
  BY <1>3, <1>4 DEF Entry
<1>9. WatchInv'
  <2>1. Known' = Known
    BY <1>3 DEF Known
  <2> QED BY <1>1, <1>4, <1>8, <2>1, WatchKept
<1>10. EventInv'
  <2>1. QueueFrom(E)
    BY <1>5, AddsFrom
  <2>2. nextWd' \in Nat /\ nextWd <= nextWd'
    BY SMT, <1>1, <1>4 DEF EngineTypeOK
  <2>3. \A k : Entry(k) /\ k.ws \in live' => k.ws \in live
    BY <1>3
  <2> QED BY <1>1, <1>4, <1>5, <1>8, <2>1, <2>2, <2>3, EventsKept
<1>11. ActorInv'
  <2>1. \A p \in todo'[Inotify] : scan'[Inotify][p] # None
    BY <1>1, <1>3, Actors DEF ActorInv
  <2> QED BY <1>1, <1>3, <1>6, <2>1, Actors, ActorStep
<1>12. LoopInv'
  BY <1>6 DEF LoopInv
<1>13. \A v : (Kept(v)' <=> Kept(v)) /\ (Registering(v)' <=> Registering(v))
  BY <1>3, KeptSame
<1>14. ASSUME NEW v, Kept(v) PROVE RootsKept(v) /\ RootSame(v) /\ v \in live /\ ~Dropping(v)
  <2>1. v \in live /\ ~Dropping(v)
    BY <1>14 DEF Kept
  <2>2. \A k : RootWatch(v, k) => k \notin stale
    BY <1>1, <1>2, <1>3, <2>1 DEF RootWatch, EntriesUnder, LoopInv
  <2>3. RootsKept(v)
    BY <1>4, <1>8, <2>2 DEF RootsKept
  <2> QED BY <2>1, <2>3, RootsFacts
<1>15. \A v, p : \A e \in E : ~About(kernel', e, v, p)
  BY <1>5 DEF About
<1>16. ASSUME NEW v, Kept(v), NEW p
       PROVE  /\ Pending(v, p) => Pending(v, p)'
              /\ NoneAbout(v, p) => NoneAbout(v, p)'
  <2>1. RootSame(v) /\ disk'[v][p] = disk[v][p]
    BY <1>3, <1>14, <1>16
  <2> QED BY <1>1, <1>5, <1>15, <2>1, StatusKept
<1>17. CoverInv'
  <2> SUFFICES ASSUME NEW v, Kept(v)' PROVE CoverOK(v)'
    BY DEF CoverInv, Kept
  <2>1. Kept(v)
    BY <1>13
  <2>2. CoverOK(v) /\ RootsKept(v)
    BY <1>1, <1>14, <2>1 DEF CoverInv
  <2>3. Root \in dirs'[v] /\ (Registering(v) => Registering(v)')
    BY <1>3, <1>13, <2>2 DEF CoverOK
  <2>4. \A p \in Path : NoneAbout(v, p) => NoneAbout(v, p)'
    BY <1>16, <2>1
  <2> QED BY <2>2, <2>3, <2>4, CoverKept
<1>18. RegisterInv'
  <2> SUFFICES ASSUME NEW c \in Client, pc'[c] = "register", Kept(cws[c])' PROVE RegisterOK(c, cws[c])'
    BY DEF RegisterInv
  <2>1. PICK v : v = cws[c]
    OBVIOUS
  <2>2. cws'[c] = v /\ Kept(v)
    BY <1>3, <1>13, <2>1
  <2>3. RegisterOK(c, v) /\ RootsKept(v)
    BY <1>1, <1>3, <1>14, <2>1, <2>2 DEF RegisterInv
  <2>4. ActorSame(c) /\ disk'[v] = disk[v]
    BY <1>3, <1>6, Actors
  <2>5. RegisterOK(c, v)'
    BY <2>3, <2>4, RegisterKept DEF ActorSame
  <2> QED BY <2>2, <2>5 DEF RegisterOK, RootEntered, RootWatch
<1>19. SyncInv'
  <2> SUFFICES ASSUME NEW v, Kept(v)', NEW p \in Path, DirOf[p] = Root PROVE SyncOK(v, p)'
    BY DEF SyncInv, Kept
  <2>1. Kept(v)
    BY <1>13
  <2>2. SyncOK(v, p)
    BY <1>1, <1>14, <2>1 DEF SyncInv
  <2>3. InHand(v, p) => InHand(v, p)'
    BY <1>3, <1>6 DEF InHand, Reads, Applies
  <2> QED BY <1>16, <2>1, <2>2, <2>3 DEF SyncOK, Settled
<1> QED BY <1>7, <1>9, <1>10, <1>11, <1>12, <1>17, <1>18, <1>19 DEF EngineInv

-----------------------------------------------------------------------------
(***************************************************************************)
(* A new watch.                                                            *)
(***************************************************************************)
\* The directory d of w is watched, if it is there; a new watch has a new
\* descriptor.
Watched(w, d) ==
  /\ kernel \subseteq kernel' /\ kernel' \subseteq WatchRecord /\ IsFiniteSet(kernel')
  /\ nextWd' \in Nat /\ nextWd <= nextWd'
  /\ \A k \in kernel' : k \in kernel \/ (k.wd = nextWd /\ nextWd < nextWd' /\ k.ws = w /\ k.dir = d)
  /\ \A k, l \in kernel' : k \notin kernel /\ l \notin kernel => k = l
  /\ \A k \in kernel' : k \notin kernel => Held(w, d) = {}
  /\ d \in dirs[w] => \E k \in kernel' : k.ws = w /\ k.dir = d

\* inotify_add_watch does that.
LEMMA AddWatched ==
  ASSUME EngineTypeOK, NEW w \in Workspace, NEW d \in Dir, AddWatch(w, d)
  PROVE  Watched(w, d)
<1>1. nextWd \in Nat /\ kernel \subseteq WatchRecord /\ IsFiniteSet(kernel)
  BY DEF EngineTypeOK
<1>2. CASE Held(w, d) # {}
  <2>1. UNCHANGED <<kernel, nextWd>>
    BY <1>2 DEF AddWatch
  <2>2. \E k \in kernel : k.ws = w /\ k.dir = d
    BY <1>2 DEF Held
  <2>3. nextWd' \in Nat /\ nextWd <= nextWd'
    BY SMT, <1>1, <2>1
  <2> QED BY <1>1, <2>1, <2>2, <2>3 DEF Watched
<1>3. CASE Held(w, d) = {}
  <2>1. PICK n, new : /\ n = [wd |-> nextWd, ws |-> w, dir |-> d]
                      /\ new = {[wd |-> nextWd, ws |-> w, dir |-> d] : x \in {d} \cap dirs[w]}
    OBVIOUS
  <2>2. kernel' = kernel \cup new /\ nextWd' = nextWd + Cardinality(new)
    BY <1>3, <2>1 DEF AddWatch
  <2>3. CASE d \in dirs[w]
    <3>1. new = {n}
      BY <2>1, <2>3
    <3>2. IsFiniteSet(new) /\ Cardinality(new) = 1
      BY <3>1, FS_Singleton
    <3>3. IsFiniteSet(kernel')
      BY <1>1, <2>2, <3>2, FS_Union
    <3>4. nextWd' \in Nat /\ nextWd <= nextWd' /\ nextWd < nextWd'
      BY SMT, <1>1, <2>2, <3>2
    <3>5. n \in WatchRecord /\ n.wd = nextWd /\ n.ws = w /\ n.dir = d
      BY SMT, <1>1, <2>1 DEF WatchRecord
    <3> QED BY <1>1, <1>3, <2>2, <3>1, <3>3, <3>4, <3>5 DEF Watched
  <2>4. CASE d \notin dirs[w]
    <3>1. new = {}
      BY <2>1, <2>4
    <3>2. Cardinality(new) = 0
      BY <3>1, FS_EmptySet
    <3>3. kernel' = kernel
      BY <2>2, <3>1
    <3>4. nextWd' \in Nat /\ nextWd <= nextWd'
      BY SMT, <1>1, <2>2, <3>2
    <3> QED BY <1>1, <2>4, <3>3, <3>4 DEF Watched
  <2> QED BY <2>3, <2>4
<1> QED BY <1>2, <1>3

\* A descriptor still names one watch, and a directory has one watch at most.
LEMMA WatchedInv ==
  ASSUME EngineTypeOK, WatchInv, NEW w, NEW d, Watched(w, d), w \in Known, Known' = Known,
         \A k : Entry(k)' => Entry(k) \/ k \in kernel'
  PROVE  WatchInv'
<1>1. nextWd \in Nat /\ ~(nextWd < nextWd)
  BY SMT DEF EngineTypeOK
<1>2. \A k : Entry(k)' => Entry(k) \/ (k \in kernel' /\ k \notin kernel)
  BY DEF Entry
<1>3. ASSUME NEW k, Entry(k) PROVE k.wd < nextWd /\ k.wd < nextWd' /\ k.ws \in Known
  <2>1. PICK x : x = k.wd
    OBVIOUS
  <2>2. x < nextWd /\ k.ws \in Known /\ x \in Nat
    <3>1. k \in WatchRecord
      BY <1>3 DEF Entry, EngineTypeOK
    <3> QED BY SMT, <1>3, <2>1, <3>1 DEF WatchInv, WatchRecord
  <2>3. nextWd' \in Nat /\ nextWd <= nextWd'
    BY DEF Watched
  <2>4. x < nextWd'
    BY SMT, <1>1, <2>2, <2>3
  <2> QED BY <2>1, <2>2, <2>4
<1>4. ASSUME NEW k \in kernel', k \notin kernel PROVE k.wd = nextWd /\ k.wd < nextWd' /\ k.ws \in Known
  BY <1>4 DEF Watched
<1>5. \A k : Entry(k)' => k.wd < nextWd' /\ k.ws \in Known'
  BY <1>2, <1>3, <1>4
<1>6. ASSUME NEW k, NEW l, Entry(k)', Entry(l)', k.wd = l.wd PROVE k = l
  <2>1. CASE Entry(k) /\ Entry(l)
    BY <1>6, <2>1 DEF WatchInv
  <2>2. CASE ~Entry(k) /\ ~Entry(l)
    BY <1>2, <1>6, <2>2 DEF Watched
  <2>3. CASE Entry(k) /\ ~Entry(l)
    BY <1>1, <1>2, <1>3, <1>4, <1>6, <2>3
  <2>4. CASE ~Entry(k) /\ Entry(l)
    BY <1>1, <1>2, <1>3, <1>4, <1>6, <2>4
  <2> QED BY <2>1, <2>2, <2>3, <2>4
<1>7. ASSUME NEW k \in kernel', NEW l \in kernel', k.ws = l.ws, k.dir = l.dir PROVE k = l
  <2>1. CASE k \in kernel /\ l \in kernel
    BY <1>7, <2>1 DEF WatchInv
  <2>2. CASE k \notin kernel /\ l \notin kernel
    BY <1>7, <2>2 DEF Watched
  <2>3. CASE k \in kernel /\ l \notin kernel
    BY <1>7, <2>3 DEF Watched, Held
  <2>4. CASE k \notin kernel /\ l \in kernel
    BY <1>7, <2>4 DEF Watched, Held
  <2> QED BY <2>1, <2>2, <2>3, <2>4
<1> QED BY <1>5, <1>6, <1>7 DEF WatchInv

\* A directory is watched.
LEMMA WatchStep ==
  ASSUME TypeOK, NameInv, EngineInv, NEW a \in Actor, Watch(a)
  PROVE  EngineInv'
<1>1. /\ EngineTypeOK /\ ActorInv /\ WatchInv /\ EventInv /\ CoverInv /\ RegisterInv
      /\ LoopInv /\ SyncInv
  BY DEF EngineInv
<1>2. /\ apc[a] = "watch"
      /\ UNCHANGED <<queue, watches, live, files, dropped, old, disk, dirs, cws, ctree, pc>>
      /\ UNCHANGED <<aws, aname, scan, todo, gone, rest, horizon>>
  BY DEF Watch, vars, memVars, diskVars, reqVars, history, editVars
<1>3. PICK w : w = aws[a]
  OBVIOUS
<1>4. PICK d \in sdirs[a] :
        /\ AddWatch(w, d)
        /\ sdirs' = [sdirs EXCEPT ![a] = @ \ {d}]
        /\ added' = [added EXCEPT ![a] = {k \in kernel' : k.ws = w /\ k.dir = d}]
        /\ IF added'[a] = {} THEN WatchOrApply(a, sdirs'[a]) ELSE At(a, "enter")
  BY <1>3 DEF Watch
<1>5. PICK A, l : /\ A = {k \in kernel' : k.ws = w /\ k.dir = d}
                  /\ l = (IF A # {} THEN "enter" ELSE IF sdirs'[a] = {} THEN "apply" ELSE "watch")
  OBVIOUS
<1>6. added' = [added EXCEPT ![a] = A] /\ added'[a] = A /\ sdirs'[a] = sdirs[a] \ {d}
  BY <1>1, <1>4, <1>5 DEF EngineTypeOK
<1>7. apc' = [apc EXCEPT ![a] = l] /\ apc'[a] = l /\ l \in {"enter", "apply", "watch"}
  BY <1>1, <1>4, <1>5, <1>6 DEF WatchOrApply, At, EngineTypeOK
<1>8. w \in Workspace /\ d \in Dir /\ w \in Known
  BY <1>1, <1>2, <1>3, <1>4 DEF EngineTypeOK, ActorInv
<1>9. Watched(w, d)
  BY <1>1, <1>4, <1>8, AddWatched
<1>10. /\ kernel \subseteq kernel' /\ kernel' \subseteq WatchRecord /\ IsFiniteSet(kernel')
       /\ nextWd' \in Nat /\ nextWd <= nextWd' /\ (d \in dirs[w] => A # {}) /\ A \subseteq kernel'
       /\ \A k \in kernel' : k \in kernel \/ ~(k.wd < nextWd)
  <2>1. ~(nextWd < nextWd)
    BY SMT, <1>1 DEF EngineTypeOK
  <2> QED BY <1>5, <1>9, <2>1 DEF Watched
<1>11. \A b \in Actor : b # a => ActorSame(b)
  BY <1>1, <1>2, <1>4, <1>6, <1>7 DEF ActorSame, EngineTypeOK
<1>12. EngineTypeOK'
  <2>1. /\ l \in Place /\ A \subseteq WatchRecord /\ sdirs[a] \ {d} \subseteq Dir
        /\ queue' \in Seq(Event) /\ watches' \subseteq WatchRecord
    BY <1>1, <1>2, <1>7, <1>10 DEF Place, EngineTypeOK
  <2>2. added' \in [Actor -> SUBSET WatchRecord] /\ apc' \in [Actor -> Place]
    BY <1>1, <1>6, <1>7, <2>1 DEF EngineTypeOK
  <2>3. sdirs' \in [Actor -> SUBSET Dir]
    BY <1>1, <1>4, <2>1 DEF EngineTypeOK
  <2> QED BY <1>1, <1>2, <1>10, <2>1, <2>2, <2>3 DEF EngineTypeOK
<1>13. \A k : Entry(k)' => Entry(k) \/ k \in kernel'
  BY <1>2, <1>6, <1>10, <1>11 DEF Entry, ActorSame
<1>14. Known' = Known
  BY <1>2 DEF Known
<1>15. WatchInv'
  BY <1>1, <1>8, <1>9, <1>13, <1>14, WatchedInv
<1>16. EventInv'
  <2>1. Adds({}) /\ QueueFrom({})
    BY <1>1, <1>2, AddsNothing, AddsFrom
  <2>2. \A k : Entry(k)' => Entry(k) \/ ~(k.wd < nextWd)
    BY <1>10, <1>13 DEF Entry
  <2>3. (\A k : Entry(k) /\ k.ws \in live' => k.ws \in live) /\ \A e \in {} : EventOK(e)'
    BY <1>2
  <2> QED BY <1>1, <1>10, <2>1, <2>2, <2>3, EventsKept
<1>17. ActorInv'
  <2>1. \A p \in todo'[a] : scan'[a][p] # None
    BY <1>1, <1>2 DEF ActorInv
  <2>2. a # Reconciler /\ aws'[a] \in Known /\ \A c \in Client : c # a => pc'[c] = pc[c]
    BY <1>1, <1>2, <1>3, <1>8 DEF ActorInv
  <2>3. ASSUME a \in Client
        PROVE  /\ pc'[a] \notin Writing /\ pc'[a] # "create" /\ pc'[a] = "register"
               /\ aws'[a] = cws[a] /\ aname'[a] = Root
               /\ apc'[a] \in {"scan", "watch", "enter", "apply"}
    <3>1. pc[a] \notin Writing /\ pc[a] = "register" /\ aws[a] = cws[a] /\ aname[a] = Root
      BY <1>1, <1>2, <2>3 DEF ActorInv
    <3> QED BY <1>2, <1>7, <3>1
  <2> QED BY <1>1, <1>2, <1>11, <2>1, <2>2, <2>3, ActorStep
<1>18. LoopInv'
  <2>1. CASE a = Inotify
    BY <1>7, <2>1 DEF LoopInv
  <2>2. CASE a # Inotify
    BY <1>1, <1>2, <1>11, <2>2, Actors, LoopKept
  <2> QED BY <2>1, <2>2
<1>19. \A v : (Kept(v)' <=> Kept(v)) /\ (Registering(v)' <=> Registering(v))
  BY <1>2, KeptSame
<1>20. \A v : RootSame(v) /\ (RootEntered(v) => RootEntered(v)')
  BY <1>2, <1>10 DEF RootSame, RootEntered
<1>21. ASSUME NEW v, NEW p
       PROVE  /\ Pending(v, p) => Pending(v, p)'
              /\ NoneAbout(v, p) => NoneAbout(v, p)'
  <2>1. Adds({}) /\ (\A e \in {} : ~About(kernel', e, v, p)) /\ disk'[v][p] = disk[v][p]
    BY <1>1, <1>2, AddsNothing
  <2> QED BY <1>1, <1>20, <2>1, StatusKept
<1>22. CoverInv'
  <2> SUFFICES ASSUME NEW v, Kept(v)' PROVE CoverOK(v)'
    BY DEF CoverInv, Kept
  <2>1. CoverOK(v)
    BY <1>1, <1>19 DEF CoverInv, Kept
  <2>2. Root \in dirs'[v]
    BY <1>2, <2>1 DEF CoverOK
  <2>3. RootEntered(v)' \/ (Registering(v)' /\ \A p \in Path : NoneAbout(v, p)')
    BY <1>19, <1>20, <1>21, <2>1 DEF CoverOK
  <2>4. \A k : Entry(k)' /\ RootWatch(v, k) => k \in kernel'
    BY <1>10, <1>13, <2>1 DEF CoverOK
  <2> QED BY <2>2, <2>3, <2>4 DEF CoverOK, RootWatch
<1>23. RegisterInv'
  <2> SUFFICES ASSUME NEW c \in Client, pc'[c] = "register", Kept(cws[c])' PROVE RegisterOK(c, cws[c])'
    BY DEF RegisterInv
  <2>1. PICK v : v = cws[c]
    OBVIOUS
  <2>2. cws'[c] = v /\ Kept(v) /\ disk'[v] = disk[v]
    BY <1>2, <1>19, <2>1
  <2>3. RegisterOK(c, v) /\ Root \in dirs[v]
    BY <1>1, <1>2, <2>1, <2>2 DEF RegisterInv, CoverInv, CoverOK, Kept
  <2>4. CASE c = a
    <3>1. v = w
      BY <1>1, <1>2, <1>3, <2>1, <2>4 DEF ActorInv
    <3>2. Root \in sdirs[a] \/ RootEntered(v)'
      BY <1>2, <1>20, <2>3, <2>4 DEF RegisterOK
    <3>3. ASSUME d = Root
          PROVE  l = "enter" /\ \E k \in A : k \in kernel' /\ RootWatch(v, k)
      BY <1>5, <1>10, <2>3, <3>1, <3>3 DEF RootWatch
    <3>4. l = "apply" => sdirs'[a] = {}
      BY <1>5
    <3>5. \A p \in todo'[c] : scan'[c][p] = disk'[v][p]
      BY <1>2, <2>2, <2>3, <2>4 DEF RegisterOK
    <3>6. CASE d = Root
      BY <1>6, <1>7, <2>2, <2>4, <3>3, <3>5, <3>6 DEF RegisterOK, RootWatch
    <3>7. CASE d # Root
      <4>1. Root \in sdirs'[a] \/ RootEntered(v)'
        BY <1>6, <3>2, <3>7
      <4>2. l = "apply" => RootEntered(v)'
        BY <3>4, <4>1
      <4> QED BY <1>7, <2>2, <2>4, <3>5, <4>1, <4>2 DEF RegisterOK, RootEntered, RootWatch
    <3> QED BY <3>6, <3>7
  <2>5. CASE c # a
    <3>1. ActorSame(c)
      BY <1>11, <2>5, Actors
    <3>2. RegisterOK(c, v)'
      BY <1>10, <1>20, <2>2, <2>3, <3>1 DEF RegisterOK, ActorSame
    <3> QED BY <2>2, <3>2 DEF RegisterOK, RootEntered, RootWatch
  <2> QED BY <2>4, <2>5
<1>24. ASSUME NEW v, NEW p, InHand(v, p) PROVE InHand(v, p)'
  <2>1. CASE a = Inotify
    BY <1>2, <1>7, <1>24, <2>1 DEF InHand, Reads, Applies
  <2>2. CASE a # Inotify
    BY <1>2, <1>11, <1>24, <2>2, Actors, LoopIdle
  <2> QED BY <2>1, <2>2
<1>25. SyncInv'
  <2> SUFFICES ASSUME NEW v, Kept(v)', NEW p \in Path, DirOf[p] = Root PROVE SyncOK(v, p)'
    BY DEF SyncInv, Kept
  <2>1. SyncOK(v, p)
    BY <1>1, <1>19 DEF SyncInv, Kept
  <2> QED BY <1>21, <1>24, <2>1 DEF SyncOK, Settled
<1> QED BY <1>12, <1>15, <1>16, <1>17, <1>18, <1>22, <1>23, <1>25 DEF EngineInv

-----------------------------------------------------------------------------
(***************************************************************************)
(* The store's own invariant, in the steps that are not the store's.       *)
(***************************************************************************)
\* A step of the store.
LEMMA StoreKept ==
  ASSUME TypeOK, NameInv, [Next]_vars
  PROVE  TypeOK' /\ NameInv'
BY TypeStep, NameStep

\* NameInv is about the names and what requests do with them.
LEMMA NamesKept ==
  ASSUME NameInv, UNCHANGED <<up, used, live, dropped, old, pc, cws, odb>>
  PROVE  NameInv'
BY DEF NameInv, Known

\* A request leaves or enters the engine.
LEMMA GotoKept ==
  ASSUME TypeOK, NameInv, NEW c \in Client,
         \/ pc[c] = "register" /\ Goto(c, "idle")
         \/ pc[c] = "unregister" /\ Goto(c, "forget"),
         UNCHANGED <<memVars, diskVars, odbVars, reqVars, cfd, history, countVars>>
  PROVE  TypeOK' /\ NameInv'
<1>1. PICK l : pc' = [pc EXCEPT ![c] = l] /\ l \in {"idle", "forget"}
               /\ pc[c] \in {"register", "unregister"} /\ (pc[c] = "register" => l = "idle")
  BY DEF Goto
<1>2. /\ UNCHANGED <<up, used, live, files, head, lock, dirs, disk, blobs, odb>>
      /\ UNCHANGED <<cws, cpath, cval, ctree, cpar, cfd, dropped, old, warned, writes, drops, faults, crashes>>
  BY DEF memVars, diskVars, odbVars, reqVars, history, countVars
<1>3. TypeOK'
  <2>1. pc' \in [Client -> Label]
    BY <1>1 DEF TypeOK, Label
  <2> QED BY <1>2, <2>1 DEF TypeOK
<1>4. NameInv'
  <2>1. up /\ cws[c] \in Known
    BY <1>1 DEF NameInv
  <2>2. pc'[c] = l /\ \A d \in Client : d # c => pc'[d] = pc[d]
    BY <1>1 DEF TypeOK
  <2>3. Known' = Known
    BY <1>2 DEF Known
  <2>4. (live \cap dropped = {} /\ live \cap old = {})' /\ (~up => live = {} /\ \A d \in Client : pc[d] = "idle")'
    BY <1>2, <2>1 DEF NameInv
  <2>5. ASSUME NEW d \in Client
        PROVE  /\ pc'[d] = "create" => pc[d] = "create"
               /\ pc'[d] \notin {"idle", "create"} => pc[d] \notin {"idle", "create"}
               /\ pc'[d] \in Writing => pc[d] \in Writing
               /\ pc'[d] \in {"unlink", "rmdir"} => pc[d] \in {"unlink", "rmdir"}
    <3>1. CASE d = c
      BY <1>1, <2>2, <3>1 DEF Writing
    <3>2. CASE d # c
      BY <2>2, <3>2
    <3> QED BY <3>1, <3>2
  <2>6. ASSUME NEW d \in Client
        PROVE  (/\ pc[d] = "create" =>
                     /\ cws[d] \in used \ Known
                     /\ \A b \in Client : pc[b] = "create" /\ cws[b] = cws[d] => b = d
                /\ pc[d] \notin {"idle", "create"} => cws[d] \in Known
                /\ pc[d] \in Writing => cws[d] \notin old
                /\ pc[d] \in {"unlink", "rmdir"} => cws[d] \in dropped)'
    BY <1>2, <2>3, <2>5 DEF NameInv
  <2>7. (\A i \in 1..Len(odb) : odb[i].ws \in Known)'
    BY <1>2, <2>3 DEF NameInv
  <2> QED BY <2>4, <2>6, <2>7 DEF NameInv
<1> QED BY <1>3, <1>4

\* The map is told of a file.
LEMMA RecordKept ==
  ASSUME TypeOK, NameInv, NEW w \in Workspace, NEW p \in Path, NEW v \in Value, v # None,
         Record(w, p, v)
  PROVE  TypeOK' /\ NameInv'
<1>1. /\ UNCHANGED <<up, used, live, head, lock, dirs, disk, odb, pc>>
      /\ UNCHANGED <<cws, cpath, cval, ctree, cpar, cfd, dropped, old, warned, writes, drops, faults, crashes>>
      /\ blobs' = blobs \cup {v}
      /\ files' = IF w \in live THEN [files EXCEPT ![w][p] = v] ELSE files
  BY DEF Record, diskVars, reqVars, history, countVars
<1>2. files' \in [Workspace -> Tree]
  <2>1. files \in [Workspace -> Tree] /\ files[w] \in [Path -> Value]
    BY DEF TypeOK, Tree
  <2>2. [files[w] EXCEPT ![p] = v] \in Tree
    BY <2>1 DEF Tree
  <2> QED BY <1>1, <2>1, <2>2
<1>3. blobs' \subseteq Content \cup {Empty}
  BY <1>1 DEF TypeOK, Value
<1> QED BY <1>1, <1>2, <1>3, NamesKept DEF TypeOK

\* Files are removed from the map.
LEMMA ForgetKept ==
  ASSUME TypeOK, NameInv, NEW w \in Workspace, NEW paths, Forget(w, paths)
  PROVE  TypeOK' /\ NameInv'
<1>1. /\ UNCHANGED <<up, used, live, head, lock, dirs, disk, blobs, odb, pc>>
      /\ UNCHANGED <<cws, cpath, cval, ctree, cpar, cfd, dropped, old, warned, writes, drops, faults, crashes>>
      /\ files' = IF w \in live
                    THEN [files EXCEPT ![w] = [p \in Path |-> IF p \in paths THEN None ELSE @[p]]]
                    ELSE files
  BY DEF Forget, diskVars, odbVars, reqVars, history, countVars
<1>2. files' \in [Workspace -> Tree]
  <2>1. files \in [Workspace -> Tree] /\ files[w] \in [Path -> Value] /\ None \in Value
    BY DEF TypeOK, Tree, Value
  <2>2. [p \in Path |-> IF p \in paths THEN None ELSE files[w][p]] \in Tree
    BY <2>1 DEF Tree
  <2> QED BY <1>1, <2>1, <2>2
<1> QED BY <1>1, <1>2, NamesKept DEF TypeOK

\* Another tool changes the projection.
LEMMA EditKept ==
  ASSUME TypeOK, NameInv, NEW w \in Workspace, Edit(w),
         dirs' \in [Workspace -> SUBSET Dir], disk' \in [Workspace -> Tree],
         cfd' = cfd \/ cfd' = StillLinked(disk')
  PROVE  TypeOK' /\ NameInv'
<1>1. /\ UNCHANGED <<up, used, live, files, head, lock, blobs, odb, pc>>
      /\ UNCHANGED <<cws, cpath, cval, ctree, cpar, dropped, old, warned, writes, drops, faults, crashes>>
  BY DEF Edit, memVars, odbVars, reqVars, history, countVars
<1>2. cfd' \in [Client -> BOOLEAN]
  BY DEF StillLinked, TypeOK
<1> QED BY <1>1, <1>2, NamesKept DEF TypeOK

\* Each of its changes keeps the store's invariant.
LEMMA EditsKept ==
  ASSUME TypeOK, NameInv, horizon \in Horizon, EditStep
  PROVE  TypeOK' /\ NameInv'
<1>1. PICK w \in Workspace :
        \/ \E p \in horizon.paths, v \in horizon.contents : EditWrite(w, p, v)
        \/ \E p \in Path : EditDelete(w, p)
        \/ \E d \in SubDir : EditMkdir(w, d) \/ EditRmdir(w, d)
  BY DEF EditStep
<1>2. /\ dirs \in [Workspace -> SUBSET Dir] /\ disk \in [Workspace -> Tree]
      /\ disk[w] \in [Path -> Value] /\ None \in Value
  BY DEF TypeOK, Tree, Value
<1>3. ASSUME NEW p \in horizon.paths, NEW v \in horizon.contents, EditWrite(w, p, v)
      PROVE  TypeOK' /\ NameInv'
  <2>1. p \in Path /\ v \in Value
    BY HorizonAssumption DEF Value
  <2>2. [disk[w] EXCEPT ![p] = v] \in Tree
    BY <1>2, <2>1 DEF Tree
  <2>3. disk' \in [Workspace -> Tree] /\ UNCHANGED <<dirs, cfd>> /\ Edit(w)
    BY <1>2, <1>3, <2>2 DEF EditWrite
  <2> QED BY <1>2, <2>3, EditKept
<1>4. ASSUME NEW p \in Path, EditDelete(w, p) PROVE TypeOK' /\ NameInv'
  <2>1. [disk[w] EXCEPT ![p] = None] \in Tree
    BY <1>2 DEF Tree
  <2>2. disk' \in [Workspace -> Tree] /\ cfd' = StillLinked(disk') /\ UNCHANGED dirs /\ Edit(w)
    BY <1>2, <1>4, <2>1 DEF EditDelete
  <2> QED BY <1>2, <2>2, EditKept
<1>5. ASSUME NEW d \in SubDir, EditMkdir(w, d) PROVE TypeOK' /\ NameInv'
  <2>1. dirs[w] \cup {d} \in SUBSET Dir
    BY <1>2 DEF Dir
  <2>2. dirs' \in [Workspace -> SUBSET Dir] /\ UNCHANGED <<disk, cfd>> /\ Edit(w)
    BY <1>2, <1>5, <2>1 DEF EditMkdir
  <2> QED BY <1>2, <2>2, EditKept
<1>6. ASSUME NEW d \in SubDir, EditRmdir(w, d) PROVE TypeOK' /\ NameInv'
  <2>1. dirs[w] \ {d} \in SUBSET Dir /\ [p \in Path |-> IF DirOf[p] = d THEN None ELSE disk[w][p]] \in Tree
    BY <1>2 DEF Tree
  <2>2. /\ dirs' \in [Workspace -> SUBSET Dir] /\ disk' \in [Workspace -> Tree]
        /\ cfd' = StillLinked(disk') /\ Edit(w)
    BY <1>2, <1>6, <2>1 DEF EditRmdir
  <2> QED BY <2>2, EditKept
<1> QED BY <1>1, <1>3, <1>4, <1>5, <1>6

-----------------------------------------------------------------------------
(***************************************************************************)
(* What has happened once has happened for good.                           *)
(***************************************************************************)
Onward ==
  /\ horizon' = horizon /\ (overflowed => overflowed')
  /\ writes' = writes \/ writes' = writes + 1

\* A step of the store counts one write at most.
LEMMA StoreCounts ==
  ASSUME Next
  PROVE  writes' = writes \/ writes' = writes + 1
<1>1. ASSUME NEW c \in Client, CreateStep(c) PROVE writes' = writes
  BY <1>1 DEF CreateStep, CreateProject, CreateFails, CreateInsert, countVars
<1>2. ASSUME NEW c \in Client, WriteStep(c) PROVE writes' = writes \/ writes' = writes + 1
  BY <1>2 DEF WriteStep, WriteCheck, WriteMkdir, WriteOpen, WriteOpenFails, WriteFill,
     WriteFillFails, WriteBlob, WriteInsert, countVars
<1>3. ASSUME NEW c \in Client, CommitStep(c) PROVE writes' = writes
  BY <1>3 DEF CommitStep, CommitLock, CommitRead, CommitRefused, CommitObject,
     CommitFails, CommitAdvance, countVars
<1>4. ASSUME NEW c \in Client, DropStep(c) PROVE writes' = writes
  BY <1>4 DEF DropStep, DropBegin, DropForget, DropUnlink, DropUnlinkFails, DropRmdir,
     countVars
<1>5. ASSUME NEW c \in Client, Inspect(c) PROVE writes' = writes
  BY <1>5 DEF Inspect, vars, countVars
<1>6. Crash \/ Start => writes' = writes
  BY DEF Crash, Start, countVars
<1> QED BY <1>1, <1>2, <1>3, <1>4, <1>5, <1>6 DEF Next

\* The kernel does not forget that it dropped an event.
LEMMA PushOnward ==
  ASSUME NEW events, PushAll(events)
  PROVE  overflowed => overflowed'
BY DEF PushAll

\* Most steps of the engine write nothing and lose no event.
LEMMA QuietOnward ==
  ASSUME UNCHANGED <<countVars, overflowed, editVars>>
  PROVE  Onward
BY DEF countVars, editVars, Onward

\* Nor does a step that leaves the engine's variables alone.
LEMMA QuietVars ==
  ASSUME UNCHANGED <<engineVars, editVars>>, UNCHANGED vars \/ UNCHANGED countVars
  PROVE  Onward
<1>1. UNCHANGED <<overflowed, editVars, countVars>>
  BY DEF engineVars, kernelVars, vars
<1> QED BY <1>1, QuietOnward

\* The routine of an actor does neither.
LEMMA RoutineOnward ==
  ASSUME NEW a, Routine(a) \/ EngineApplied(a)
  PROVE  Onward
<1>1. ASSUME UNCHANGED <<vars, engineVars, editVars>> PROVE Onward
  BY <1>1, QuietVars
<1>2. CASE SyncRead(a)
  BY <1>1, <1>2 DEF SyncRead
<1>3. CASE SyncScan(a)
  BY <1>1, <1>3 DEF SyncScan
<1>4. CASE RecNext(a) \/ RecScan(a)
  BY <1>1, <1>4 DEF RecNext, RecScan
<1>5. CASE RecSnapshot(a) \/ RecTornDown(a)
  BY <1>1, <1>5 DEF RecSnapshot, RecTornDown
<1>6. CASE Watch(a)
  <2>1. UNCHANGED <<vars, overflowed, editVars>>
    BY <1>6 DEF Watch
  <2> QED BY <2>1, QuietOnward DEF vars
<1>7. CASE WatchEnter(a)
  <2>1. UNCHANGED <<vars, kernelVars, editVars>>
    BY <1>7 DEF WatchEnter
  <2> QED BY <2>1, QuietOnward DEF vars, kernelVars
<1>8. CASE ApplyWrite(a) \/ ApplyDelete(a)
  <2>1. UNCHANGED <<engineVars, editVars, countVars>>
    BY <1>8 DEF ApplyWrite, ApplyDelete, Record, Forget
  <2> QED BY <2>1, QuietVars
<1>9. CASE EngineApplied(a)
  BY <1>1, <1>9 DEF EngineApplied
<1> QED BY <1>2, <1>3, <1>4, <1>5, <1>6, <1>7, <1>8, <1>9 DEF Routine

\* The engine's own steps: the removal of watches may fill the queue.
LEMMA LoopOnward ==
  ASSUME InotifyStep \/ ReconcileStep \/ EventLoopStops
  PROVE  Onward
<1>1. CASE HandleOverflow \/ HandleIgnored \/ HandleStale
  <2>1. UNCHANGED <<vars, overflowed, editVars>>
    BY <1>1 DEF HandleOverflow, HandleIgnored, HandleStale, HandleEvent
  <2> QED BY <2>1, QuietOnward DEF vars
<1>2. CASE HandleLive
  <2>1. UNCHANGED <<overflowed, editVars>>
    BY <1>2 DEF HandleLive, HandleEvent
  <2>2. UNCHANGED countVars
    BY <1>2 DEF HandleLive, Forget, vars
  <2> QED BY <2>1, <2>2, QuietOnward
<1>3. CASE Unwatch
  <2>1. overflowed => overflowed'
    BY <1>3, PushOnward DEF Unwatch, RemoveWatches
  <2> QED BY <1>3, <2>1 DEF Unwatch, Onward, vars, countVars, editVars
<1>4. CASE Tick
  BY <1>4, QuietVars DEF Tick
<1>5. CASE EventLoopStops
  BY <1>5 DEF EventLoopStops, Onward, editVars
<1> QED BY <1>1, <1>2, <1>3, <1>4, <1>5, RoutineOnward DEF InotifyStep, ReconcileStep

\* A client may write, and what it does may fill the queue.
LEMMA ClientOnward ==
  ASSUME NEW c \in Client, ClientStep(c)
  PROVE  Onward
<1>1. CASE Request(c)
  <2>1. horizon' = horizon
    BY <1>1 DEF Request, editVars
  <2>2. Next
    BY <1>1 DEF Request, Next, WriteStep, DropStep
  <2>3. overflowed => overflowed'
    BY <1>1, PushOnward DEF Request, NoEvents, kernelVars, Appear, Vanish
  <2> QED BY <2>1, <2>2, <2>3, StoreCounts DEF Onward
<1>2. CASE Register(c) \/ Registered(c)
  BY <1>2, QuietVars DEF Register, Registered
<1>3. CASE Unregister(c)
  <2>1. overflowed => overflowed'
    BY <1>3, PushOnward DEF Unregister, RemoveWatches
  <2> QED BY <1>3, <2>1 DEF Unregister, Onward, countVars, editVars
<1> QED BY <1>1, <1>2, <1>3, RoutineOnward DEF ClientStep

\* What other tools do may fill the queue.
LEMMA OtherOnward ==
  ASSUME EditStep \/ WBCrash \/ WBStart
  PROVE  Onward
<1>1. ASSUME NEW w, Edit(w) PROVE horizon' = horizon /\ writes' = writes
  BY <1>1 DEF Edit, countVars
<1>2. ASSUME NEW w, NEW p, NEW v, EditWrite(w, p, v) PROVE Onward
  BY <1>1, <1>2, PushOnward DEF EditWrite, Appear, Onward
<1>3. ASSUME NEW w, NEW p, EditDelete(w, p) PROVE Onward
  BY <1>1, <1>3, PushOnward DEF EditDelete, Vanish, Onward
<1>4. ASSUME NEW w, NEW d, EditMkdir(w, d) \/ EditRmdir(w, d) PROVE Onward
  BY <1>1, <1>4, PushOnward DEF EditMkdir, EditRmdir, Appear, Vanish, Onward
<1>5. CASE WBCrash
  BY <1>5 DEF WBCrash, Crash, Onward, editVars
<1>6. CASE WBStart
  BY <1>6 DEF WBStart, Start, Onward, countVars, wbVars, kernelVars, editVars
<1> QED BY <1>2, <1>3, <1>4, <1>5, <1>6 DEF EditStep

\* Events alone keep the map right after a step only if they did before it.
LEMMA HistoryStep ==
  ASSUME writes \in Nat, [WBNext]_allVars
  PROVE  Onward /\ writes' \in Nat /\ (EventsOnly' => EventsOnly)
<1>1. Onward
  <2>1. CASE UNCHANGED allVars
    BY <2>1 DEF allVars, vars, countVars, wbVars, kernelVars, editVars, Onward
  <2> QED BY <2>1, LoopOnward, ClientOnward, OtherOnward DEF WBNext
<1>2. writes' \in Nat /\ (writes' = 0 => writes = 0)
  BY SMT, <1>1 DEF Onward
<1>3. EventsOnly' => EventsOnly
  BY <1>1, <1>2 DEF Onward, EventsOnly
<1> QED BY <1>1, <1>2, <1>3

-----------------------------------------------------------------------------
(***************************************************************************)
(* The invariant.                                                          *)
(***************************************************************************)
WBOK == TypeOK /\ NameInv /\ EngineInv

\* A client's request.
LEMMA RequestInv ==
  ASSUME WBOK, EventsOnly, EventsOnly', NEW c \in Client, Request(c)
  PROVE  WBOK'
<1>1. TypeOK /\ NameInv /\ EngineInv /\ ~overflowed' /\ writes = 0 /\ writes' = 0 /\ pc[c] \notin Writing
  BY DEF WBOK, EventsOnly, EngineInv, ActorInv
<1>2. UNCHANGED <<watches, actorVars, horizon>>
  BY DEF Request, editVars
<1>3. TypeOK' /\ NameInv'
  <2>1. Next
    BY DEF Request, Next, WriteStep, DropStep
  <2> QED BY <1>1, <2>1, StoreKept
<1>4. ASSUME NEW w, NEW p, NEW v, WriteCheck(c, w, p, v) PROVE FALSE
  BY SMT, <1>1, <1>4 DEF WriteCheck
<1>5. ~WriteMkdir(c) /\ ~WriteOpenFails(c) /\ ~WriteBlob(c) /\ ~WriteInsert(c)
  BY <1>1 DEF WriteMkdir, WriteOpenFails, WriteBlob, WriteInsert, Writing
<1>6. ~WriteOpen(c) /\ ~WriteFill(c) /\ ~WriteFillFails(c)
  BY <1>1 DEF WriteOpen, WriteFill, WriteFillFails, Writing
<1>7. CASE /\ CreateStep(c) \/ CommitStep(c) \/ Inspect(c) \/ DropForget(c)
              \/ \E w \in Workspace : DropBegin(c, w)
           /\ NoEvents
  <2>1. UNCHANGED <<kernel, nextWd, queue, watches, actorVars, horizon>>
    BY <1>2, <1>7 DEF NoEvents, kernelVars
  <2>2. CASE CreateInsert(c)
    BY <1>1, <1>3, <2>1, <2>2, InsertStep DEF WBOK
  <2>3. ASSUME NEW w \in Workspace, NEW b \in 0..Len(odb),
               CreateProject(c, w, b) \/ \E left \in [Path -> Value] : CreateFails(c, w, b, left)
        PROVE  WBOK'
    BY <1>1, <1>3, <2>1, <2>3, CreateSteps DEF WBOK
  <2>4. CASE CommitStep(c)
    BY <1>1, <1>3, <2>1, <2>4, CommitSteps DEF WBOK
  <2>5. CASE Inspect(c)
    <3>1. UNCHANGED <<live, files, dirs, disk, dropped, old, pc, cws, ctree>>
      BY <2>5 DEF Inspect, vars, memVars, diskVars, reqVars, history
    <3> QED BY <1>1, <1>3, <2>1, <3>1, SameStep DEF WBOK
  <2>6. CASE DropForget(c) \/ \E w \in Workspace : DropBegin(c, w)
    BY <1>1, <1>3, <2>1, <2>6, DropSteps DEF WBOK
  <2> QED BY <1>7, <2>2, <2>3, <2>4, <2>5, <2>6 DEF CreateStep
<1>8. CASE /\ \/ DropUnlink(c) \/ DropRmdir(c)
              \/ \E kept \in SUBSET (SubDir \cup Path) : DropUnlinkFails(c, kept)
           /\ Vanish(cws[c], Unlinked(cws[c]), dirs[cws[c]] \ dirs'[cws[c]])
  BY <1>1, <1>2, <1>3, <1>8, RemoveDirSteps DEF WBOK
<1> QED BY <1>4, <1>5, <1>6, <1>7, <1>8 DEF Request

\* An actor's routine.
LEMMA RoutineInv ==
  ASSUME WBOK, NEW a \in Actor, Routine(a)
  PROVE  WBOK'
<1>1. TypeOK /\ NameInv /\ EngineInv /\ EngineTypeOK /\ ActorInv
  BY DEF WBOK, EngineInv
<1>2. apc[a] \in Place /\ gone[a] = {} /\ (a \in Client => apc[a] # "read") /\ a # Reconciler
  <2>1. apc[a] \in Place /\ gone[a] = {}
    BY <1>1 DEF EngineTypeOK
  <2>2. a \in Client => apc[a] # "read"
    BY <1>1 DEF ActorInv
  <2>3. apc[a] # "idle"
    BY DEF Routine, SyncRead, SyncScan, RecNext, RecScan, RecSnapshot, RecTornDown,
       Watch, WatchEnter, ApplyWrite, ApplyDelete
  <2>4. a # Reconciler
    BY <1>1, <2>3 DEF ActorInv
  <2> QED BY <2>1, <2>2, <2>4
<1>3. ~RecNext(a) /\ ~RecScan(a) /\ ~RecSnapshot(a) /\ ~RecTornDown(a) /\ ~ApplyDelete(a)
  BY <1>2 DEF RecNext, RecScan, RecSnapshot, RecTornDown, ApplyDelete, Place
<1>4. ASSUME UNCHANGED vars PROVE TypeOK' /\ NameInv'
  BY <1>1, <1>4, StoreKept
<1>5. CASE SyncRead(a)
  <2>1. a = Inotify
    BY <1>2, <1>5 DEF SyncRead, Actor, Engine
  <2>2. UNCHANGED vars
    BY <1>5 DEF SyncRead
  <2> QED BY <1>1, <1>4, <1>5, <2>1, <2>2, ReadStep DEF WBOK
<1>6. CASE SyncScan(a)
  <2>1. UNCHANGED vars
    BY <1>6 DEF SyncScan
  <2> QED BY <1>1, <1>4, <1>6, <2>1, ScanStep DEF WBOK
<1>7. CASE Watch(a)
  <2>1. UNCHANGED vars
    BY <1>7 DEF Watch
  <2> QED BY <1>1, <1>4, <1>7, <2>1, WatchStep DEF WBOK
<1>8. CASE WatchEnter(a)
  <2>1. UNCHANGED vars
    BY <1>8 DEF WatchEnter
  <2> QED BY <1>1, <1>4, <1>8, <2>1, EnterStep DEF WBOK
<1>9. CASE ApplyWrite(a)
  <2>1. PICK p \in todo[a] : Record(aws[a], p, scan[a][p])
    BY <1>9 DEF ApplyWrite
  <2>2. PICK w, v : w = aws[a] /\ v = scan[a][p]
    OBVIOUS
  <2>3. p \in Path /\ w \in Workspace /\ v \in Value /\ v # None
    BY <1>1, <2>1, <2>2 DEF EngineTypeOK, ActorInv, Tree
  <2>4. Record(w, p, v)
    BY <2>1, <2>2
  <2> QED BY <1>1, <1>9, <2>3, <2>4, RecordKept, ApplyStep DEF WBOK
<1> QED BY <1>3, <1>5, <1>6, <1>7, <1>8, <1>9 DEF Routine

\* A client.
LEMMA ClientInv ==
  ASSUME WBOK, EventsOnly, EventsOnly', NEW c \in Client, ClientStep(c)
  PROVE  WBOK'
<1>1. TypeOK /\ NameInv /\ EngineInv /\ ~overflowed' /\ c \in Actor /\ ActorInv
  BY Actors DEF WBOK, EventsOnly, EngineInv
<1>2. CASE Register(c)
  <2>1. TypeOK' /\ NameInv'
    BY <1>1, <1>2, StoreKept DEF Register
  <2> QED BY <1>1, <1>2, <2>1, RegisterStep DEF WBOK
<1>3. CASE Registered(c)
  <2>1. pc[c] = "register"
    BY <1>1, <1>3 DEF Registered, Applied, ActorInv
  <2>2. Goto(c, "idle") /\ UNCHANGED <<memVars, diskVars, odbVars, reqVars, cfd, history, countVars>>
    BY <1>3 DEF Registered
  <2>3. TypeOK' /\ NameInv'
    BY <1>1, <2>1, <2>2, GotoKept
  <2> QED BY <1>1, <1>3, <2>3, RegisteredStep DEF WBOK
<1>4. CASE Unregister(c)
  <2>1. /\ pc[c] = "unregister" /\ Goto(c, "forget")
        /\ UNCHANGED <<memVars, diskVars, odbVars, reqVars, cfd, history, countVars>>
    BY <1>4 DEF Unregister
  <2>2. TypeOK' /\ NameInv'
    BY <1>1, <2>1, GotoKept
  <2> QED BY <1>1, <1>4, <2>2, UnregisterStep DEF WBOK
<1> QED BY <1>1, <1>2, <1>3, <1>4, RequestInv, RoutineInv DEF ClientStep

\* The event loop.
LEMMA InotifyInv ==
  ASSUME WBOK, ~overflowed', InotifyStep
  PROVE  WBOK'
<1>1. TypeOK /\ NameInv /\ EngineInv /\ EngineTypeOK
  BY DEF WBOK, EngineInv
<1>2. ASSUME UNCHANGED vars PROVE TypeOK' /\ NameInv'
  BY <1>1, <1>2, StoreKept
<1>3. ~HandleOverflow
  <2>1. HandleOverflow => EventOK(Head(queue)) /\ Head(queue) = Overflow
    BY <1>1, HandleFacts DEF HandleOverflow
  <2>2. Overflow.kind = "overflow"
    BY SMT DEF Overflow
  <2> QED BY <2>1, <2>2 DEF EventOK
<1>4. CASE HandleIgnored
  BY <1>1, <1>2, <1>4, IgnoredStep DEF WBOK, HandleIgnored
<1>5. CASE HandleStale
  BY <1>1, <1>2, <1>5, StaleStep DEF WBOK, HandleStale
<1>6. CASE HandleLive
  <2>1. PICK x \in EntryOf(Head(queue)) :
          x.ws \in live /\ (UNCHANGED vars \/ \E paths : Forget(x.ws, paths))
    BY <1>6 DEF HandleLive
  <2>2. x.ws \in Workspace
    BY <1>1, <2>1 DEF TypeOK
  <2>3. TypeOK' /\ NameInv'
    BY <1>1, <1>2, <2>1, <2>2, ForgetKept
  <2> QED BY <1>1, <1>6, <2>3, LiveStep DEF WBOK
<1>7. CASE Unwatch
  BY <1>1, <1>2, <1>7, UnwatchStep DEF WBOK, Unwatch
<1>8. CASE EngineApplied(Inotify)
  BY <1>1, <1>2, <1>8, AppliedStep DEF WBOK, EngineApplied
<1> QED BY <1>3, <1>4, <1>5, <1>6, <1>7, <1>8, RoutineInv, Actors DEF InotifyStep

\* The timer is off: the reconciler does nothing.
LEMMA ReconcilerIdle ==
  ASSUME WBOK, EventsOnly
  PROVE  ~ReconcileStep
<1>1. apc[Reconciler] = "idle" /\ ~horizon.ticks
  BY DEF WBOK, EngineInv, ActorInv, EventsOnly
<1>2. ~Routine(Reconciler)
  BY <1>1 DEF Routine, SyncRead, SyncScan, RecNext, RecScan, RecSnapshot, RecTornDown,
     Watch, WatchEnter, ApplyWrite, ApplyDelete
<1> QED BY <1>1, <1>2 DEF ReconcileStep, Tick, EngineApplied, Applied

\* Other tools.
LEMMA EditInv ==
  ASSUME WBOK, ~overflowed', EditStep
  PROVE  WBOK'
<1>1. TypeOK /\ NameInv /\ EngineInv /\ horizon \in Horizon
  BY DEF WBOK, EngineInv, EngineTypeOK
<1>2. TypeOK' /\ NameInv'
  BY <1>1, EditsKept
<1>3. horizon.paths \subseteq Path /\ horizon.contents \subseteq Content
  BY <1>1, HorizonAssumption
<1>4. ASSUME NEW w \in Workspace, NEW p \in horizon.paths, NEW v \in horizon.contents,
             EditWrite(w, p, v)
      PROVE  EngineInv'
  BY <1>1, <1>3, <1>4, EditWriteStep
<1>5. ASSUME NEW w \in Workspace, NEW p \in Path, EditDelete(w, p) PROVE EngineInv'
  BY <1>1, <1>5, EditDeleteStep
<1>6. ASSUME NEW w \in Workspace, NEW d \in SubDir, EditMkdir(w, d) \/ EditRmdir(w, d) PROVE EngineInv'
  BY <1>1, <1>6, EditMkdirStep, EditRmdirStep
<1>7. EngineInv'
  BY <1>4, <1>5, <1>6 DEF EditStep
<1> QED BY <1>2, <1>7 DEF WBOK

\* The event loop ends, the service stops or starts, or nothing happens.
LEMMA RestInv ==
  ASSUME WBOK, EventLoopStops \/ WBCrash \/ WBStart \/ UNCHANGED allVars
  PROVE  WBOK'
<1>1. TypeOK /\ NameInv /\ EngineInv
  BY DEF WBOK
<1>2. CASE EventLoopStops
  <2>1. /\ UNCHANGED <<kernel, nextWd, queue, watches, actorVars, horizon>>
        /\ UNCHANGED <<up, used, live, files, head, lock, dirs, disk, blobs, odb, pc>>
        /\ UNCHANGED <<cws, cpath, cval, ctree, cpar, cfd, dropped, old, warned, writes, drops, crashes>>
        /\ faults' = faults + 1
    BY <1>2 DEF EventLoopStops, memVars, diskVars, odbVars, reqVars, history, editVars
  <2>2. EngineInv'
    BY <1>1, <2>1, SameStep
  <2>3. NameInv'
    BY <1>1, <2>1, NamesKept
  <2>4. faults \in Nat /\ faults' \in Nat
    <3>1. faults \in Nat
      BY <1>1 DEF TypeOK
    <3> QED BY SMT, <2>1, <3>1
  <2>5. {writes, drops, faults, crashes}' \subseteq Nat
    BY <1>1, <2>1, <2>4 DEF TypeOK
  <2> QED BY <1>1, <2>1, <2>2, <2>3, <2>5 DEF TypeOK, WBOK
<1>3. CASE WBCrash
  BY <1>1, <1>3, StoreKept, CrashStep DEF WBCrash, Next, WBOK
<1>4. CASE WBStart
  BY <1>1, <1>4, StoreKept, StartStep DEF WBStart, Next, WBOK
<1>5. CASE UNCHANGED allVars
  <2>1. /\ UNCHANGED <<kernel, nextWd, queue, watches, actorVars, horizon, vars>>
        /\ UNCHANGED <<live, files, dirs, disk, dropped, old, pc, cws, ctree>>
    BY <1>5 DEF allVars, wbVars, kernelVars, editVars, vars, memVars, diskVars, reqVars, history
  <2> QED BY <1>1, <2>1, StoreKept, SameStep DEF WBOK
<1> QED BY <1>2, <1>3, <1>4, <1>5

\* At first nothing is watched and nothing is queued.
LEMMA InitWBInv == WBInit => WBInv
<1> SUFFICES ASSUME WBInit PROVE WBInv
  OBVIOUS
<1>1. TypeOK /\ NameInv /\ live = {} /\ pc = [c \in Client |-> "idle"]
  BY InitNames DEF WBInit, Init
<1>2. writes \in Nat
  BY <1>1 DEF TypeOK
<1>3. EngineTypeOK
  <2>1. /\ queue = <<>> /\ nextWd = 1 /\ kernel = {} /\ watches = {} /\ horizon \in Horizon
        /\ apc = [a \in Actor |-> "idle"] /\ aws = [a \in Actor |-> AnyWorkspace]
        /\ aname = [a \in Actor |-> Root] /\ scan = [a \in Actor |-> NoFiles]
        /\ todo = [a \in Actor |-> {}] /\ gone = [a \in Actor |-> {}]
        /\ sdirs = [a \in Actor |-> {}] /\ added = [a \in Actor |-> {}]
        /\ rest = [a \in Actor |-> {}]
    BY DEF WBInit
  <2>2. queue \in Seq(Event) /\ nextWd \in Nat
    BY SMT, <2>1
  <2>3. kernel \subseteq WatchRecord /\ IsFiniteSet(kernel) /\ watches \subseteq WatchRecord
    BY <2>1, FS_EmptySet
  <2>4. AnyWorkspace \in Workspace
    BY NonEmptyAssumption DEF AnyWorkspace
  <2>5. "idle" \in Place /\ Root \in Dir /\ NoFiles \in Tree
    BY NoFilesType DEF Place, Dir
  <2>6. /\ apc \in [Actor -> Place] /\ aws \in [Actor -> Workspace]
        /\ aname \in [Actor -> Dir \cup Path] /\ scan \in [Actor -> Tree]
    BY <2>1, <2>4, <2>5
  <2>7. /\ todo \in [Actor -> SUBSET Path] /\ sdirs \in [Actor -> SUBSET Dir]
        /\ added \in [Actor -> SUBSET WatchRecord]
    BY <2>1
  <2> QED BY <2>1, <2>2, <2>3, <2>6, <2>7 DEF EngineTypeOK
<1>4. \A a \in Actor : apc[a] = "idle" /\ todo[a] = {} /\ added[a] = {}
  BY DEF WBInit
<1>5. ActorInv
  BY <1>1, <1>4, Actors DEF ActorInv, Writing
<1>6. \A k : ~Entry(k)
  BY <1>4 DEF Entry, WBInit
<1>7. WatchInv
  BY <1>6 DEF WatchInv, Entry
<1>8. EventInv
  <2>1. queue = <<>>
    BY DEF WBInit
  <2> QED BY SMT, <2>1 DEF EventInv
<1>9. CoverInv /\ RegisterInv /\ SyncInv
  BY <1>1 DEF CoverInv, RegisterInv, SyncInv
<1>10. LoopInv
  BY <1>4, Actors DEF LoopInv
<1> QED BY <1>1, <1>2, <1>3, <1>5, <1>7, <1>8, <1>9, <1>10 DEF WBInv, EngineInv

\* Every step keeps it.
LEMMA StepWBInv ==
  ASSUME WBInv, [WBNext]_allVars
  PROVE  WBInv'
<1>1. writes \in Nat
  BY DEF WBInv
<1>2. writes' \in Nat /\ (EventsOnly' => EventsOnly)
  BY <1>1, HistoryStep
<1>3. ASSUME EventsOnly' PROVE WBOK'
  <2>1. WBOK /\ EventsOnly /\ ~overflowed'
    BY <1>2, <1>3 DEF WBInv, WBOK, EventsOnly
  <2>2. ~ReconcileStep
    BY <2>1, ReconcilerIdle
  <2> QED BY <1>3, <2>1, <2>2, ClientInv, InotifyInv, EditInv, RestInv DEF WBNext
<1> QED BY <1>2, <1>3 DEF WBInv, WBOK

\* When all is handled, no event is about any file: the map has what is there.
LEMMA WBInvSynced == WBInv => DrainedMeansSynced
<1> SUFFICES ASSUME WBInv, EventsHandled, ~overflowed PROVE RootSynced
  BY DEF DrainedMeansSynced
<1>1. EngineInv
  BY DEF EventsHandled, WBInv, EventsOnly
<1>2. queue = <<>> /\ apc[Inotify] = "idle" /\ \A c \in Client : pc[c] = "idle"
  BY Actors DEF EventsHandled, EngineQuiet
<1>3. Len(queue) = 0
  BY SMT, <1>2
<1>4. ASSUME NEW w \in live, NEW p \in Path, DirOf[p] = Root PROVE files[w][p] = disk[w][p]
  <2>1. SyncInv /\ ~Dropping(w)
    BY <1>1, <1>2 DEF EngineInv, Dropping
  <2>2. SyncOK(w, p)
    BY <1>4, <2>1 DEF SyncInv
  <2>3. ~Pending(w, p)
    BY SMT, <1>3 DEF Pending
  <2>4. InHand(w, p)
    BY <2>2, <2>3 DEF SyncOK, Settled
  <2> QED BY <1>2, <2>4 DEF InHand, Reads, Applies
<1> QED BY <1>4 DEF RootSynced

\* Events alone keep the map right: when no event has been dropped, no client
\* has written and the timer is off, then once every event is handled the map
\* has the files of the root as they are in the projection.
THEOREM DrainedIsSynced == WBSpec => []DrainedMeansSynced
<1>1. WBInit => WBInv
  BY SMT, InitWBInv
<1>2. WBInv /\ [WBNext]_allVars => WBInv'
  BY SMT, StepWBInv
<1>3. WBInv => DrainedMeansSynced
  BY SMT, WBInvSynced
<1> QED BY <1>1, <1>2, <1>3, PTL DEF WBSpec
=============================================================================
