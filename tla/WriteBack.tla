----------------------------- MODULE WriteBack -----------------------------
(***************************************************************************)
(* The write-back engine of cwso-git-shadow (writeback.rs) attached to the *)
(* store: what tools change directly in a workspace's projection is        *)
(* brought into the workspace's map, by inotify events and by periodic     *)
(* reconciliation.  The kernel's side of inotify (one bounded queue for    *)
(* all watches, an overflow event in place of what does not fit, one watch *)
(* per directory) is modelled from how the engine uses it.                 *)
(*                                                                         *)
(* The two threads of the engine, and a client that registers the          *)
(* workspace it created, run the same routine: scan or read the            *)
(* projection, add watches, then apply what was read to the map one path   *)
(* at a time.  Its program counter and locals are indexed by actor.        *)
(***************************************************************************)
EXTENDS ShadowStore, Functions

\* The horizons a behaviour may have: whether the reconciliation timer fires
\* (ticks), how many events the kernel queues (queue), which files other tools and
\* clients write (paths) and with what (contents), and bounds on edits by other
\* tools, writes, commits, drops, faults and crashes.
CONSTANT Horizon

ASSUME HorizonAssumption ==
  \A h \in Horizon :
    /\ h.ticks \in BOOLEAN /\ h.queue \in Nat \ {0}
    /\ h.paths \subseteq Path /\ h.contents \subseteq Content
    /\ h.edits \in Nat /\ h.writes <= MaxWrites /\ h.commits <= MaxCommits
    /\ h.drops <= MaxDrops /\ h.faults <= MaxFaults /\ h.crashes <= MaxCrashes

\* Names are of bounded length.
ASSUME FiniteAssumption == IsFiniteSet(Path) /\ IsFiniteSet(SubDir)

Inotify == "inotify"
Reconciler == "reconcile"
Engine == {Inotify, Reconciler}
Actor == Client \cup Engine

ASSUME EngineAssumption == Attached /\ Client \cap Engine = {}

VARIABLES
  kernel,           \* watches the kernel holds: [wd, ws, dir]
  watches,          \* WriteBackEngine.watches
  nextWd,           \* the next watch descriptor
  queue,            \* events the kernel has queued
  reading,          \* the event loop has not stopped on a read error
  overflowed,       \* history: the kernel has dropped an event
  late,             \* history: a watch was gone before it was entered in the table
  apc,              \* where the routine of an actor is
  aws, aname,       \* its workspace, and its path or directory
  scan, todo, gone, \* what it read, the paths to record, the paths to remove
  sdirs,            \* the directories to watch
  added,            \* the watch it has added and not yet entered in the table
  rest,             \* the workspaces still to reconcile
  edits,            \* changes made by other tools
  horizon           \* the horizon of this behaviour

kernelVars == <<kernel, nextWd, queue, reading, overflowed>>
engineVars == <<kernelVars, watches, late, added>>
actorVars == <<apc, aws, aname, scan, todo, gone, sdirs, added, rest>>
editVars == <<edits, horizon>>
wbVars == <<kernelVars, watches, late, actorVars, editVars>>
allVars == <<vars, wbVars>>

At(a, l) == apc' = [apc EXCEPT ![a] = l]

\* Watches are added to the directories ds before anything is applied.
WatchOrApply(a, ds) == At(a, IF ds = {} THEN "apply" ELSE "watch")

\* reconcile_all goes on with the next workspace, if there is one.
NextOrIdle(a) == At(a, IF rest[a] = {} THEN "idle" ELSE "next")

WBInit ==
  /\ Init
  /\ kernel = {}
  /\ watches = {}
  /\ nextWd = 1
  /\ queue = <<>>
  /\ reading = TRUE
  /\ overflowed = FALSE
  /\ late = FALSE
  /\ apc = [a \in Actor |-> "idle"]
  /\ aws = [a \in Actor |-> AnyWorkspace]
  /\ aname = [a \in Actor |-> Root]
  /\ scan = [a \in Actor |-> NoFiles]
  /\ todo = [a \in Actor |-> {}]
  /\ gone = [a \in Actor |-> {}]
  /\ sdirs = [a \in Actor |-> {}]
  /\ added = [a \in Actor |-> {}]
  /\ rest = [a \in Actor |-> {}]
  /\ edits = 0
  /\ horizon \in Horizon
-----------------------------------------------------------------------------
(***************************************************************************)
(* The kernel.  An event carries the descriptor of a watch; "sync" stands  *)
(* for CREATE, MOVED_TO and CLOSE_WRITE of a file, "newdir" for those of a *)
(* directory, "delete" and "deldir" for DELETE and MOVED_FROM, "self" for  *)
(* DELETE_SELF and MOVE_SELF.                                              *)
(***************************************************************************)
Overflow == [wd |-> 0, kind |-> "overflow", name |-> Root]

\* Events that find the queue full are dropped; an overflow event that is not
\* queued yet takes the place of the first.
PushAll(events) ==
  LET room == horizon.queue - Len(queue)
      full == Len(events) > room
  IN /\ queue' = IF ~full THEN queue \o events
                 ELSE queue \o SubSeq(events, 1, room)
                        \o (IF Overflow \in Range(queue) THEN <<>> ELSE <<Overflow>>)
     /\ overflowed' = (overflowed \/ full)

\* The elements of a finite set, in some order.
InSomeOrder(S) == CHOOSE s \in Bijection(1..Cardinality(S), S) : TRUE

\* What the watches of w report of kind for pairs of a directory and a name.
Report(w, kind, named) ==
  InSomeOrder({[wd |-> kn[1].wd, kind |-> kind, name |-> kn[2][2]] :
              kn \in {x \in kernel \X named : x[1].ws = w /\ x[1].dir = x[2][1]}})

\* The events when paths, then whole directories ds, leave workspace w.
RemovalEvents(w, paths, ds) ==
  Report(w, "delete", {<<DirOf[p], p>> : p \in paths})
    \o Report(w, "self", {<<d, d>> : d \in ds})
    \o Report(w, "ignored", {<<d, d>> : d \in ds})
    \o Report(w, "deldir", {<<Root, d>> : d \in ds \ {Root}})

\* Files of paths and directories ds of w are removed: the watches on them go.
Vanish(w, paths, ds) ==
  /\ PushAll(RemovalEvents(w, paths, ds))
  /\ kernel' = {k \in kernel : ~(k.ws = w /\ k.dir \in ds)}
  /\ UNCHANGED <<nextWd, reading>>

Appear(events) ==
  /\ PushAll(events)
  /\ UNCHANGED <<kernel, nextWd, reading>>

Present(w) == {p \in Path : disk[w][p] # None}
-----------------------------------------------------------------------------
(***************************************************************************)
(* Watches.  unregister_workspace and remove_watches_under drop the        *)
(* watches of a set of table entries; the kernel reports IGNORED for each. *)
(***************************************************************************)
RemoveWatches(stale) ==
  /\ kernel' = kernel \ stale
  /\ PushAll(InSomeOrder({[wd |-> k.wd, kind |-> "ignored", name |-> Root] :
                         k \in stale \cap kernel}))
  /\ watches' = watches \ stale
  /\ UNCHANGED <<nextWd, reading>>

EntriesUnder(w, d) ==
  {e \in watches : e.ws = w /\ (d = Root \/ e.dir = d)}

\* inotify_add_watch returns the descriptor of a directory that has one, and
\* fails for one that is gone.
Held(w, d) == {k \in kernel : k.ws = w /\ k.dir = d}

AddWatch(w, d) ==
  LET new == {[wd |-> nextWd, ws |-> w, dir |-> d] : x \in {d} \cap dirs[w]}
  IN IF Held(w, d) # {}
       THEN UNCHANGED <<kernel, nextWd>>
       ELSE /\ kernel' = kernel \cup new
            /\ nextWd' = nextWd + Cardinality(new)
-----------------------------------------------------------------------------
(***************************************************************************)
(* The routine of an actor.  SyncRead is sync_file, SyncScan the scan of   *)
(* register_workspace and sync_new_subtree, RecScan and RecSnapshot the    *)
(* beginning of reconcile_workspace.                                       *)
(***************************************************************************)
InDir(p, d) == d = Root \/ DirOf[p] = d

Seen(w, d) == [p \in Path |-> IF InDir(p, d) THEN disk[w][p] ELSE None]

SyncRead(a) ==
  /\ apc[a] = "read"
  /\ scan' = [scan EXCEPT ![a] = disk[aws[a]]]
  /\ todo' = [todo EXCEPT ![a] = {aname[a]} \cap Present(aws[a])]
  /\ At(a, "apply")
  /\ UNCHANGED <<vars, engineVars, aws, aname, gone, sdirs, rest, editVars>>

SyncScan(a) ==
  /\ apc[a] = "scan"
  /\ scan' = [scan EXCEPT ![a] = Seen(aws[a], aname[a])]
  /\ todo' = [todo EXCEPT ![a] = {p \in Present(aws[a]) : InDir(p, aname[a])}]
  /\ sdirs' = [sdirs EXCEPT ![a] =
       {aname[a]} \cup {d \in dirs[aws[a]] : aname[a] = Root}]
  /\ At(a, "watch")
  /\ UNCHANGED <<vars, engineVars, aws, aname, gone, rest, editVars>>

RecNext(a) ==
  /\ apc[a] = "next"
  /\ \E w \in rest[a] :
       /\ aws' = [aws EXCEPT ![a] = w]
       /\ rest' = [rest EXCEPT ![a] = @ \ {w}]
  /\ At(a, "rescan")
  /\ UNCHANGED <<vars, engineVars, aname, scan, todo, gone, sdirs, editVars>>

RecScan(a) ==
  /\ apc[a] = "rescan"
  /\ scan' = [scan EXCEPT ![a] = disk[aws[a]]]
  /\ sdirs' = [sdirs EXCEPT ![a] = {Root} \cup dirs[aws[a]]]
  /\ At(a, "snapshot")
  /\ UNCHANGED <<vars, engineVars, aws, aname, todo, gone, rest, editVars>>

\* Mutant: files missing from the projection are left in the map.
MutRecSnapshot(a) ==
  /\ apc[a] = "snapshot"
  /\ aws[a] \in live
  /\ todo' = [todo EXCEPT ![a] =
       {p \in Path : scan[a][p] # None /\ scan[a][p] # files[aws[a]][p]}]
  /\ LET new == sdirs[a] \ {e.dir : e \in {x \in watches : x.ws = aws[a]}} IN
       /\ sdirs' = [sdirs EXCEPT ![a] = new]
       /\ WatchOrApply(a, new)
  /\ UNCHANGED <<vars, engineVars, aws, aname, scan, gone, rest, editVars>>

RecSnapshot(a) ==
  /\ apc[a] = "snapshot"
  /\ aws[a] \in live
  /\ LET known == files[aws[a]] IN
       /\ todo' = [todo EXCEPT ![a] =
            {p \in Path : scan[a][p] # None /\ scan[a][p] # known[p]}]
       /\ gone' = [gone EXCEPT ![a] =
            {p \in Path : known[p] # None /\ scan[a][p] = None}]
  /\ LET new == sdirs[a] \ {e.dir : e \in {x \in watches : x.ws = aws[a]}} IN
       /\ sdirs' = [sdirs EXCEPT ![a] = new]
       /\ WatchOrApply(a, new)
  /\ UNCHANGED <<vars, engineVars, aws, aname, scan, rest, editVars>>

\* The workspace was dropped between the scan and the snapshot.
RecTornDown(a) ==
  /\ apc[a] = "snapshot"
  /\ aws[a] \notin live
  /\ sdirs' = [sdirs EXCEPT ![a] = {}]
  /\ scan' = [scan EXCEPT ![a] = NoFiles]
  /\ NextOrIdle(a)
  /\ UNCHANGED <<vars, engineVars, aws, aname, todo, gone, rest, editVars>>

\* add_single_watch: the watch is added, then entered in the engine's table,
\* each under its own lock.
Watch(a) ==
  /\ apc[a] = "watch"
  /\ \E d \in sdirs[a] :
       /\ AddWatch(aws[a], d)
       /\ sdirs' = [sdirs EXCEPT ![a] = @ \ {d}]
       /\ added' = [added EXCEPT ![a] = {k \in kernel' : k.ws = aws[a] /\ k.dir = d}]
       /\ IF added'[a] = {} THEN WatchOrApply(a, sdirs'[a]) ELSE At(a, "enter")
  /\ UNCHANGED <<vars, queue, reading, overflowed, late, watches, aws, aname, scan,
                 todo, gone, rest, editVars>>

WatchEnter(a) ==
  /\ apc[a] = "enter"
  /\ watches' = watches \cup added[a]
  /\ late' = (late \/ ~(added[a] \subseteq kernel))
  /\ added' = [added EXCEPT ![a] = {}]
  /\ WatchOrApply(a, sdirs[a])
  /\ UNCHANGED <<vars, kernelVars, aws, aname, scan, todo, gone, sdirs, rest, editVars>>

\* wb_apply_write: the blob is stored; the map is updated if it is there.
Record(w, p, v) ==
  /\ blobs' = blobs \cup {v}
  /\ files' = IF w \in live THEN [files EXCEPT ![w][p] = v] ELSE files
  /\ UNCHANGED <<up, used, live, head, lock, diskVars, odb, pc, reqVars, cfd,
                 history, countVars>>

\* wb_apply_delete and wb_apply_delete_prefix.
Forget(w, paths) ==
  /\ files' = IF w \in live
                THEN [files EXCEPT ![w] =
                        [p \in Path |-> IF p \in paths THEN None ELSE @[p]]]
                ELSE files
  /\ UNCHANGED <<up, used, live, head, lock, diskVars, odbVars, pc, reqVars, cfd,
                 history, countVars>>

ApplyWrite(a) ==
  /\ apc[a] = "apply"
  /\ \E p \in todo[a] :
       /\ Record(aws[a], p, scan[a][p])
       /\ todo' = [todo EXCEPT ![a] = @ \ {p}]
  /\ UNCHANGED <<engineVars, apc, aws, aname, scan, gone, sdirs, rest, editVars>>

ApplyDelete(a) ==
  /\ apc[a] = "apply"
  /\ todo[a] = {}
  /\ \E p \in gone[a] :
       /\ Forget(aws[a], {p})
       /\ gone' = [gone EXCEPT ![a] = @ \ {p}]
  /\ UNCHANGED <<engineVars, apc, aws, aname, scan, todo, sdirs, rest, editVars>>

Applied(a) == apc[a] = "apply" /\ todo[a] = {} /\ gone[a] = {}

EngineApplied(a) ==
  /\ Applied(a)
  /\ NextOrIdle(a)
  /\ scan' = [scan EXCEPT ![a] = NoFiles]
  /\ aname' = [aname EXCEPT ![a] = Root]
  /\ UNCHANGED <<vars, engineVars, aws, todo, gone, sdirs, rest, editVars>>
-----------------------------------------------------------------------------
(***************************************************************************)
(* The event loop: handle_event takes one event to its end before the next *)
(* is read.                                                                *)
(***************************************************************************)
HandleEvent ==
  /\ up /\ reading /\ apc[Inotify] = "idle"
  /\ queue # <<>>
  /\ queue' = Tail(queue)
  /\ UNCHANGED <<kernel, nextWd, reading, overflowed, late, added, scan, todo, gone,
                 sdirs, editVars>>

EntryOf(e) == {x \in watches : x.wd = e.wd}

HandleOverflow ==
  /\ HandleEvent
  /\ Head(queue) = Overflow
  /\ rest' = [rest EXCEPT ![Inotify] = live]
  /\ At(Inotify, IF live = {} THEN "idle" ELSE "next")
  /\ UNCHANGED <<vars, watches, aws, aname>>

HandleIgnored ==
  /\ HandleEvent
  /\ Head(queue).kind = "ignored"
  /\ watches' = watches \ EntryOf(Head(queue))
  /\ UNCHANGED <<vars, apc, aws, aname, rest>>

\* The descriptor is unknown or the workspace is no longer in the map.
HandleStale ==
  /\ HandleEvent
  /\ Head(queue).kind \notin {"overflow", "ignored"}
  /\ \A x \in EntryOf(Head(queue)) : x.ws \notin live
  /\ UNCHANGED <<vars, watches, apc, aws, aname, rest>>

Begin(l) ==
  /\ At(Inotify, l)
  /\ aname' = [aname EXCEPT ![Inotify] = Head(queue).name]

\* Mutant: the prefix of a removed directory does not end in a separator.
MutHandleLive ==
  /\ HandleEvent
  /\ \E x \in EntryOf(Head(queue)) :
       /\ x.ws \in live
       /\ aws' = [aws EXCEPT ![Inotify] = x.ws]
       /\ \/ Head(queue).kind = "sync" /\ Begin("read") /\ UNCHANGED vars
          \/ Head(queue).kind = "newdir" /\ Begin("scan") /\ UNCHANGED vars
          \/ /\ Head(queue).kind = "delete"
             /\ Forget(x.ws, {Head(queue).name})
             /\ UNCHANGED <<apc, aname>>
          \/ /\ Head(queue).kind \in {"self", "deldir"}
             /\ Forget(x.ws, Path)
             /\ Begin("unwatch")
  /\ UNCHANGED <<watches, rest>>

\* What a live entry's event starts: a read, a scan or a removal.
HandleLive ==
  /\ HandleEvent
  /\ \E x \in EntryOf(Head(queue)) :
       /\ x.ws \in live
       /\ aws' = [aws EXCEPT ![Inotify] = x.ws]
       /\ \/ Head(queue).kind = "sync" /\ Begin("read") /\ UNCHANGED vars
          \/ Head(queue).kind = "newdir" /\ Begin("scan") /\ UNCHANGED vars
          \/ /\ Head(queue).kind = "delete"
             /\ Forget(x.ws, {Head(queue).name})
             /\ UNCHANGED <<apc, aname>>
          \/ /\ Head(queue).kind \in {"self", "deldir"}
             /\ Forget(x.ws, {p \in Path : InDir(p, Head(queue).name)})
             /\ Begin("unwatch")
  /\ UNCHANGED <<watches, rest>>

Unwatch ==
  /\ apc[Inotify] = "unwatch"
  /\ RemoveWatches(EntriesUnder(aws[Inotify], aname[Inotify]))
  /\ At(Inotify, "idle")
  /\ aname' = [aname EXCEPT ![Inotify] = Root]
  /\ UNCHANGED <<vars, late, added, aws, scan, todo, gone, sdirs, rest, editVars>>

\* read_events_blocking fails: the loop ends, reconciliation goes on.
EventLoopStops ==
  /\ up /\ reading /\ apc[Inotify] = "idle"
  /\ faults < horizon.faults
  /\ faults' = faults + 1
  /\ reading' = FALSE
  /\ UNCHANGED <<memVars, diskVars, odbVars, pc, reqVars, cfd, history, writes,
                 drops, crashes, kernel, nextWd, queue, overflowed, watches,
                 late, actorVars, editVars>>

\* reconcile_loop: reconcile_all snapshots the keys of the map.
Tick ==
  /\ up /\ horizon.ticks /\ apc[Reconciler] = "idle"
  /\ live # {}
  /\ rest' = [rest EXCEPT ![Reconciler] = live]
  /\ At(Reconciler, "next")
  /\ UNCHANGED <<vars, engineVars, aws, aname, scan, todo, gone, sdirs,
                 editVars>>

Routine(a) ==
  \/ SyncRead(a) \/ SyncScan(a) \/ RecNext(a) \/ RecScan(a)
  \/ RecSnapshot(a) \/ RecTornDown(a)
  \/ Watch(a) \/ WatchEnter(a)
  \/ ApplyWrite(a) \/ ApplyDelete(a)

InotifyStep ==
  \/ HandleOverflow \/ HandleIgnored \/ HandleStale \/ HandleLive \/ Unwatch
  \/ Routine(Inotify) \/ EngineApplied(Inotify)

ReconcileStep ==
  \/ Tick
  \/ Routine(Reconciler) \/ EngineApplied(Reconciler)
-----------------------------------------------------------------------------
(***************************************************************************)
(* The requests.  What they do to the projection is reported by the        *)
(* watches; create ends in register_workspace, drop_workspace begins with  *)
(* unregister_workspace.                                                   *)
(***************************************************************************)
Register(c) ==
  /\ pc[c] = "register" /\ apc[c] = "idle"
  /\ aws' = [aws EXCEPT ![c] = cws[c]]
  /\ aname' = [aname EXCEPT ![c] = Root]
  /\ At(c, "scan")
  /\ UNCHANGED <<vars, engineVars, scan, todo, gone, sdirs, rest, editVars>>

Registered(c) ==
  /\ Applied(c)
  /\ At(c, "idle")
  /\ Goto(c, "idle")
  /\ scan' = [scan EXCEPT ![c] = NoFiles]
  /\ UNCHANGED <<memVars, diskVars, odbVars, reqVars, cfd, history, countVars,
                 engineVars, aws, aname, todo, gone, sdirs, rest, editVars>>

Unregister(c) ==
  /\ pc[c] = "unregister"
  /\ RemoveWatches(EntriesUnder(cws[c], Root))
  /\ Goto(c, "forget")
  /\ UNCHANGED <<memVars, diskVars, odbVars, reqVars, cfd, history, countVars,
                 late, actorVars, editVars>>

NoEvents == UNCHANGED kernelVars

\* The events of opening (and so creating) the leaf of a write.
OpenEvents(c) ==
  LET w == cws[c]
      d == DirOf[cpath[c]]
  IN (IF d \in dirs[w] THEN <<>> ELSE Report(w, "newdir", {<<Root, d>>}))
       \o (IF disk[w][cpath[c]] # None THEN <<>>
           ELSE Report(w, "sync", {<<d, cpath[c]>>}))

\* CLOSE_WRITE, reported for a leaf that is still linked.
CloseEvents(c) ==
  IF cfd[c] THEN Report(cws[c], "sync", {<<DirOf[cpath[c]], cpath[c]>>}) ELSE <<>>

\* The files of w that a step removes.
Unlinked(w) == {p \in Present(w) : disk'[w][p] = None}

\* Clients and failures keep within the horizon.
WithinHorizon ==
  /\ writes <= horizon.writes /\ drops <= horizon.drops /\ faults <= horizon.faults
  /\ Len(odb) + Cardinality({c \in Client : pc[c] \in {"read", "commit"}})
       <= horizon.commits
  /\ \A c \in Client :
        pc[c] = "mkdir" => cpath[c] \in horizon.paths /\ cval[c] \in horizon.contents

Request(c) ==
  /\ \/ /\ \/ CreateStep(c) \/ CommitStep(c) \/ Inspect(c)
           \/ \E w \in Workspace, p \in Path, v \in Content : WriteCheck(c, w, p, v)
           \/ WriteMkdir(c) \/ WriteOpenFails(c) \/ WriteBlob(c) \/ WriteInsert(c)
           \/ \E w \in Workspace : DropBegin(c, w)
           \/ DropForget(c)
        /\ NoEvents
     \/ WriteOpen(c) /\ Appear(OpenEvents(c))
     \/ (WriteFill(c) \/ WriteFillFails(c)) /\ Appear(CloseEvents(c))
     \/ /\ \/ DropUnlink(c) \/ DropRmdir(c)
           \/ \E kept \in SUBSET (SubDir \cup Path) : DropUnlinkFails(c, kept)
        /\ Vanish(cws[c], Unlinked(cws[c]), dirs[cws[c]] \ dirs'[cws[c]])
  /\ UNCHANGED <<watches, late, actorVars, editVars>>
  /\ WithinHorizon'

ClientStep(c) ==
  \/ Request(c) \/ Register(c) \/ Routine(c) \/ Registered(c) \/ Unregister(c)
-----------------------------------------------------------------------------
(***************************************************************************)
(* Other tools change the projection directly, once the reply of create    *)
(* has named it.  A rename is a deletion and a creation here, as it is to  *)
(* the engine.                                                             *)
(***************************************************************************)
Edit(w) ==
  /\ edits < horizon.edits
  /\ \A c \in Client : cws[c] = w => pc[c] \notin {"create", "register"}
  /\ edits' = edits + 1
  /\ UNCHANGED horizon
  /\ UNCHANGED <<memVars, odbVars, pc, reqVars, history, countVars, watches,
                 late, actorVars>>

EditWrite(w, p, v) ==
  /\ Edit(w)
  /\ DirOf[p] \in dirs[w]
  /\ disk' = [disk EXCEPT ![w][p] = v]
  /\ LET synced == Report(w, "sync", {<<DirOf[p], p>>}) IN
       Appear(IF disk[w][p] = None THEN synced \o synced ELSE synced)
  /\ UNCHANGED <<dirs, cfd>>

EditDelete(w, p) ==
  /\ Edit(w)
  /\ disk[w][p] # None
  /\ disk' = [disk EXCEPT ![w][p] = None]
  /\ cfd' = StillLinked(disk')
  /\ Vanish(w, {p}, {})
  /\ UNCHANGED dirs

EditMkdir(w, d) ==
  /\ Edit(w)
  /\ Root \in dirs[w] /\ d \notin dirs[w]
  /\ dirs' = [dirs EXCEPT ![w] = @ \cup {d}]
  /\ Appear(Report(w, "newdir", {<<Root, d>>}))
  /\ UNCHANGED <<disk, cfd>>

EditRmdir(w, d) ==
  /\ Edit(w)
  /\ d \in dirs[w]
  /\ dirs' = [dirs EXCEPT ![w] = @ \ {d}]
  /\ disk' = [disk EXCEPT ![w] =
                [p \in Path |-> IF DirOf[p] = d THEN None ELSE @[p]]]
  /\ cfd' = StillLinked(disk')
  /\ Vanish(w, {p \in Present(w) : DirOf[p] = d}, {d})

EditStep ==
  \E w \in Workspace :
    \/ \E p \in horizon.paths, v \in horizon.contents : EditWrite(w, p, v)
    \/ \E p \in Path : EditDelete(w, p)
    \/ \E d \in SubDir : EditMkdir(w, d) \/ EditRmdir(w, d)

\* The engine dies with the service; the watches are closed with it.
WBCrash ==
  /\ crashes < horizon.crashes
  /\ Crash
  /\ kernel' = {}
  /\ watches' = {}
  /\ queue' = <<>>
  /\ reading' = TRUE
  /\ apc' = [a \in Actor |-> "idle"]
  /\ scan' = [a \in Actor |-> NoFiles]
  /\ todo' = [a \in Actor |-> {}]
  /\ gone' = [a \in Actor |-> {}]
  /\ sdirs' = [a \in Actor |-> {}]
  /\ added' = [a \in Actor |-> {}]
  /\ rest' = [a \in Actor |-> {}]
  /\ aname' = [a \in Actor |-> Root]
  /\ UNCHANGED <<nextWd, overflowed, late, aws, editVars>>

WBStart == Start /\ faults' <= horizon.faults /\ UNCHANGED wbVars

WBNext ==
  \/ \E c \in Client : ClientStep(c)
  \/ InotifyStep
  \/ ReconcileStep
  \/ EventLoopStops
  \/ EditStep
  \/ WBCrash
  \/ WBStart

\* A request that has begun goes on, and so do the engine's two threads while
\* the service runs.  Nothing obliges a client or a tool to do anything more.
WBFairness ==
  /\ \A c \in Client : WF_allVars(pc[c] # "idle" /\ ClientStep(c))
  /\ WF_allVars(InotifyStep)
  /\ WF_allVars(ReconcileStep)

WBSpec == WBInit /\ [][WBNext]_allVars /\ WBFairness
-----------------------------------------------------------------------------
EngineQuiet == queue = <<>> /\ \A a \in Actor : apc[a] = "idle"

\* When other tools are the only writers and no timed pass has run, the event
\* loop has nothing to do and no request is going on.
EventsHandled ==
  /\ reading /\ EngineQuiet /\ writes = 0 /\ ~horizon.ticks
  /\ \A c \in Client : pc[c] = "idle"

RootSynced ==
  \A w \in live, p \in Path :
    DirOf[p] = Root /\ Root \in dirs[w] => files[w][p] = disk[w][p]

\* Events alone keep the map right for the root directory: unless the queue has
\* overflowed, once it is drained the map agrees with the projection, whatever
\* changes came between an event and its handling.
DrainedMeansSynced == EventsHandled /\ ~overflowed => RootSynced

\* When requests and edits cease, the map comes to agree with the projection and
\* stays so: reconciliation repairs what events missed (an overflow, a directory
\* populated before it was watched, a stopped event loop), what the routines
\* applied late, and what a failed or interleaved write left.
MapConverges ==
  horizon.ticks => <>[](\A w \in live : files[w] = disk[w])

\* The watches of dropped workspaces do not accumulate in the engine's table:
\* those that a scan adds after unregister_workspace go with the directory, as
\* long as the loop runs, no event is dropped and IGNORED does not arrive between
\* the two halves of add_single_watch.
WatchesReleased ==
  <>[](reading /\ ~overflowed /\ ~late =>
         \A e \in watches : e.ws \in live \/ dirs[e.ws] # {})

\* The engine settles: with the periodic pass the map comes to agree with the
\* projection, and the table holds no watch of a dropped workspace for ever.
EngineSettles == MapConverges /\ WatchesReleased
=============================================================================
