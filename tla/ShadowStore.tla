---------------------------- MODULE ShadowStore ----------------------------
(***************************************************************************)
(* The blob store of the cwso-git-shadow service (repo.rs): workspaces     *)
(* whose files live in an in-memory map and, projected, in a real          *)
(* directory; commits in the bare repository's object database.  Every     *)
(* connection is a thread of its own, so the requests of several clients   *)
(* interleave between the store's short critical sections.  The service    *)
(* may be killed at any step; the object database and the directories stay *)
(* and a new instance sweeps the directories.                              *)
(*                                                                         *)
(* With no engine attached (Attached = FALSE) this is the whole store;     *)
(* WriteBack extends it with the engine and the two steps that call it.    *)
(***************************************************************************)
EXTENDS Naturals, Sequences, FiniteSets

CONSTANTS
  Workspace,        \* the uuids create may draw
  Client,           \* the threads of handle_client
  Path,             \* logical paths, each in the root or a subdirectory
  Root, SubDir,     \* the directories of a projection
  DirOf,            \* the directory of a path
  Content,          \* what clients write
  Empty,            \* the content of a file just created or truncated
  None,             \* a path that is not there
  Attached,         \* a write-back engine is attached
  MaxWrites,        \* bound: write_file requests
  MaxCommits,       \* bound: commits made
  MaxDrops,         \* bound: drop_workspace requests
  MaxFaults,        \* bound: requests and sweeps that meet a failing filesystem
  MaxCrashes        \* bound: times the service is killed

Dir == {Root} \cup SubDir
Value == Content \cup {Empty, None}
NoFiles == [p \in Path |-> None]

ASSUME DirAssumption == DirOf \in [Path -> Dir] /\ Root \notin SubDir
ASSUME ValueAssumption == Empty # None /\ Empty \notin Content /\ None \notin Content
ASSUME ClientAssumption == None \notin Client
ASSUME BoundAssumption ==
  {MaxWrites, MaxCommits, MaxDrops, MaxFaults, MaxCrashes} \subseteq Nat
ASSUME AttachedAssumption == Attached \in BOOLEAN
ASSUME NonEmptyAssumption == Workspace # {} /\ Path # {}

VARIABLES
  up,               \* the service is running
  used,             \* uuids drawn so far
  live,             \* the keys of ShadowStore.workspaces
  files,            \* Workspace.files
  head,             \* Workspace.head: a commit, 0 for none
  lock,             \* who holds the workspace's entry of commit_locks
  dirs,             \* the directories that exist in the projection
  disk,             \* the content of the files in the projection
  blobs,            \* blobs in the object database
  odb,              \* commits in the object database, oldest first
  pc,               \* where a client's request is
  cws, cpath, cval, \* the workspace, path and content of the request
  cfd,              \* the request's leaf descriptor names a linked file
  ctree, cpar,      \* the tree and the parent commit() or create() read
  dropped,          \* history: workspaces drop_workspace has removed
  old,              \* history: uuids drawn before the service last started
  warned,           \* history: projections the last sweep warned it could not remove
  writes, drops,    \* requests made
  faults, crashes

memVars == <<up, used, live, files, head, lock>>
diskVars == <<dirs, disk>>
odbVars == <<blobs, odb>>
reqVars == <<cws, cpath, cval, ctree, cpar>>
history == <<dropped, old, warned>>
countVars == <<writes, drops, faults, crashes>>
vars == <<memVars, diskVars, odbVars, pc, reqVars, cfd, history, countVars>>

\* The uuids a client can name: of workspaces now or formerly in the map.
Known == live \cup dropped \cup old

Goto(c, l) == pc' = [pc EXCEPT ![c] = l]

\* The leaf descriptors that still name a file once the projections are d.
StillLinked(d) ==
  [c \in Client |-> cfd[c] /\ d[cws[c]][cpath[c]] # None]

\* What remove_dir_all leaves of a projection when it fails on the way: the root
\* and, of what is below it, the directories and files in kept.
DirsLeft(w, kept) == dirs[w] \cap ({Root} \cup kept)

FilesLeft(w, kept) ==
  [p \in Path |->
     IF p \in kept /\ DirOf[p] \in {Root} \cup kept THEN disk[w][p] ELSE None]

AnyWorkspace == CHOOSE w \in Workspace : TRUE
AnyPath == CHOOSE p \in Path : TRUE

Init ==
  /\ up = TRUE
  /\ used = {}
  /\ live = {}
  /\ files = [w \in Workspace |-> NoFiles]
  /\ head = [w \in Workspace |-> 0]
  /\ lock = [w \in Workspace |-> None]
  /\ dirs = [w \in Workspace |-> {}]
  /\ disk = [w \in Workspace |-> NoFiles]
  /\ blobs = {}
  /\ odb = <<>>
  /\ pc = [c \in Client |-> "idle"]
  /\ cws = [c \in Client |-> AnyWorkspace]
  /\ cpath = [c \in Client |-> AnyPath]
  /\ cval = [c \in Client |-> Empty]
  /\ cfd = [c \in Client |-> FALSE]
  /\ ctree = [c \in Client |-> NoFiles]
  /\ cpar = [c \in Client |-> 0]
  /\ dropped = {}
  /\ old = {}
  /\ warned = {}
  /\ writes = 0
  /\ drops = 0
  /\ faults = 0
  /\ crashes = 0
-----------------------------------------------------------------------------
(***************************************************************************)
(* create.  The base commit, if one is named, is looked up; the directory  *)
(* is made and each blob of the base tree is projected, in the tree's      *)
(* order; then the workspace is inserted.                                  *)
(***************************************************************************)
BaseTree(b) == IF b = 0 THEN NoFiles ELSE odb[b].tree

DirsFor(tree) == {Root} \cup {DirOf[p] : p \in {q \in Path : tree[q] # None}}

Project(w, tree) ==
  /\ dirs' = [dirs EXCEPT ![w] = DirsFor(tree)]
  /\ disk' = [disk EXCEPT ![w] = tree]

CreateProject(c, w, b) ==
  /\ up /\ pc[c] = "idle"
  /\ w \notin used
  /\ used' = used \cup {w}
  /\ Project(w, BaseTree(b))
  /\ cws' = [cws EXCEPT ![c] = w]
  /\ ctree' = [ctree EXCEPT ![c] = BaseTree(b)]
  /\ cpar' = [cpar EXCEPT ![c] = b]
  /\ Goto(c, "create")
  /\ UNCHANGED <<up, live, files, head, lock, odbVars, cpath, cval, cfd,
                 history, countVars>>

\* A projection that fails on the way returns the error and leaves what it
\* wrote: files in full, and at most one created but not filled.
CreateFails(c, w, b, left) ==
  /\ up /\ pc[c] = "idle"
  /\ w \notin used
  /\ faults < MaxFaults
  /\ left # BaseTree(b)
  /\ \A p \in Path : \/ left[p] \in {BaseTree(b)[p], None}
                     \/ left[p] = Empty /\ BaseTree(b)[p] # None
  /\ Cardinality({p \in Path : left[p] # BaseTree(b)[p] /\ left[p] = Empty}) <= 1
  /\ used' = used \cup {w}
  /\ Project(w, left)
  /\ faults' = faults + 1
  /\ UNCHANGED <<up, live, files, head, lock, odbVars, pc, reqVars, cfd,
                 history, writes, drops, crashes>>

CreateInsert(c) ==
  /\ pc[c] = "create"
  /\ live' = live \cup {cws[c]}
  /\ files' = [files EXCEPT ![cws[c]] = ctree[c]]
  /\ head' = [head EXCEPT ![cws[c]] = cpar[c]]
  /\ Goto(c, IF Attached THEN "register" ELSE "idle")
  /\ UNCHANGED <<up, used, lock, diskVars, odbVars, reqVars, cfd, history,
                 countVars>>

(***************************************************************************)
(* write_file.  The lookup, the projection (make the directories, open the *)
(* leaf, fill it) and the insertion of the blob into the map are separate  *)
(* steps.                                                                  *)
(***************************************************************************)
WriteCheck(c, w, p, v) ==
  /\ up /\ pc[c] = "idle"
  /\ w \in live /\ writes < MaxWrites
  /\ writes' = writes + 1
  /\ cws' = [cws EXCEPT ![c] = w]
  /\ cpath' = [cpath EXCEPT ![c] = p]
  /\ cval' = [cval EXCEPT ![c] = v]
  /\ Goto(c, "mkdir")
  /\ UNCHANGED <<memVars, diskVars, odbVars, ctree, cpar, cfd, history,
                 drops, faults, crashes>>

WriteMkdir(c) ==
  /\ pc[c] = "mkdir"
  /\ dirs' = [dirs EXCEPT ![cws[c]] = @ \cup {Root}]
  /\ Goto(c, "open")
  /\ UNCHANGED <<memVars, disk, odbVars, reqVars, cfd, history, countVars>>

WriteOpen(c) ==
  /\ pc[c] = "open"
  /\ Root \in dirs[cws[c]]
  /\ dirs' = [dirs EXCEPT ![cws[c]] = @ \cup {DirOf[cpath[c]]}]
  /\ disk' = [disk EXCEPT ![cws[c]][cpath[c]] = Empty]
  /\ cfd' = [cfd EXCEPT ![c] = TRUE]
  /\ Goto(c, "fill")
  /\ UNCHANGED <<memVars, odbVars, reqVars, history, countVars>>

\* The directory was removed under the walk: openat reports the error.
WriteOpenFails(c) ==
  /\ pc[c] = "open"
  /\ Root \notin dirs[cws[c]]
  /\ Goto(c, "idle")
  /\ UNCHANGED <<memVars, diskVars, odbVars, reqVars, cfd, history, countVars>>

WriteFill(c) ==
  /\ pc[c] = "fill"
  /\ disk' = IF cfd[c] THEN [disk EXCEPT ![cws[c]][cpath[c]] = cval[c]] ELSE disk
  /\ cfd' = [cfd EXCEPT ![c] = FALSE]
  /\ Goto(c, "blob")
  /\ UNCHANGED <<memVars, dirs, odbVars, reqVars, history, countVars>>

\* write_all finds the filesystem full: the leaf stays truncated.
WriteFillFails(c) ==
  /\ pc[c] = "fill"
  /\ faults < MaxFaults
  /\ faults' = faults + 1
  /\ cfd' = [cfd EXCEPT ![c] = FALSE]
  /\ Goto(c, "idle")
  /\ UNCHANGED <<memVars, diskVars, odbVars, reqVars, history, writes, drops, crashes>>

WriteBlob(c) ==
  /\ pc[c] = "blob"
  /\ blobs' = blobs \cup {cval[c]}
  /\ Goto(c, "insert")
  /\ UNCHANGED <<memVars, diskVars, odb, reqVars, cfd, history, countVars>>

WriteInsert(c) ==
  /\ pc[c] = "insert"
  /\ files' = IF cws[c] \in live
                THEN [files EXCEPT ![cws[c]][cpath[c]] = cval[c]] ELSE files
  /\ Goto(c, "idle")
  /\ UNCHANGED <<up, used, live, head, lock, diskVars, odbVars, reqVars, cfd,
                 history, countVars>>

(***************************************************************************)
(* commit.  The workspace's commit lock is held from before the map is     *)
(* read until the head is advanced.                                        *)
(***************************************************************************)
\* Mutant: commits to the same workspace are not serialised.
MutCommitLock(c, w) ==
  /\ up /\ pc[c] = "idle"
  /\ w \in Known
  /\ Len(odb) + Cardinality({d \in Client : pc[d] \in {"read", "commit"}})
       < MaxCommits
  /\ lock' = [lock EXCEPT ![w] = c]
  /\ cws' = [cws EXCEPT ![c] = w]
  /\ Goto(c, "read")
  /\ UNCHANGED <<up, used, live, files, head, diskVars, odbVars, cpath, cval,
                 ctree, cpar, cfd, history, countVars>>

CommitLock(c, w) ==
  /\ up /\ pc[c] = "idle"
  /\ w \in Known /\ lock[w] = None
  /\ Len(odb) + Cardinality({d \in Client : pc[d] \in {"read", "commit"}})
       < MaxCommits
  /\ lock' = [lock EXCEPT ![w] = c]
  /\ cws' = [cws EXCEPT ![c] = w]
  /\ Goto(c, "read")
  /\ UNCHANGED <<up, used, live, files, head, diskVars, odbVars, cpath, cval,
                 ctree, cpar, cfd, history, countVars>>

Unlock(c) == lock' = [lock EXCEPT ![cws[c]] = None]

CommitRead(c) ==
  /\ pc[c] = "read"
  /\ cws[c] \in live
  /\ ctree' = [ctree EXCEPT ![c] = files[cws[c]]]
  /\ cpar' = [cpar EXCEPT ![c] = head[cws[c]]]
  /\ Goto(c, "commit")
  /\ UNCHANGED <<memVars, diskVars, odbVars, cws, cpath, cval, cfd, history,
                 countVars>>

\* "no such workspace"
CommitRefused(c) ==
  /\ pc[c] = "read"
  /\ cws[c] \notin live
  /\ Unlock(c)
  /\ Goto(c, "idle")
  /\ UNCHANGED <<up, used, live, files, head, diskVars, odbVars, reqVars, cfd,
                 history, countVars>>

\* find_blob, write_tree_to and repo.commit, under the repository's lock; any of
\* them may return an error, which drops the commit's guard.
CommitFails(c) ==
  /\ pc[c] = "commit"
  /\ faults < MaxFaults
  /\ faults' = faults + 1
  /\ Unlock(c)
  /\ Goto(c, "idle")
  /\ UNCHANGED <<up, used, live, files, head, diskVars, odbVars, reqVars, cfd,
                 history, writes, drops, crashes>>

CommitObject(c) ==
  /\ pc[c] = "commit"
  /\ odb' = Append(odb, [ws |-> cws[c], parent |-> cpar[c], tree |-> ctree[c]])
  /\ cpar' = [cpar EXCEPT ![c] = Len(odb')]
  /\ Goto(c, "advance")
  /\ UNCHANGED <<memVars, diskVars, blobs, cws, cpath, cval, ctree, cfd,
                 history, countVars>>

CommitAdvance(c) ==
  /\ pc[c] = "advance"
  /\ head' = IF cws[c] \in live THEN [head EXCEPT ![cws[c]] = cpar[c]] ELSE head
  /\ Unlock(c)
  /\ Goto(c, "idle")
  /\ UNCHANGED <<up, used, live, files, diskVars, odbVars, reqVars, cfd,
                 history, countVars>>

(***************************************************************************)
(* drop_workspace.  The entry leaves the map, then remove_dir_all empties  *)
(* the projection and removes its root.  When it fails, on the way or      *)
(* because a file has appeared meanwhile, that is logged and what is left  *)
(* stays.                                                                  *)
(***************************************************************************)
DropBegin(c, w) ==
  /\ up /\ pc[c] = "idle"
  /\ w \in Known /\ drops < MaxDrops
  /\ drops' = drops + 1
  /\ cws' = [cws EXCEPT ![c] = w]
  /\ Goto(c, IF Attached THEN "unregister" ELSE "forget")
  /\ UNCHANGED <<memVars, diskVars, odbVars, cpath, cval, ctree, cpar, cfd,
                 history, writes, faults, crashes>>

DropForget(c) ==
  /\ pc[c] = "forget"
  /\ live' = live \ {cws[c]}
  /\ files' = [files EXCEPT ![cws[c]] = NoFiles]
  /\ head' = [head EXCEPT ![cws[c]] = 0]
  /\ dropped' = dropped \cup {cws[c]}
  /\ Goto(c, "unlink")
  /\ UNCHANGED <<up, used, lock, diskVars, odbVars, reqVars, cfd, old, warned,
                 countVars>>

DropUnlink(c) ==
  /\ pc[c] = "unlink"
  /\ disk' = [disk EXCEPT ![cws[c]] = NoFiles]
  /\ dirs' = [dirs EXCEPT ![cws[c]] = @ \cap {Root}]
  /\ cfd' = StillLinked(disk')
  /\ Goto(c, "rmdir")
  /\ UNCHANGED <<memVars, odbVars, reqVars, history, countVars>>

DropUnlinkFails(c, kept) ==
  /\ pc[c] = "unlink"
  /\ faults < MaxFaults
  /\ faults' = faults + 1
  /\ disk' = [disk EXCEPT ![cws[c]] = FilesLeft(cws[c], kept)]
  /\ dirs' = [dirs EXCEPT ![cws[c]] = DirsLeft(cws[c], kept)]
  /\ cfd' = StillLinked(disk')
  /\ Goto(c, "idle")
  /\ UNCHANGED <<memVars, odbVars, reqVars, history, writes, drops, crashes>>

DropRmdir(c) ==
  /\ pc[c] = "rmdir"
  /\ dirs' = IF dirs[cws[c]] \subseteq {Root} /\ disk[cws[c]] = NoFiles
               THEN [dirs EXCEPT ![cws[c]] = {}] ELSE dirs
  /\ Goto(c, "idle")
  /\ UNCHANGED <<memVars, disk, odbVars, reqVars, cfd, history, countVars>>

(***************************************************************************)
(* The requests that only look (stat, list, get, read, query_ast), and any *)
(* request refused for its path or for an unknown workspace.               *)
(***************************************************************************)
Inspect(c) ==
  /\ up /\ pc[c] = "idle"
  /\ UNCHANGED vars

(***************************************************************************)
(* The process is killed; a new one opens the repository and, before it    *)
(* serves anyone, removes every other entry of the storage root.  An entry *)
(* that cannot be removed is warned of and skipped, and the service starts *)
(* all the same.                                                           *)
(***************************************************************************)
Crash ==
  /\ up /\ crashes < MaxCrashes
  /\ up' = FALSE
  /\ crashes' = crashes + 1
  /\ old' = used
  /\ live' = {}
  /\ files' = [w \in Workspace |-> NoFiles]
  /\ head' = [w \in Workspace |-> 0]
  /\ lock' = [w \in Workspace |-> None]
  /\ pc' = [c \in Client |-> "idle"]
  /\ cfd' = [c \in Client |-> FALSE]
  /\ UNCHANGED <<used, diskVars, odbVars, reqVars, dropped, warned, writes,
                 drops, faults>>

\* Mutant: the sweep stops at an entry it cannot remove, and warns of that one.
MutSweep(stuck, kept) ==
  /\ dirs' = [w \in Workspace |-> IF stuck = {} THEN {} ELSE dirs[w]]
  /\ disk' = [w \in Workspace |-> IF stuck = {} THEN NoFiles ELSE disk[w]]
  /\ warned' = stuck

\* sweep_stale_workspace_dirs, when the entries in stuck cannot be removed.
Sweep(stuck, kept) ==
  /\ dirs' = [w \in Workspace |-> IF w \in stuck THEN DirsLeft(w, kept[w]) ELSE {}]
  /\ disk' = [w \in Workspace |->
                IF w \in stuck THEN FilesLeft(w, kept[w]) ELSE NoFiles]
  /\ warned' = stuck

Start ==
  /\ ~up
  /\ up' = TRUE
  /\ \E stuck \in SUBSET {w \in Workspace : dirs[w] # {}},
       kept \in [Workspace -> SUBSET (SubDir \cup Path)] :
       /\ stuck # {} => faults < MaxFaults
       /\ Sweep(stuck, kept)
       /\ faults' = IF stuck = {} THEN faults ELSE faults + 1
  /\ UNCHANGED <<used, live, files, head, lock, odbVars, pc, reqVars, cfd,
                 dropped, old, writes, drops, crashes>>

CreateStep(c) ==
  \/ \E w \in Workspace, b \in 0..Len(odb) :
       \/ CreateProject(c, w, b)
       \/ \E left \in [Path -> Value] : CreateFails(c, w, b, left)
  \/ CreateInsert(c)

WriteStep(c) ==
  \/ \E w \in Workspace, p \in Path, v \in Content : WriteCheck(c, w, p, v)
  \/ WriteMkdir(c) \/ WriteOpen(c) \/ WriteOpenFails(c)
  \/ WriteFill(c) \/ WriteFillFails(c) \/ WriteBlob(c) \/ WriteInsert(c)

CommitStep(c) ==
  \/ \E w \in Workspace : CommitLock(c, w)
  \/ CommitRead(c) \/ CommitRefused(c) \/ CommitObject(c) \/ CommitFails(c)
  \/ CommitAdvance(c)

DropStep(c) ==
  \/ \E w \in Workspace : DropBegin(c, w)
  \/ DropForget(c) \/ DropUnlink(c) \/ DropRmdir(c)
  \/ \E kept \in SUBSET (SubDir \cup Path) : DropUnlinkFails(c, kept)

Next ==
  \/ \E c \in Client :
       \/ CreateStep(c) \/ WriteStep(c) \/ CommitStep(c) \/ DropStep(c)
       \/ Inspect(c)
  \/ Crash
  \/ Start

Spec == Init /\ [][Next]_vars
-----------------------------------------------------------------------------
Tree == [Path -> Value]
Label == {"idle", "create", "mkdir", "open", "fill", "blob", "insert",
          "read", "commit", "advance", "forget", "unlink", "rmdir",
          "register", "unregister"}

\* The type of every piece of state of the store and its requests.
TypeOK ==
  /\ up \in BOOLEAN
  /\ used \subseteq Workspace
  /\ live \subseteq used
  /\ files \in [Workspace -> Tree]
  /\ head \in [Workspace -> Nat]
  /\ lock \in [Workspace -> Client \cup {None}]
  /\ dirs \in [Workspace -> SUBSET Dir]
  /\ disk \in [Workspace -> Tree]
  /\ blobs \subseteq Content \cup {Empty}
  /\ odb \in Seq([ws : Workspace, parent : Nat, tree : Tree])
  /\ pc \in [Client -> Label]
  /\ cws \in [Client -> Workspace]
  /\ cpath \in [Client -> Path]
  /\ cval \in [Client -> Content \cup {Empty}]
  /\ cfd \in [Client -> BOOLEAN]
  /\ ctree \in [Client -> Tree]
  /\ cpar \in [Client -> Nat]
  /\ dropped \subseteq used
  /\ old \subseteq used
  /\ warned \subseteq Workspace
  /\ {writes, drops, faults, crashes} \subseteq Nat

CommitsOf(w) == {i \in 1..Len(odb) : odb[i].ws = w}

\* Commit i is made but the head it is to become has not advanced yet.
Advancing(i) == \E c \in Client : pc[c] = "advance" /\ cpar[c] = i

\* No commit is lost from the chain of a live workspace, however many clients
\* commit to it at once: no two commits have the same parent, and every one but
\* the head (and one about to become the head) is the parent of another, so that
\* walking back from the head meets all of them.
CommitsFormChain ==
  \A w \in live :
    /\ \A i, j \in CommitsOf(w) : odb[i].parent = odb[j].parent => i = j
    /\ \A i \in CommitsOf(w) :
         i = head[w] \/ Advancing(i) \/ \E j \in CommitsOf(w) : odb[j].parent = i

\* commit() and read_file() never meet an object id that the object database
\* lacks: what a map or a commit's tree names has been written before it is
\* named, also after the service was killed between the two.
NoDanglingOids ==
  /\ \A w \in live, p \in Path : files[w][p] \in blobs \cup {None}
  /\ \A i \in 1..Len(odb) :
       /\ odb[i].parent < i
       /\ \A p \in Path : odb[i].tree[p] \in blobs \cup {None}

\* A workspace that drop_workspace removed stays removed, whatever the requests
\* that had looked it up before do afterwards.
DropIsFinal == live \cap dropped = {}

\* The map never names a file the projection does not hold: write_file projects
\* before it inserts, and a drop forgets before it unlinks.
MapNeverAheadOfDisk ==
  \A w \in live, p \in Path : files[w][p] # None => disk[w][p] # None

\* What an instance that was killed has left on disk reaches no later one, but
\* for the projections whose removal failed and was warned of: none of its uuids
\* is in the map again, and what the sweep has removed no request makes again.
OnlyWarnedOutlive ==
  /\ live \cap old = {}
  /\ up => \A w \in old \ warned : dirs[w] = {} /\ disk[w] = NoFiles

\* Map, object database and disk agree across concurrent requests, failures and
\* kills: nothing dangles, no dropped workspace returns, no file is named before
\* it is projected, and no directory outlives its instance unless the sweep
\* warned that it could not remove it.
StoreConsistent ==
  NoDanglingOids /\ DropIsFinal /\ MapNeverAheadOfDisk /\ OnlyWarnedOutlive

\* No orphaned directory survives a drop, once no request for it is going on and
\* unless the filesystem refused to remove something.
DropRemovesDirectory ==
  faults = 0 => \A w \in dropped :
    (\A c \in Client : cws[c] = w => pc[c] = "idle") => dirs[w] = {}
=============================================================================
