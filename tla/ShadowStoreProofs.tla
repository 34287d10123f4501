-------------------------- MODULE ShadowStoreProofs --------------------------
(***************************************************************************)
(* Proofs about ShadowStore, for any numbers of workspaces, clients, paths *)
(* and contents, and any bounds, in three layers: the types, which         *)
(* workspaces a request can be about and who holds the lock of a           *)
(* workspace; the commits of a live workspace form a chain; and which      *)
(* blobs are in the object database, with what the projection holds.       *)
(***************************************************************************)
EXTENDS ShadowStore, TLAPS

Writing == {"mkdir", "open", "fill", "blob", "insert"}
Committing == {"read", "commit", "advance"}

\* A workspace is inserted once: the uuid a create has drawn is known to nobody
\* else, every other request is about a known one, and no uuid comes back.
NameInv ==
  /\ live \cap dropped = {} /\ live \cap old = {}
  /\ ~up => live = {} /\ \A c \in Client : pc[c] = "idle"
  /\ \A c \in Client :
       /\ pc[c] = "create" =>
            /\ cws[c] \in used \ Known
            /\ \A d \in Client : pc[d] = "create" /\ cws[d] = cws[c] => d = c
       /\ pc[c] \notin {"idle", "create"} => cws[c] \in Known
       /\ pc[c] \in Writing => cws[c] \notin old
       /\ pc[c] \in {"unlink", "rmdir"} => cws[c] \in dropped
  /\ \A i \in 1..Len(odb) : odb[i].ws \in Known

\* A commit holds the lock of its workspace from its first to its last step.
LockInv ==
  \A c \in Client : pc[c] \in Committing => lock[cws[c]] = c
-----------------------------------------------------------------------------
\* A new workspace and a forgotten one have no files.
LEMMA NoFilesType == NoFiles \in Tree
BY Zenon DEF NoFiles, Tree, Value

\* What a failed removal leaves of a projection is part of it.
LEMMA LeftType ==
  ASSUME TypeOK, NEW w \in Workspace, NEW kept
  PROVE  DirsLeft(w, kept) \in SUBSET Dir /\ FilesLeft(w, kept) \in Tree
<1>1. dirs[w] \in SUBSET Dir /\ disk[w] \in Tree
  BY Zenon DEF TypeOK
<1>2. None \in Value /\ \A p \in Path : disk[w][p] \in Value
  BY Zenon, <1>1 DEF Tree, Value
<1>3. FilesLeft(w, kept) \in Tree
  BY Zenon, <1>2 DEF FilesLeft, Tree
<1> QED
  BY Zenon, <1>1, <1>3 DEF DirsLeft

\* What a failed removal leaves of nothing is nothing.
LEMMA NothingLeft ==
  ASSUME NEW w, NEW kept, dirs[w] = {}, disk[w] = NoFiles
  PROVE  DirsLeft(w, kept) = {} /\ FilesLeft(w, kept) = NoFiles
BY Zenon DEF DirsLeft, FilesLeft, NoFiles

\* The sweep leaves projections.
LEMMA SweepType ==
  ASSUME TypeOK, Start
  PROVE  /\ dirs' \in [Workspace -> SUBSET Dir] /\ disk' \in [Workspace -> Tree]
         /\ warned' \subseteq Workspace /\ faults' \in Nat
         /\ \A w \in Workspace \ warned' : dirs'[w] = {} /\ disk'[w] = NoFiles
<1>1. PICK stuck \in SUBSET {w \in Workspace : dirs[w] # {}},
            kept \in [Workspace -> SUBSET (SubDir \cup Path)] :
         Sweep(stuck, kept) /\ faults' = IF stuck = {} THEN faults ELSE faults + 1
  BY Zenon DEF Start
<1>2. faults' \in Nat
  BY <1>1 DEF TypeOK
<1>3. dirs' \in [Workspace -> SUBSET Dir] /\ disk' \in [Workspace -> Tree]
  BY Zenon, <1>1, LeftType, NoFilesType DEF Sweep
<1>4. /\ warned' \subseteq Workspace
      /\ \A w \in Workspace \ warned' : dirs'[w] = {} /\ disk'[w] = NoFiles
  BY Zenon, <1>1 DEF Sweep
<1> QED
  BY Zenon, <1>2, <1>3, <1>4

\* A commit in the object database is a commit.
LEMMA CommitType ==
  ASSUME TypeOK, NEW i \in 1..Len(odb)
  PROVE  /\ odb[i].ws \in Workspace
         /\ odb[i].parent \in Nat
         /\ odb[i].tree \in Tree
<1> DEFINE Commit == [ws : Workspace, parent : Nat, tree : Tree]
<1>1. odb \in Seq(Commit)
  BY Zenon DEF TypeOK
<1> HIDE DEF Commit
<1>2. odb[i] \in Commit
  BY <1>1
<1> QED
  BY Zenon, <1>2 DEF Commit

\* What create projects is a tree of the object database, or empty.
LEMMA BaseTreeType ==
  ASSUME TypeOK, NEW b \in 0..Len(odb)
  PROVE  BaseTree(b) \in Tree
<1>1. CASE b = 0
  BY Zenon, <1>1, NoFilesType DEF BaseTree
<1>2. CASE b # 0
  <2>1. b \in 1..Len(odb)
    BY <1>2 DEF TypeOK
  <2> QED
    BY Zenon, <1>2, <2>1, CommitType DEF BaseTree
<1> QED
  BY Zenon, <1>1, <1>2

\* repo.commit adds one commit to the object database and changes no other.
LEMMA OdbGrows ==
  ASSUME TypeOK, NEW c \in Client, CommitObject(c)
  PROVE  /\ Len(odb) \in Nat
         /\ Len(odb') = Len(odb) + 1
         /\ \A i \in 1..Len(odb) : odb'[i] = odb[i]
         /\ odb'[Len(odb) + 1].ws = cws[c]
         /\ odb'[Len(odb) + 1].parent = cpar[c]
         /\ odb'[Len(odb) + 1].tree = ctree[c]
BY DEF CommitObject, TypeOK
-----------------------------------------------------------------------------

\* Every action keeps the types.
LEMMA TypeStep ==
  ASSUME TypeOK, NameInv, [Next]_vars
  PROVE  TypeOK'
<1>1. ASSUME NEW c \in Client, NEW w \in Workspace, NEW b \in 0..Len(odb),
            CreateProject(c, w, b)
     PROVE  TypeOK'
    BY <1>1, BaseTreeType, DirAssumption
       DEF CreateProject, Project, DirsFor, Dir, Goto, odbVars, history, countVars,
           TypeOK, Tree, Label
<1>2. ASSUME NEW c \in Client, NEW w \in Workspace, NEW b \in 0..Len(odb),
            NEW left \in [Path -> Value],
            CreateFails(c, w, b, left)
     PROVE  TypeOK'
    BY <1>2, DirAssumption
       DEF CreateFails, Project, DirsFor, Dir, memVars, odbVars, reqVars, history,
           countVars, TypeOK, Tree
<1>3. ASSUME NEW c \in Client, CreateInsert(c)
     PROVE  TypeOK'
    BY <1>3 DEF CreateInsert, Goto, diskVars, odbVars, reqVars, history, countVars,
           TypeOK, NameInv, Tree, Label
<1>4. ASSUME NEW c \in Client, NEW w \in Workspace,
            NEW p \in Path, NEW v \in Content,
            WriteCheck(c, w, p, v)
     PROVE  TypeOK'
  BY <1>4 DEF WriteCheck, Goto, memVars, diskVars, odbVars, history,
         TypeOK, Tree, Label
<1>5. ASSUME NEW c \in Client, WriteMkdir(c)
     PROVE  TypeOK'
  BY Zenon, <1>5 DEF WriteMkdir, Goto, memVars, odbVars, reqVars, history,
         countVars, TypeOK, Tree, Label, Value, Dir, NoFiles
<1>6. ASSUME NEW c \in Client, WriteOpen(c)
     PROVE  TypeOK'
  BY <1>6, DirAssumption, BoundAssumption, NoFilesType
     DEF WriteOpen, Goto, memVars, odbVars, reqVars, history, countVars,
         TypeOK, Tree, Label, Value, Dir, NoFiles
<1>7. ASSUME NEW c \in Client, WriteOpenFails(c)
     PROVE  TypeOK'
  BY Zenon, <1>7 DEF WriteOpenFails, Goto, memVars, diskVars, odbVars, reqVars,
         history, countVars, TypeOK, Tree, Label
<1>8. ASSUME NEW c \in Client, WriteFill(c)
     PROVE  TypeOK'
  BY Zenon, <1>8 DEF WriteFill, Goto, memVars, odbVars, reqVars, history,
         countVars, TypeOK, Tree, Label, Value, Dir, NoFiles
<1>9. ASSUME NEW c \in Client, WriteFillFails(c)
     PROVE  TypeOK'
  BY <1>9 DEF WriteFillFails, Goto, memVars, diskVars, odbVars, reqVars,
         history, TypeOK, Tree, Label
<1>10. ASSUME NEW c \in Client, WriteBlob(c)
      PROVE  TypeOK'
  BY Zenon, <1>10 DEF WriteBlob, Goto, memVars, diskVars, reqVars, history,
         countVars, TypeOK, Tree, Label
<1>11. ASSUME NEW c \in Client, WriteInsert(c)
      PROVE  TypeOK'
  BY Zenon, <1>11 DEF WriteInsert, Goto, diskVars, odbVars, reqVars, history,
         countVars, TypeOK, Tree, Label, Value, Dir, NoFiles
<1>12. ASSUME NEW c \in Client, NEW w \in Workspace,
            CommitLock(c, w)
      PROVE  TypeOK'
  BY Zenon, <1>12 DEF CommitLock, Goto, diskVars, odbVars, history, countVars,
         TypeOK, Tree, Label
<1>13. ASSUME NEW c \in Client, CommitRead(c)
      PROVE  TypeOK'
  BY Zenon, <1>13 DEF CommitRead, Goto, memVars, diskVars, odbVars, history,
         countVars, TypeOK, Tree, Label
<1>14. ASSUME NEW c \in Client, CommitRefused(c)
      PROVE  TypeOK'
  BY Zenon, <1>14 DEF CommitRefused, Goto, Unlock, diskVars, odbVars, reqVars,
         history, countVars, TypeOK, Tree, Label
<1>15. ASSUME NEW c \in Client, CommitObject(c)
      PROVE  TypeOK'
  BY <1>15 DEF CommitObject, Goto, memVars, diskVars, history, countVars,
         TypeOK, Tree, Label
<1>16. ASSUME NEW c \in Client, CommitAdvance(c)
      PROVE  TypeOK'
  BY Zenon, <1>16 DEF CommitAdvance, Goto, Unlock, diskVars, odbVars, reqVars,
         history, countVars, TypeOK, Tree, Label
<1>17. ASSUME NEW c \in Client, NEW w \in Workspace,
            DropBegin(c, w)
      PROVE  TypeOK'
  BY <1>17 DEF DropBegin, Goto, memVars, diskVars, odbVars, history, TypeOK,
         Tree, Label
<1>18. ASSUME NEW c \in Client, DropForget(c)
      PROVE  TypeOK'
    BY <1>18, NoFilesType
       DEF DropForget, Goto, diskVars, odbVars, reqVars, countVars,
           TypeOK, NameInv, Known, Label
<1>19. ASSUME NEW c \in Client, DropUnlink(c)
      PROVE  TypeOK'
  BY Zenon, <1>19 DEF DropUnlink, Goto, StillLinked, memVars, odbVars, reqVars,
         history, countVars, TypeOK, Tree, Label, Value, Dir, NoFiles
<1>20. ASSUME NEW c \in Client, DropRmdir(c)
      PROVE  TypeOK'
  BY Zenon, <1>20 DEF DropRmdir, Goto, memVars, odbVars, reqVars, history,
         countVars, TypeOK, Tree, Label
<1>21. ASSUME Crash
      PROVE  TypeOK'
  <2>1. files' \in [Workspace -> Tree]
    BY Zenon, <1>21, NoFilesType DEF Crash
  <2>2. /\ used' = used /\ live' = {} /\ dropped' = dropped /\ old' = used
        /\ used \subseteq Workspace /\ dropped \subseteq used
    BY Zenon, <1>21 DEF Crash, TypeOK
  <2>3. /\ up' \in BOOLEAN
        /\ head' \in [Workspace -> Nat] /\ cfd' \in [Client -> BOOLEAN]
        /\ lock' \in [Workspace -> Client \cup {None}] /\ pc' \in [Client -> Label]
    BY Zenon, <1>21 DEF Crash, Label
  <2>4. {writes, drops, faults, crashes}' \subseteq Nat
    BY <1>21 DEF Crash, TypeOK
  <2> QED
    BY Zenon, <1>21, <2>1, <2>2, <2>3, <2>4
       DEF Crash, diskVars, odbVars, reqVars, TypeOK
<1>22. ASSUME Start
      PROVE  TypeOK'
  <2>1. {writes, drops, faults, crashes}' \subseteq Nat
    BY Zenon, <1>22, SweepType DEF Start, TypeOK
  <2> QED
    BY Zenon, <1>22, <2>1, SweepType DEF Start, odbVars, reqVars, TypeOK
<1>23. CASE UNCHANGED vars
  BY Zenon, <1>23 DEF vars, memVars, diskVars, odbVars, reqVars, history,
         countVars, TypeOK, Tree, Label
<1>24. ASSUME NEW c \in Client, CommitFails(c)
      PROVE  TypeOK'
  BY <1>24 DEF CommitFails, Goto, Unlock, diskVars, odbVars, reqVars,
         history, TypeOK, Tree, Label, Value, Dir
<1>25. ASSUME NEW c \in Client, NEW kept \in SUBSET (SubDir \cup Path),
            DropUnlinkFails(c, kept)
      PROVE  TypeOK'
  <2>1. {writes, drops, faults, crashes}' \subseteq Nat
    BY <1>25 DEF DropUnlinkFails, TypeOK
  <2>2. /\ DirsLeft(cws[c], kept) \in SUBSET Dir
        /\ FilesLeft(cws[c], kept) \in Tree
    BY Zenon, LeftType DEF TypeOK
  <2>3. dirs' \in [Workspace -> SUBSET Dir] /\ disk' \in [Workspace -> Tree]
    BY Zenon, <1>25, <2>2 DEF DropUnlinkFails, TypeOK
  <2> QED
    BY Zenon, <1>25, <2>1, <2>3
       DEF DropUnlinkFails, StillLinked, Goto, memVars, odbVars, reqVars,
           history, TypeOK, Label
<1> QED
  BY Zenon, <1>1, <1>2, <1>3, <1>4, <1>5, <1>6, <1>7, <1>8, <1>9, <1>10, <1>11,
     <1>12, <1>13, <1>14, <1>15, <1>16, <1>17, <1>18, <1>19, <1>20, <1>21,
     <1>22, <1>23, <1>24, <1>25
     DEF Next, CreateStep, WriteStep, CommitStep, DropStep, Inspect

\* No action lets a uuid come back.
LEMMA NameStep ==
  ASSUME TypeOK, NameInv, [Next]_vars
  PROVE  NameInv'
<1>1. ASSUME NEW c \in Client, NEW w \in Workspace, NEW b \in 0..Len(odb),
            CreateProject(c, w, b)
     PROVE  NameInv'
  BY <1>1 DEF CreateProject, Project, BaseTree, Goto, DirsFor, odbVars,
         history, countVars, NameInv, Known, Writing, TypeOK, Label
<1>2. ASSUME NEW c \in Client, NEW w \in Workspace, NEW b \in 0..Len(odb),
            NEW left \in [Path -> Value],
            CreateFails(c, w, b, left)
     PROVE  NameInv'
  BY Zenon, <1>2 DEF CreateFails, Project, BaseTree, DirsFor, odbVars, reqVars,
         history, NameInv, Known, Writing
<1>3. ASSUME NEW c \in Client, CreateInsert(c)
     PROVE  NameInv'
  BY <1>3 DEF CreateInsert, Goto, diskVars, odbVars, reqVars, history,
         countVars, NameInv, Known, Writing, TypeOK, Label
<1>4. ASSUME NEW c \in Client, NEW w \in Workspace,
            NEW p \in Path, NEW v \in Content,
            WriteCheck(c, w, p, v)
     PROVE  NameInv'
  BY Zenon, <1>4 DEF WriteCheck, Goto, memVars, diskVars, odbVars, history,
         NameInv, Known, Writing, TypeOK, Label
<1>5. ASSUME NEW c \in Client, WriteMkdir(c)
     PROVE  NameInv'
  BY <1>5 DEF WriteMkdir, Goto, memVars, odbVars, reqVars, history,
         countVars, NameInv, Known, Writing
<1>6. ASSUME NEW c \in Client, WriteOpen(c)
     PROVE  NameInv'
  BY <1>6 DEF WriteOpen, Goto, memVars, odbVars, reqVars, history,
         countVars, NameInv, Known, Writing
<1>7. ASSUME NEW c \in Client, WriteOpenFails(c)
     PROVE  NameInv'
  BY <1>7 DEF WriteOpenFails, Goto, memVars, diskVars, odbVars, reqVars,
         history, countVars, NameInv, Known, Writing
<1>8. ASSUME NEW c \in Client, WriteFill(c)
     PROVE  NameInv'
  BY <1>8 DEF WriteFill, Goto, memVars, odbVars, reqVars, history,
         countVars, NameInv, Known, Writing
<1>9. ASSUME NEW c \in Client, WriteFillFails(c)
     PROVE  NameInv'
  BY <1>9 DEF WriteFillFails, Goto, memVars, diskVars, odbVars, reqVars,
         history, NameInv, Known, Writing
<1>10. ASSUME NEW c \in Client, WriteBlob(c)
      PROVE  NameInv'
  BY <1>10 DEF WriteBlob, Goto, memVars, diskVars, reqVars, history,
         countVars, NameInv, Known, Writing
<1>11. ASSUME NEW c \in Client, WriteInsert(c)
      PROVE  NameInv'
  BY <1>11 DEF WriteInsert, Goto, diskVars, odbVars, reqVars, history,
         countVars, NameInv, Known, Writing
<1>12. ASSUME NEW c \in Client, NEW w \in Workspace,
            CommitLock(c, w)
      PROVE  NameInv'
  BY Zenon, <1>12 DEF CommitLock, Goto, diskVars, odbVars, history, countVars,
         NameInv, Known, Writing, TypeOK, Label
<1>13. ASSUME NEW c \in Client, CommitRead(c)
      PROVE  NameInv'
  BY <1>13 DEF CommitRead, Goto, memVars, diskVars, odbVars, history,
         countVars, NameInv, Known, Writing
<1>14. ASSUME NEW c \in Client, CommitRefused(c)
      PROVE  NameInv'
  BY <1>14 DEF CommitRefused, Goto, Unlock, diskVars, odbVars, reqVars,
         history, countVars, NameInv, Known, Writing
<1>15. ASSUME NEW c \in Client, CommitObject(c)
      PROVE  NameInv'
  <2>1. /\ UNCHANGED <<up, used, live, dropped, old, cws>>
        /\ pc[c] = "commit" /\ pc' = [pc EXCEPT ![c] = "advance"]
    BY Zenon, <1>15 DEF CommitObject, Goto, memVars, history
  <2>2. cws[c] \in Known /\ Known' = Known
    BY Zenon, <2>1 DEF NameInv, Known
  <2>3. \A i \in 1..Len(odb') : odb'[i].ws \in Known
    BY <1>15, <2>2, OdbGrows DEF NameInv
  <2> QED
    BY Zenon, <2>1, <2>2, <2>3 DEF NameInv, Writing, TypeOK
<1>16. ASSUME NEW c \in Client, CommitAdvance(c)
      PROVE  NameInv'
  BY <1>16 DEF CommitAdvance, Goto, Unlock, diskVars, odbVars, reqVars,
         history, countVars, NameInv, Known, Writing
<1>17. ASSUME NEW c \in Client, NEW w \in Workspace,
            DropBegin(c, w)
      PROVE  NameInv'
  BY Zenon, <1>17 DEF DropBegin, Goto, memVars, diskVars, odbVars, history,
         NameInv, Known, Writing, TypeOK, Label
<1>18. ASSUME NEW c \in Client, DropForget(c)
      PROVE  NameInv'
  BY <1>18 DEF DropForget, Goto, diskVars, odbVars, reqVars, countVars,
         NameInv, Known, Writing
<1>19. ASSUME NEW c \in Client, DropUnlink(c)
      PROVE  NameInv'
  BY <1>19 DEF DropUnlink, Goto, StillLinked, memVars, odbVars, reqVars,
         history, countVars, NameInv, Known, Writing
<1>20. ASSUME NEW c \in Client, DropRmdir(c)
      PROVE  NameInv'
  BY <1>20 DEF DropRmdir, Goto, memVars, odbVars, reqVars, history,
         countVars, NameInv, Known, Writing
<1>21. ASSUME Crash
      PROVE  NameInv'
  BY Zenon, <1>21 DEF Crash, diskVars, odbVars, reqVars, NameInv, Known, Writing,
         TypeOK, Label
<1>22. ASSUME Start
      PROVE  NameInv'
  BY Zenon, <1>22 DEF Start, odbVars, reqVars, NameInv, Known,
         Writing
<1>23. CASE UNCHANGED vars
  BY Zenon, <1>23 DEF vars, memVars, diskVars, odbVars, reqVars, history,
         countVars, NameInv, Known, Writing
<1>24. ASSUME NEW c \in Client, CommitFails(c)
      PROVE  NameInv'
  BY <1>24 DEF CommitFails, Goto, Unlock, diskVars, odbVars, reqVars,
         history, NameInv, Known, Writing
<1>25. ASSUME NEW c \in Client, NEW kept \in SUBSET (SubDir \cup Path),
            DropUnlinkFails(c, kept)
      PROVE  NameInv'
  BY <1>25 DEF DropUnlinkFails, Goto, memVars, odbVars, reqVars,
         history, NameInv, Known, Writing
<1> QED
  BY Zenon, <1>1, <1>2, <1>3, <1>4, <1>5, <1>6, <1>7, <1>8, <1>9, <1>10, <1>11,
     <1>12, <1>13, <1>14, <1>15, <1>16, <1>17, <1>18, <1>19, <1>20, <1>21,
     <1>22, <1>23, <1>24, <1>25
     DEF Next, CreateStep, WriteStep, CommitStep, DropStep, Inspect

\* A lock that is held is given to nobody else.
LEMMA LockStep ==
  ASSUME TypeOK, LockInv, [Next]_vars
  PROVE  LockInv'
<1>1. ASSUME NEW c \in Client, NEW w \in Workspace, NEW b \in 0..Len(odb),
            CreateProject(c, w, b)
     PROVE  LockInv'
  BY <1>1 DEF CreateProject, Project, BaseTree, Goto, DirsFor, odbVars,
         history, countVars, LockInv, Committing
<1>2. ASSUME NEW c \in Client, NEW w \in Workspace, NEW b \in 0..Len(odb),
            NEW left \in [Path -> Value],
            CreateFails(c, w, b, left)
     PROVE  LockInv'
  BY Zenon, <1>2 DEF CreateFails, Project, BaseTree, DirsFor, odbVars, reqVars,
         history, LockInv, Committing
<1>3. ASSUME NEW c \in Client, CreateInsert(c)
     PROVE  LockInv'
  BY <1>3 DEF CreateInsert, Goto, diskVars, odbVars, reqVars, history,
         countVars, LockInv, Committing
<1>4. ASSUME NEW c \in Client, NEW w \in Workspace,
            NEW p \in Path, NEW v \in Content,
            WriteCheck(c, w, p, v)
     PROVE  LockInv'
  BY <1>4 DEF WriteCheck, Goto, memVars, diskVars, odbVars, history,
         LockInv, Committing
<1>5. ASSUME NEW c \in Client, WriteMkdir(c)
     PROVE  LockInv'
  BY <1>5 DEF WriteMkdir, Goto, memVars, odbVars, reqVars, history,
         countVars, LockInv, Committing
<1>6. ASSUME NEW c \in Client, WriteOpen(c)
     PROVE  LockInv'
  BY <1>6 DEF WriteOpen, Goto, memVars, odbVars, reqVars, history,
         countVars, LockInv, Committing
<1>7. ASSUME NEW c \in Client, WriteOpenFails(c)
     PROVE  LockInv'
  BY <1>7 DEF WriteOpenFails, Goto, memVars, diskVars, odbVars, reqVars,
         history, countVars, LockInv, Committing
<1>8. ASSUME NEW c \in Client, WriteFill(c)
     PROVE  LockInv'
  BY <1>8 DEF WriteFill, Goto, memVars, odbVars, reqVars, history,
         countVars, LockInv, Committing
<1>9. ASSUME NEW c \in Client, WriteFillFails(c)
     PROVE  LockInv'
  BY <1>9 DEF WriteFillFails, Goto, memVars, diskVars, odbVars, reqVars,
         history, LockInv, Committing
<1>10. ASSUME NEW c \in Client, WriteBlob(c)
      PROVE  LockInv'
  BY <1>10 DEF WriteBlob, Goto, memVars, diskVars, reqVars, history,
         countVars, LockInv, Committing
<1>11. ASSUME NEW c \in Client, WriteInsert(c)
      PROVE  LockInv'
  BY <1>11 DEF WriteInsert, Goto, diskVars, odbVars, reqVars, history,
         countVars, LockInv, Committing
<1>12. ASSUME NEW c \in Client, NEW w \in Workspace,
            CommitLock(c, w)
      PROVE  LockInv'
  BY Zenon, <1>12, ClientAssumption
     DEF CommitLock, Goto, diskVars, odbVars, history, countVars, LockInv,
         Committing, TypeOK
<1>13. ASSUME NEW c \in Client, CommitRead(c)
      PROVE  LockInv'
  BY <1>13 DEF CommitRead, Goto, memVars, diskVars, odbVars, history,
         countVars, LockInv, Committing
<1>14. ASSUME NEW c \in Client, CommitRefused(c)
      PROVE  LockInv'
  BY Zenon, <1>14 DEF CommitRefused, Goto, Unlock, diskVars, odbVars, reqVars,
         history, countVars, LockInv, Committing, TypeOK
<1>15. ASSUME NEW c \in Client, CommitObject(c)
      PROVE  LockInv'
  BY <1>15 DEF CommitObject, Goto, memVars, diskVars, history, countVars,
         LockInv, Committing
<1>16. ASSUME NEW c \in Client, CommitAdvance(c)
      PROVE  LockInv'
  BY Zenon, <1>16 DEF CommitAdvance, Goto, Unlock, diskVars, odbVars, reqVars,
         history, countVars, LockInv, Committing, TypeOK
<1>17. ASSUME NEW c \in Client, NEW w \in Workspace,
            DropBegin(c, w)
      PROVE  LockInv'
  BY <1>17 DEF DropBegin, Goto, memVars, diskVars, odbVars, history,
         LockInv, Committing
<1>18. ASSUME NEW c \in Client, DropForget(c)
      PROVE  LockInv'
  BY <1>18 DEF DropForget, Goto, diskVars, odbVars, reqVars, countVars,
         LockInv, Committing
<1>19. ASSUME NEW c \in Client, DropUnlink(c)
      PROVE  LockInv'
  BY <1>19 DEF DropUnlink, Goto, StillLinked, memVars, odbVars, reqVars,
         history, countVars, LockInv, Committing
<1>20. ASSUME NEW c \in Client, DropRmdir(c)
      PROVE  LockInv'
  BY <1>20 DEF DropRmdir, Goto, memVars, odbVars, reqVars, history,
         countVars, LockInv, Committing
<1>21. ASSUME Crash
      PROVE  LockInv'
  BY Zenon, <1>21 DEF Crash, diskVars, odbVars, reqVars, LockInv, Committing
<1>22. ASSUME Start
      PROVE  LockInv'
  BY Zenon, <1>22 DEF Start, odbVars, reqVars, LockInv,
         Committing
<1>23. CASE UNCHANGED vars
  BY Zenon, <1>23 DEF vars, memVars, diskVars, odbVars, reqVars, history,
         countVars, LockInv, Committing
<1>24. ASSUME NEW c \in Client, CommitFails(c)
      PROVE  LockInv'
  BY Zenon, <1>24 DEF CommitFails, Goto, Unlock, diskVars, odbVars, reqVars,
         history, LockInv, Committing, TypeOK
<1>25. ASSUME NEW c \in Client, NEW kept \in SUBSET (SubDir \cup Path),
            DropUnlinkFails(c, kept)
      PROVE  LockInv'
  BY <1>25 DEF DropUnlinkFails, Goto, memVars, odbVars, reqVars,
         history, LockInv, Committing
<1> QED
  BY Zenon, <1>1, <1>2, <1>3, <1>4, <1>5, <1>6, <1>7, <1>8, <1>9, <1>10, <1>11,
     <1>12, <1>13, <1>14, <1>15, <1>16, <1>17, <1>18, <1>19, <1>20, <1>21,
     <1>22, <1>23, <1>24, <1>25
     DEF Next, CreateStep, WriteStep, CommitStep, DropStep, Inspect

-----------------------------------------------------------------------------
\* The store starts empty.
LEMMA InitNames == Init => TypeOK /\ NameInv /\ LockInv
<1> SUFFICES ASSUME Init
             PROVE  TypeOK /\ NameInv /\ LockInv
  OBVIOUS
<1>1. TypeOK
  <2>1. AnyWorkspace \in Workspace /\ AnyPath \in Path
    BY Zenon, NonEmptyAssumption DEF AnyWorkspace, AnyPath
  <2>2. /\ files \in [Workspace -> Tree] /\ disk \in [Workspace -> Tree]
        /\ ctree \in [Client -> Tree]
    BY Zenon, NoFilesType DEF Init
  <2>3. odb \in Seq([ws : Workspace, parent : Nat, tree : Tree])
    BY DEF Init
  <2> QED
    BY <2>1, <2>2, <2>3 DEF Init, TypeOK, Label
<1>2. NameInv /\ LockInv
  BY DEF Init, NameInv, LockInv, Writing, Committing
<1> QED
  BY Zenon, <1>1, <1>2

\* In every state the requests of any number of clients, failing writes, kills
\* and restarts lead to, the types are kept, requests are about the workspaces
\* they can be about, and a commit holds the lock of its workspace.
THEOREM NamesInvariance == Spec => [](TypeOK /\ NameInv /\ LockInv)
<1>1. TypeOK /\ NameInv /\ LockInv /\ [Next]_vars => (TypeOK /\ NameInv /\ LockInv)'
  BY Zenon, TypeStep, NameStep, LockStep
<1> QED
  BY <1>1, InitNames, PTL DEF Spec

\* TypeOK is an invariant of the store.
THEOREM TypeCorrect == Spec => []TypeOK
BY NamesInvariance, PTL

\* A workspace that drop_workspace removed is never in the map again.
THEOREM DropSafe == Spec => []DropIsFinal
<1>1. NameInv => DropIsFinal
  BY Zenon DEF NameInv, DropIsFinal
<1> QED
  BY <1>1, NamesInvariance, PTL

(***************************************************************************)
(* The commits of a workspace.  What is added says what a commit under way *)
(* knows of the workspace whose lock it holds.                             *)
(***************************************************************************)
\* Parents precede their children.  What a commit under way knows: its parent is
\* still the head, and the commit it has made is the child of the head and has
\* no child.
CommitInv ==
  /\ \A i \in 1..Len(odb) : odb[i].parent < i
  /\ \A c \in Client :
       /\ pc[c] \in {"create", "commit"} => cpar[c] <= Len(odb)
       /\ pc[c] = "commit" /\ cws[c] \in live => cpar[c] = head[cws[c]]
       /\ pc[c] = "advance" =>
            /\ cpar[c] \in 1..Len(odb)
            /\ odb[cpar[c]].ws = cws[c]
            /\ cws[c] \in live => odb[cpar[c]].parent = head[cws[c]]
            /\ \A j \in CommitsOf(cws[c]) : odb[j].parent # cpar[c]

\* The head of a live workspace has no child but one that is to replace it.
HeadInv ==
  \A w \in live :
    /\ head[w] <= Len(odb)
    /\ \A i \in CommitsOf(w) : odb[i].parent = head[w] => Advancing(i)

\* The inductive invariant of the chains.
IInv ==
  TypeOK /\ NameInv /\ LockInv /\ CommitInv /\ HeadInv /\ CommitsFormChain

\* A step that adds no commit, moves no head and leaves every commit about to
\* become a head so.
ChainsUntouched ==
  /\ UNCHANGED <<odb, live, head>>
  /\ \A i : Advancing(i) => Advancing(i)'
-----------------------------------------------------------------------------
\* Nobody but the holder of the lock moves the head of a live workspace.
LEMMA CommitStepInv ==
  ASSUME TypeOK, NameInv, LockInv, HeadInv, CommitInv, [Next]_vars
  PROVE  CommitInv'
<1>1. ASSUME NEW c \in Client, NEW w \in Workspace, NEW b \in 0..Len(odb),
            CreateProject(c, w, b)
     PROVE  CommitInv'
  BY <1>1 DEF CreateProject, Project, BaseTree, Goto, DirsFor, odbVars,
         history, countVars, CommitInv, CommitsOf, TypeOK, NameInv, Known,
         LockInv, Committing
<1>2. ASSUME NEW c \in Client, NEW w \in Workspace, NEW b \in 0..Len(odb),
            NEW left \in [Path -> Value],
            CreateFails(c, w, b, left)
     PROVE  CommitInv'
  BY Zenon, <1>2 DEF CreateFails, Project, BaseTree, DirsFor, odbVars, reqVars,
         history, CommitInv, CommitsOf
<1>3. ASSUME NEW c \in Client, CreateInsert(c)
     PROVE  CommitInv'
  BY <1>3 DEF CreateInsert, Goto, diskVars, odbVars, reqVars, history,
         countVars, CommitInv, CommitsOf, TypeOK, NameInv, Known, LockInv,
         Committing
<1>4. ASSUME NEW c \in Client, NEW w \in Workspace,
            NEW p \in Path, NEW v \in Content,
            WriteCheck(c, w, p, v)
     PROVE  CommitInv'
  BY <1>4 DEF WriteCheck, Goto, memVars, diskVars, odbVars, history,
         CommitInv, CommitsOf
<1>5. ASSUME NEW c \in Client, WriteMkdir(c)
     PROVE  CommitInv'
  BY <1>5 DEF WriteMkdir, Goto, memVars, odbVars, reqVars, history,
         countVars, CommitInv, CommitsOf
<1>6. ASSUME NEW c \in Client, WriteOpen(c)
     PROVE  CommitInv'
  BY <1>6 DEF WriteOpen, Goto, memVars, odbVars, reqVars, history,
         countVars, CommitInv, CommitsOf
<1>7. ASSUME NEW c \in Client, WriteOpenFails(c)
     PROVE  CommitInv'
  BY <1>7 DEF WriteOpenFails, Goto, memVars, diskVars, odbVars, reqVars,
         history, countVars, CommitInv, CommitsOf
<1>8. ASSUME NEW c \in Client, WriteFill(c)
     PROVE  CommitInv'
  BY <1>8 DEF WriteFill, Goto, memVars, odbVars, reqVars, history,
         countVars, CommitInv, CommitsOf
<1>9. ASSUME NEW c \in Client, WriteFillFails(c)
     PROVE  CommitInv'
  BY <1>9 DEF WriteFillFails, Goto, memVars, diskVars, odbVars, reqVars,
         history, CommitInv, CommitsOf
<1>10. ASSUME NEW c \in Client, WriteBlob(c)
      PROVE  CommitInv'
  BY <1>10 DEF WriteBlob, Goto, memVars, diskVars, reqVars, history,
         countVars, CommitInv, CommitsOf
<1>11. ASSUME NEW c \in Client, WriteInsert(c)
      PROVE  CommitInv'
  BY <1>11 DEF WriteInsert, Goto, diskVars, odbVars, reqVars, history,
         countVars, CommitInv, CommitsOf
<1>12. ASSUME NEW c \in Client, NEW w \in Workspace,
            CommitLock(c, w)
      PROVE  CommitInv'
  BY <1>12 DEF CommitLock, Goto, diskVars, odbVars, history, countVars,
         CommitInv, CommitsOf
<1>13. ASSUME NEW c \in Client, CommitRead(c)
      PROVE  CommitInv'
    BY Zenon, <1>13 DEF CommitRead, Goto, memVars, diskVars, odbVars, history, countVars,
           TypeOK, CommitInv, HeadInv, CommitsOf
<1>14. ASSUME NEW c \in Client, CommitRefused(c)
      PROVE  CommitInv'
  BY <1>14 DEF CommitRefused, Goto, Unlock, diskVars, odbVars, reqVars,
         history, countVars, CommitInv, CommitsOf
<1>15. ASSUME NEW c \in Client, CommitObject(c)
      PROVE  CommitInv'
  <2> DEFINE n == Len(odb) + 1
  <2>1. /\ UNCHANGED <<up, used, live, head, lock, dropped, old, cws>>
        /\ pc[c] = "commit" /\ pc' = [pc EXCEPT ![c] = "advance"]
        /\ cpar' = [cpar EXCEPT ![c] = n]
    BY Zenon, <1>15, OdbGrows DEF CommitObject, Goto, memVars, history
  <2>2. /\ Len(odb) \in Nat /\ Len(odb') = n
        /\ \A i \in 1..Len(odb) : odb'[i] = odb[i]
        /\ odb'[n].ws = cws[c] /\ odb'[n].parent = cpar[c]
    BY Zenon, <1>15, OdbGrows
  <2>3. \A i \in 1..Len(odb) : odb[i].parent < i /\ odb[i].parent \in Nat
    BY Zenon, CommitType DEF CommitInv
  <2>4. ASSUME NEW d \in Client
        PROVE  /\ pc'[d] \in {"create", "commit"} => cpar'[d] <= Len(odb')
               /\ pc'[d] = "commit" /\ cws[d] \in live => cpar'[d] = head[cws[d]]
    BY <2>1, <2>2 DEF CommitInv, TypeOK
  <2>5. /\ cpar'[c] \in 1..Len(odb') /\ odb'[cpar'[c]].ws = cws[c]
        /\ cws[c] \in live => odb'[cpar'[c]].parent = head[cws[c]]
        /\ \A j \in 1..Len(odb') : odb'[j].parent # cpar'[c] /\ odb'[j].parent < j
    <3>1. cpar'[c] = n /\ n \in 1..Len(odb')
      BY <2>1, <2>2 DEF TypeOK
    <3>2. cpar[c] <= Len(odb) /\ cpar[c] \in Nat
      BY Zenon, <2>1 DEF CommitInv, TypeOK
    <3>3. cws[c] \in live => cpar[c] = head[cws[c]]
      BY Zenon, <2>1 DEF CommitInv
    <3> QED
      BY <2>2, <2>3, <3>1, <3>2, <3>3
  <2>6. ASSUME NEW d \in Client, d # c, pc[d] = "advance"
        PROVE  /\ cpar[d] \in 1..Len(odb') /\ odb'[cpar[d]].ws = cws[d]
               /\ cws[d] \in live => odb'[cpar[d]].parent = head[cws[d]]
               /\ \A j \in 1..Len(odb') :
                    odb'[j].ws = cws[d] => odb'[j].parent # cpar[d]
    <3>1. cws[d] # cws[c]
      BY Zenon, <2>1, <2>6 DEF LockInv, Committing
    <3> QED
      BY <2>2, <2>6, <3>1 DEF CommitInv, CommitsOf
  <2> HIDE DEF n
  <2> QED
    BY Zenon, <2>1, <2>4, <2>5, <2>6 DEF CommitInv, CommitsOf, TypeOK
<1>16. ASSUME NEW c \in Client, CommitAdvance(c)
      PROVE  CommitInv'
  BY <1>16 DEF CommitAdvance, Goto, Unlock, diskVars, odbVars, reqVars,
         history, countVars, CommitInv, CommitsOf, TypeOK, NameInv, Known,
         LockInv, Committing
<1>17. ASSUME NEW c \in Client, NEW w \in Workspace,
            DropBegin(c, w)
      PROVE  CommitInv'
  BY <1>17 DEF DropBegin, Goto, memVars, diskVars, odbVars, history,
         CommitInv, CommitsOf
<1>18. ASSUME NEW c \in Client, DropForget(c)
      PROVE  CommitInv'
  BY <1>18 DEF DropForget, Goto, diskVars, odbVars, reqVars, countVars,
         CommitInv, CommitsOf
<1>19. ASSUME NEW c \in Client, DropUnlink(c)
      PROVE  CommitInv'
  BY <1>19 DEF DropUnlink, Goto, StillLinked, memVars, odbVars, reqVars,
         history, countVars, CommitInv, CommitsOf
<1>20. ASSUME NEW c \in Client, DropRmdir(c)
      PROVE  CommitInv'
  BY <1>20 DEF DropRmdir, Goto, memVars, odbVars, reqVars, history,
         countVars, CommitInv, CommitsOf
<1>21. ASSUME Crash
      PROVE  CommitInv'
  BY Zenon, <1>21 DEF Crash, diskVars, odbVars, reqVars, CommitInv, CommitsOf
<1>22. ASSUME Start
      PROVE  CommitInv'
  BY Zenon, <1>22 DEF Start, odbVars, reqVars, CommitInv,
         CommitsOf
<1>23. CASE UNCHANGED vars
  BY Zenon, <1>23 DEF vars, memVars, diskVars, odbVars, reqVars, history,
         countVars, CommitInv, CommitsOf
<1>24. ASSUME NEW c \in Client, CommitFails(c)
      PROVE  CommitInv'
  BY <1>24 DEF CommitFails, Goto, Unlock, diskVars, odbVars, reqVars,
         history, CommitInv, CommitsOf
<1>25. ASSUME NEW c \in Client, NEW kept \in SUBSET (SubDir \cup Path),
            DropUnlinkFails(c, kept)
      PROVE  CommitInv'
  BY <1>25 DEF DropUnlinkFails, Goto, memVars, odbVars, reqVars,
         history, CommitInv, CommitsOf
<1> QED
  BY Zenon, <1>1, <1>2, <1>3, <1>4, <1>5, <1>6, <1>7, <1>8, <1>9, <1>10, <1>11,
     <1>12, <1>13, <1>14, <1>15, <1>16, <1>17, <1>18, <1>19, <1>20, <1>21,
     <1>22, <1>23, <1>24, <1>25
     DEF Next, CreateStep, WriteStep, CommitStep, DropStep, Inspect

\* Only five actions touch a chain.
LEMMA Untouched ==
  ASSUME TypeOK, [Next]_vars
  PROVE  \/ ChainsUntouched
         \/ \E c \in Client : \/ CreateInsert(c) \/ CommitObject(c)
                             \/ CommitAdvance(c) \/ DropForget(c)
         \/ Crash
<1>1. ASSUME NEW c \in Client, NEW w \in Workspace, NEW b \in 0..Len(odb),
            CreateProject(c, w, b)
     PROVE  ChainsUntouched
  BY <1>1 DEF CreateProject, Project, BaseTree, Goto, DirsFor, odbVars,
         history, countVars, ChainsUntouched, Advancing
<1>2. ASSUME NEW c \in Client, NEW w \in Workspace, NEW b \in 0..Len(odb),
            NEW left \in [Path -> Value],
            CreateFails(c, w, b, left)
     PROVE  ChainsUntouched
  BY Zenon, <1>2 DEF CreateFails, Project, BaseTree, DirsFor, odbVars, reqVars,
         history, ChainsUntouched, Advancing
<1>3. ASSUME NEW c \in Client, NEW w \in Workspace,
            NEW p \in Path, NEW v \in Content,
            WriteCheck(c, w, p, v)
     PROVE  ChainsUntouched
  BY <1>3 DEF WriteCheck, Goto, memVars, diskVars, odbVars, history,
         ChainsUntouched, Advancing
<1>4. ASSUME NEW c \in Client, WriteMkdir(c)
     PROVE  ChainsUntouched
  BY <1>4 DEF WriteMkdir, Goto, memVars, odbVars, reqVars, history,
         countVars, ChainsUntouched, Advancing
<1>5. ASSUME NEW c \in Client, WriteOpen(c)
     PROVE  ChainsUntouched
  BY <1>5 DEF WriteOpen, Goto, memVars, odbVars, reqVars, history,
         countVars, ChainsUntouched, Advancing
<1>6. ASSUME NEW c \in Client, WriteOpenFails(c)
     PROVE  ChainsUntouched
  BY <1>6 DEF WriteOpenFails, Goto, memVars, diskVars, odbVars, reqVars,
         history, countVars, ChainsUntouched, Advancing
<1>7. ASSUME NEW c \in Client, WriteFill(c)
     PROVE  ChainsUntouched
  BY <1>7 DEF WriteFill, Goto, memVars, odbVars, reqVars, history,
         countVars, ChainsUntouched, Advancing
<1>8. ASSUME NEW c \in Client, WriteFillFails(c)
     PROVE  ChainsUntouched
  BY <1>8 DEF WriteFillFails, Goto, memVars, diskVars, odbVars, reqVars,
         history, ChainsUntouched, Advancing
<1>9. ASSUME NEW c \in Client, WriteBlob(c)
     PROVE  ChainsUntouched
  BY <1>9 DEF WriteBlob, Goto, memVars, diskVars, reqVars, history,
         countVars, ChainsUntouched, Advancing
<1>10. ASSUME NEW c \in Client, WriteInsert(c)
      PROVE  ChainsUntouched
  BY <1>10 DEF WriteInsert, Goto, diskVars, odbVars, reqVars, history,
         countVars, ChainsUntouched, Advancing
<1>11. ASSUME NEW c \in Client, NEW w \in Workspace,
            CommitLock(c, w)
      PROVE  ChainsUntouched
  BY <1>11 DEF CommitLock, Goto, diskVars, odbVars, history, countVars,
         ChainsUntouched, Advancing
<1>12. ASSUME NEW c \in Client, CommitRead(c)
      PROVE  ChainsUntouched
  BY <1>12 DEF CommitRead, Goto, memVars, diskVars, odbVars, history,
         countVars, ChainsUntouched, Advancing
<1>13. ASSUME NEW c \in Client, CommitRefused(c)
      PROVE  ChainsUntouched
  BY <1>13 DEF CommitRefused, Goto, Unlock, diskVars, odbVars, reqVars,
         history, countVars, ChainsUntouched, Advancing
<1>14. ASSUME NEW c \in Client, NEW w \in Workspace,
            DropBegin(c, w)
      PROVE  ChainsUntouched
  BY <1>14 DEF DropBegin, Goto, memVars, diskVars, odbVars, history,
         ChainsUntouched, Advancing
<1>15. ASSUME NEW c \in Client, DropUnlink(c)
      PROVE  ChainsUntouched
  BY <1>15 DEF DropUnlink, Goto, StillLinked, memVars, odbVars, reqVars,
         history, countVars, ChainsUntouched, Advancing
<1>16. ASSUME NEW c \in Client, DropRmdir(c)
      PROVE  ChainsUntouched
  BY <1>16 DEF DropRmdir, Goto, memVars, odbVars, reqVars, history,
         countVars, ChainsUntouched, Advancing
<1>17. ASSUME Start
      PROVE  ChainsUntouched
  BY Zenon, <1>17 DEF Start, odbVars, reqVars, ChainsUntouched,
         Advancing
<1>18. CASE UNCHANGED vars
  BY Zenon, <1>18 DEF vars, memVars, diskVars, odbVars, reqVars, history,
         countVars, ChainsUntouched, Advancing
<1>19. ASSUME NEW c \in Client, CommitFails(c)
      PROVE  ChainsUntouched
  BY <1>19 DEF CommitFails, Goto, Unlock, diskVars, odbVars, reqVars,
         history, ChainsUntouched, Advancing
<1>20. ASSUME NEW c \in Client, NEW kept \in SUBSET (SubDir \cup Path),
            DropUnlinkFails(c, kept)
      PROVE  ChainsUntouched
  BY <1>20 DEF DropUnlinkFails, Goto, memVars, odbVars, reqVars,
         history, ChainsUntouched, Advancing
<1> QED
  BY Zenon, <1>1, <1>2, <1>3, <1>4, <1>5, <1>6, <1>7, <1>8, <1>9, <1>10, <1>11,
     <1>12, <1>13, <1>14, <1>15, <1>16, <1>17, <1>18, <1>19, <1>20
     DEF Next, CreateStep, WriteStep, CommitStep, DropStep, Inspect

\* The head of a live workspace stays childless.
LEMMA HeadStep ==
  ASSUME TypeOK, NameInv, LockInv, CommitInv, HeadInv, [Next]_vars
  PROVE  HeadInv'
<1>1. CASE ChainsUntouched
  BY Zenon, <1>1 DEF ChainsUntouched, HeadInv, CommitsOf
<1>2. ASSUME NEW c \in Client, CreateInsert(c)
     PROVE  HeadInv'
  <2>1. /\ UNCHANGED <<odb, cpar>> /\ live' = live \cup {cws[c]}
        /\ \A w \in live : w # cws[c] /\ head'[w] = head[w]
        /\ \A d \in Client : pc[d] = "advance" => pc'[d] = "advance"
    BY <1>2 DEF CreateInsert, Goto, odbVars, reqVars, TypeOK, NameInv, Known
  <2>2. CommitsOf(cws[c]) = {}
    BY Zenon, <1>2 DEF CreateInsert, NameInv, CommitsOf
  <2>3. head'[cws[c]] <= Len(odb)
    BY Zenon, <1>2 DEF CreateInsert, CommitInv, TypeOK
  <2> QED
    BY <2>1, <2>2, <2>3 DEF HeadInv, CommitsOf, Advancing
<1>3. ASSUME NEW c \in Client, CommitObject(c)
     PROVE  HeadInv'
  BY <1>3 DEF CommitObject, Goto, memVars, diskVars, history, countVars,
         HeadInv, CommitsOf, Advancing, TypeOK, NameInv, Known, LockInv,
         CommitInv, Committing
<1>4. ASSUME NEW c \in Client, CommitAdvance(c)
     PROVE  HeadInv'
  <2>1. /\ UNCHANGED <<live, odb, cws, cpar>>
        /\ pc[c] = "advance" /\ pc' = [pc EXCEPT ![c] = "idle"]
        /\ head' = IF cws[c] \in live THEN [head EXCEPT ![cws[c]] = cpar[c]] ELSE head
    BY Zenon, <1>4 DEF CommitAdvance, Goto, odbVars, reqVars
  <2> SUFFICES ASSUME NEW w \in live
               PROVE  /\ head'[w] <= Len(odb)
                      /\ \A i \in CommitsOf(w) :
                           odb[i].parent = head'[w] => Advancing(i)'
    BY Zenon, <2>1 DEF HeadInv, CommitsOf
  <2>2. CASE w = cws[c]
    BY <2>1, <2>2 DEF CommitInv, TypeOK
  <2>3. CASE w # cws[c]
    <3>1. \A i \in CommitsOf(w) : Advancing(i) => Advancing(i)'
      BY Zenon, <2>1, <2>3 DEF Advancing, CommitInv, CommitsOf, TypeOK
    <3> QED
      BY Zenon, <2>1, <2>3, <3>1 DEF HeadInv, TypeOK
  <2> QED
    BY Zenon, <2>2, <2>3
<1>5. ASSUME NEW c \in Client, DropForget(c)
     PROVE  HeadInv'
  <2>1. /\ UNCHANGED <<odb, cpar>> /\ live' \subseteq live
        /\ \A w \in live' : head'[w] = head[w]
        /\ \A d \in Client : pc[d] = "advance" => pc'[d] = "advance"
    BY Zenon, <1>5 DEF DropForget, Goto, odbVars, reqVars, TypeOK
  <2> QED
    BY <2>1 DEF HeadInv, CommitsOf, Advancing
<1>6. ASSUME Crash
     PROVE  HeadInv'
  BY Zenon, <1>6 DEF Crash, diskVars, odbVars, reqVars, HeadInv, CommitsOf,
         Advancing
<1> QED
  BY Zenon, <1>1, <1>2, <1>3, <1>4, <1>5, <1>6, Untouched

\* The commits of a live workspace stay a chain.
LEMMA ChainStep ==
  ASSUME TypeOK, NameInv, LockInv, CommitInv, HeadInv,
         CommitsFormChain, [Next]_vars
  PROVE  CommitsFormChain'
<1>1. CASE ChainsUntouched
  BY <1>1 DEF ChainsUntouched, CommitsFormChain, CommitsOf
<1>2. ASSUME NEW c \in Client, CreateInsert(c)
     PROVE  CommitsFormChain'
  <2>1. /\ UNCHANGED <<odb, cpar>> /\ live' = live \cup {cws[c]}
        /\ \A w \in live : w # cws[c] /\ head'[w] = head[w]
        /\ \A d \in Client : pc[d] = "advance" => pc'[d] = "advance"
    BY <1>2 DEF CreateInsert, Goto, odbVars, reqVars, TypeOK, NameInv, Known
  <2>2. CommitsOf(cws[c]) = {}
    BY Zenon, <1>2 DEF CreateInsert, NameInv, CommitsOf
  <2> QED
    BY <2>1, <2>2 DEF CommitsFormChain, CommitsOf, Advancing
<1>3. ASSUME NEW c \in Client, CommitObject(c)
     PROVE  CommitsFormChain'
  <2> DEFINE n == Len(odb) + 1
  <2>1. /\ UNCHANGED <<up, used, live, head, lock, dropped, old, cws>>
        /\ pc[c] = "commit" /\ pc' = [pc EXCEPT ![c] = "advance"]
        /\ cpar' = [cpar EXCEPT ![c] = n]
    BY Zenon, <1>3, OdbGrows DEF CommitObject, Goto, memVars, history
  <2>2. /\ Len(odb) \in Nat /\ Len(odb') = n
        /\ \A i \in 1..Len(odb) : odb'[i] = odb[i]
        /\ odb'[n].ws = cws[c] /\ odb'[n].parent = cpar[c]
    BY Zenon, <1>3, OdbGrows
  <2>3. \A i \in 1..Len(odb) : Advancing(i) => Advancing(i)'
    BY Zenon, <2>1, <2>2 DEF Advancing, TypeOK
  <2>4. \A i \in {n} : Advancing(i)'
    BY Zenon, <2>1 DEF Advancing, TypeOK
  <2> SUFFICES ASSUME NEW w \in live
               PROVE  /\ \A i, j \in CommitsOf(w)' :
                           odb'[i].parent = odb'[j].parent => i = j
                      /\ \A i \in CommitsOf(w)' :
                           \/ i = head[w] \/ Advancing(i)'
                           \/ \E j \in CommitsOf(w)' : odb'[j].parent = i
    BY Zenon, <2>1 DEF CommitsFormChain
  <2>5. CASE w # cws[c]
    <3>1. CommitsOf(w)' = CommitsOf(w)
      BY <2>2, <2>5 DEF CommitsOf
    <3> QED
      BY <2>2, <2>3, <3>1 DEF CommitsFormChain, CommitsOf
  <2>6. CASE w = cws[c]
    <3>1. CommitsOf(w)' = CommitsOf(w) \cup {n}
      BY <2>2, <2>6 DEF CommitsOf
    <3>2. odb'[n].parent = head[w]
      BY Zenon, <2>1, <2>2, <2>6 DEF CommitInv
    <3>3. \A i \in CommitsOf(w) : odb[i].parent # head[w]
      <4> SUFFICES ASSUME NEW i \in CommitsOf(w), odb[i].parent = head[w]
                   PROVE  FALSE
        OBVIOUS
      <4>1. PICK d \in Client : pc[d] = "advance" /\ cpar[d] = i
        BY Zenon DEF HeadInv, Advancing
      <4>2. cws[d] = w
        BY Zenon, <4>1 DEF CommitInv, CommitsOf
      <4> QED
        BY Zenon, <2>1, <2>6, <4>1, <4>2 DEF LockInv, Committing
    <3> HIDE DEF n
    <3>4. \A i \in CommitsOf(w) : odb'[i] = odb[i] /\ i \in 1..Len(odb)
      BY Zenon, <2>2 DEF CommitsOf
    <3>5. \A i, j \in CommitsOf(w)' : odb'[i].parent = odb'[j].parent => i = j
      BY Zenon, <3>1, <3>2, <3>3, <3>4 DEF CommitsFormChain
    <3>6. \A i \in CommitsOf(w)' : \/ i = head[w] \/ Advancing(i)'
                                   \/ \E j \in CommitsOf(w)' : odb'[j].parent = i
      BY Zenon, <2>3, <2>4, <3>1, <3>4 DEF CommitsFormChain
    <3> QED
      BY Zenon, <3>5, <3>6
  <2> QED
    BY Zenon, <2>5, <2>6
<1>4. ASSUME NEW c \in Client, CommitAdvance(c)
     PROVE  CommitsFormChain'
  <2>1. /\ UNCHANGED <<live, odb, cws, cpar>>
        /\ pc[c] = "advance" /\ pc' = [pc EXCEPT ![c] = "idle"]
        /\ head' = IF cws[c] \in live THEN [head EXCEPT ![cws[c]] = cpar[c]] ELSE head
    BY Zenon, <1>4 DEF CommitAdvance, Goto, odbVars, reqVars
  <2> SUFFICES ASSUME NEW w \in live, NEW i \in CommitsOf(w)
               PROVE  \/ i = head'[w] \/ Advancing(i)'
                      \/ \E j \in CommitsOf(w) : odb[j].parent = i
    BY <2>1 DEF CommitsFormChain, CommitsOf
  <2>2. CASE i = head[w] /\ head'[w] # head[w]
    <3>1. w = cws[c] /\ cpar[c] \in CommitsOf(w) /\ odb[cpar[c]].parent = i
      BY Zenon, <2>1, <2>2 DEF CommitInv, CommitsOf, TypeOK
    <3> QED
      BY Zenon, <3>1
  <2>3. ASSUME NEW d \in Client, pc[d] = "advance", cpar[d] = i
        PROVE  i = head'[w] \/ Advancing(i)'
    <3>1. CASE d = c
      BY <2>1, <2>3, <3>1 DEF CommitInv, CommitsOf, TypeOK
    <3>2. CASE d # c
      BY Zenon, <2>1, <2>3, <3>2 DEF Advancing, TypeOK
    <3> QED
      BY Zenon, <3>1, <3>2
  <2> QED
    BY Zenon, <2>2, <2>3 DEF CommitsFormChain, Advancing
<1>5. ASSUME NEW c \in Client, DropForget(c)
     PROVE  CommitsFormChain'
  <2>1. /\ UNCHANGED <<odb, cpar>> /\ live' \subseteq live
        /\ \A w \in live' : head'[w] = head[w]
        /\ \A d \in Client : pc[d] = "advance" => pc'[d] = "advance"
    BY Zenon, <1>5 DEF DropForget, Goto, odbVars, reqVars, TypeOK
  <2> QED
    BY <2>1 DEF CommitsFormChain, CommitsOf, Advancing
<1>6. ASSUME Crash
     PROVE  CommitsFormChain'
  BY Zenon, <1>6 DEF Crash, diskVars, odbVars, reqVars, CommitsFormChain,
         CommitsOf, Advancing
<1> QED
  BY Zenon, <1>1, <1>2, <1>3, <1>4, <1>5, <1>6, Untouched

-----------------------------------------------------------------------------
\* The inductive invariant holds in every reachable state.
THEOREM Invariance == Spec => []IInv
<1>1. Init => CommitInv /\ HeadInv /\ CommitsFormChain
  BY DEF Init, CommitInv, HeadInv, CommitsFormChain
<1>2. IInv /\ [Next]_vars /\ (TypeOK /\ NameInv /\ LockInv)' => IInv'
  BY Zenon, CommitStepInv, HeadStep, ChainStep DEF IInv
<1>3. (TypeOK /\ NameInv /\ LockInv) /\ (CommitInv /\ HeadInv /\ CommitsFormChain) <=> IInv
  BY Zenon DEF IInv
<1> QED
  BY <1>1, <1>2, <1>3, InitNames, NamesInvariance, PTL DEF Spec

\* No concurrent commit is lost from the chain of a live workspace: commit()
\* holds the workspace's entry of commit_locks from reading the head to
\* advancing it.
THEOREM ChainSafe == Spec => []CommitsFormChain
<1>1. IInv => CommitsFormChain
  BY Zenon DEF IInv
<1> QED
  BY <1>1, Invariance, PTL

(***************************************************************************)
(* Blobs and the projection.                                               *)
(***************************************************************************)
\* Blobs precede what names them.
BlobInv ==
  /\ NoDanglingOids
  /\ \A c \in Client :
       /\ pc[c] = "insert" => cval[c] \in blobs
       /\ pc[c] \in {"create", "commit"} =>
            \A p \in Path : ctree[c][p] \in blobs \cup {None}

\* The projection is ahead of the map.
DiskInv ==
  /\ MapNeverAheadOfDisk
  /\ OnlyWarnedOutlive
  /\ \A c \in Client :
       /\ pc[c] = "create" => disk[cws[c]] = ctree[c]
       /\ pc[c] \in {"fill", "blob", "insert"} /\ cws[c] \in live =>
            disk[cws[c]][cpath[c]] # None

-----------------------------------------------------------------------------
\* What is named has been stored.
LEMMA BlobStep ==
  ASSUME TypeOK, NameInv, CommitInv, BlobInv, [Next]_vars
  PROVE  BlobInv'
<1>1. ASSUME NEW c \in Client, NEW w \in Workspace, NEW b \in 0..Len(odb),
            CreateProject(c, w, b)
     PROVE  BlobInv'
  BY <1>1 DEF CreateProject, Project, BaseTree, Goto, DirsFor, odbVars,
         history, countVars, BlobInv, NoDanglingOids, TypeOK, NameInv, Tree,
         NoFiles
<1>2. ASSUME NEW c \in Client, NEW w \in Workspace, NEW b \in 0..Len(odb),
            NEW left \in [Path -> Value],
            CreateFails(c, w, b, left)
     PROVE  BlobInv'
  BY Zenon, <1>2 DEF CreateFails, Project, BaseTree, DirsFor, odbVars, reqVars,
         history, BlobInv, NoDanglingOids
<1>3. ASSUME NEW c \in Client, CreateInsert(c)
     PROVE  BlobInv'
  BY <1>3 DEF CreateInsert, Goto, diskVars, odbVars, reqVars, history,
         countVars, BlobInv, NoDanglingOids, TypeOK, NameInv, Tree, NoFiles
<1>4. ASSUME NEW c \in Client, NEW w \in Workspace,
            NEW p \in Path, NEW v \in Content,
            WriteCheck(c, w, p, v)
     PROVE  BlobInv'
  <2>1. NoDanglingOids'
    BY Zenon, <1>4 DEF WriteCheck, memVars, odbVars, BlobInv, NoDanglingOids
  <2>2. /\ pc' = [pc EXCEPT ![c] = "mkdir"] /\ cval' = [cval EXCEPT ![c] = v]
        /\ ctree' = ctree /\ blobs' = blobs
    BY Zenon, <1>4 DEF WriteCheck, Goto, odbVars
  <2>3. ASSUME NEW d \in Client
        PROVE  pc'[d] = "mkdir" \/ (pc'[d] = pc[d] /\ cval'[d] = cval[d])
    <3>1. DOMAIN pc = Client /\ DOMAIN cval = Client
      BY Zenon DEF TypeOK
    <3> QED BY Zenon, <2>2, <3>1
  <2>4. ASSUME NEW d \in Client
        PROVE  /\ pc'[d] = "insert" => cval'[d] \in blobs'
               /\ pc'[d] \in {"create", "commit"} =>
                    \A q \in Path : ctree'[d][q] \in blobs' \cup {None}
    <3>1. CASE pc'[d] = "mkdir"
      BY <3>1
    <3>2. CASE pc'[d] = pc[d] /\ cval'[d] = cval[d]
      <4>1. /\ pc[d] = "insert" => cval[d] \in blobs
            /\ pc[d] \in {"create", "commit"} =>
                 \A q \in Path : ctree[d][q] \in blobs \cup {None}
        BY Zenon DEF BlobInv
      <4>2. ctree'[d] = ctree[d] /\ blobs' = blobs
        BY Zenon, <2>2
      <4>3. pc'[d] = "insert" => cval'[d] \in blobs'
        BY Zenon, <3>2, <4>1, <4>2
      <4>4. pc'[d] \in {"create", "commit"} =>
              \A q \in Path : ctree'[d][q] \in blobs' \cup {None}
        BY SMT, <3>2, <4>1, <4>2
      <4> QED BY Zenon, <4>3, <4>4
    <3> QED BY Zenon, <2>3, <3>1, <3>2
  <2> QED BY Zenon, <2>1, <2>4 DEF BlobInv
<1>5. ASSUME NEW c \in Client, WriteMkdir(c)
     PROVE  BlobInv'
  BY <1>5 DEF WriteMkdir, Goto, memVars, odbVars, reqVars, history,
         countVars, BlobInv, NoDanglingOids
<1>6. ASSUME NEW c \in Client, WriteOpen(c)
     PROVE  BlobInv'
  BY <1>6 DEF WriteOpen, Goto, memVars, odbVars, reqVars, history,
         countVars, BlobInv, NoDanglingOids
<1>7. ASSUME NEW c \in Client, WriteOpenFails(c)
     PROVE  BlobInv'
  BY <1>7 DEF WriteOpenFails, Goto, memVars, diskVars, odbVars, reqVars,
         history, countVars, BlobInv, NoDanglingOids
<1>8. ASSUME NEW c \in Client, WriteFill(c)
     PROVE  BlobInv'
  BY <1>8 DEF WriteFill, Goto, memVars, odbVars, reqVars, history,
         countVars, BlobInv, NoDanglingOids
<1>9. ASSUME NEW c \in Client, WriteFillFails(c)
     PROVE  BlobInv'
  BY <1>9 DEF WriteFillFails, Goto, memVars, diskVars, odbVars, reqVars,
         history, BlobInv, NoDanglingOids
<1>10. ASSUME NEW c \in Client, WriteBlob(c)
      PROVE  BlobInv'
  BY <1>10 DEF WriteBlob, Goto, memVars, diskVars, reqVars, history,
         countVars, BlobInv, NoDanglingOids
<1>11. ASSUME NEW c \in Client, WriteInsert(c)
      PROVE  BlobInv'
  BY <1>11 DEF WriteInsert, Goto, diskVars, odbVars, reqVars, history,
         countVars, BlobInv, NoDanglingOids
<1>12. ASSUME NEW c \in Client, NEW w \in Workspace,
            CommitLock(c, w)
      PROVE  BlobInv'
  BY <1>12 DEF CommitLock, Goto, diskVars, odbVars, history, countVars,
         BlobInv, NoDanglingOids
<1>13. ASSUME NEW c \in Client, CommitRead(c)
      PROVE  BlobInv'
  BY <1>13 DEF CommitRead, Goto, memVars, diskVars, odbVars, history,
         countVars, BlobInv, NoDanglingOids, TypeOK, NameInv, Tree, NoFiles
<1>14. ASSUME NEW c \in Client, CommitRefused(c)
      PROVE  BlobInv'
  BY <1>14 DEF CommitRefused, Goto, Unlock, diskVars, odbVars, reqVars,
         history, countVars, BlobInv, NoDanglingOids
<1>15. ASSUME NEW c \in Client, CommitObject(c)
      PROVE  BlobInv'
  <2>1. /\ UNCHANGED <<live, files, blobs, cval, ctree>>
        /\ pc[c] = "commit" /\ pc' = [pc EXCEPT ![c] = "advance"]
    BY Zenon, <1>15 DEF CommitObject, Goto, memVars
  <2>2. /\ Len(odb) \in Nat /\ Len(odb') = Len(odb) + 1
        /\ \A i \in 1..Len(odb) : odb'[i] = odb[i]
        /\ odb'[Len(odb) + 1].parent = cpar[c]
        /\ odb'[Len(odb) + 1].tree = ctree[c]
    BY Zenon, <1>15, OdbGrows
  <2>3. ASSUME NEW i \in 1..Len(odb')
        PROVE  /\ odb'[i].parent < i
               /\ \A p \in Path : odb'[i].tree[p] \in blobs \cup {None}
    <3>1. CASE i \in 1..Len(odb)
      BY Zenon, <2>2, <3>1 DEF BlobInv, NoDanglingOids
    <3>2. CASE i = Len(odb) + 1
      <4>1. cpar[c] <= Len(odb) /\ cpar[c] \in Nat
        BY Zenon, <2>1 DEF CommitInv, TypeOK
      <4>2. \A p \in Path : ctree[c][p] \in blobs \cup {None}
        BY Zenon, <2>1 DEF BlobInv
      <4> QED
        BY <2>2, <3>2, <4>1, <4>2
    <3> QED
      BY <2>2, <3>1, <3>2
  <2> QED
    BY Zenon, <2>1, <2>3 DEF BlobInv, NoDanglingOids, TypeOK
<1>16. ASSUME NEW c \in Client, CommitAdvance(c)
      PROVE  BlobInv'
  BY <1>16 DEF CommitAdvance, Goto, Unlock, diskVars, odbVars, reqVars,
         history, countVars, BlobInv, NoDanglingOids
<1>17. ASSUME NEW c \in Client, NEW w \in Workspace,
            DropBegin(c, w)
      PROVE  BlobInv'
  BY <1>17 DEF DropBegin, Goto, memVars, diskVars, odbVars, history,
         BlobInv, NoDanglingOids
<1>18. ASSUME NEW c \in Client, DropForget(c)
      PROVE  BlobInv'
  BY <1>18 DEF DropForget, Goto, diskVars, odbVars, reqVars, countVars,
         BlobInv, NoDanglingOids
<1>19. ASSUME NEW c \in Client, DropUnlink(c)
      PROVE  BlobInv'
  BY <1>19 DEF DropUnlink, Goto, StillLinked, memVars, odbVars, reqVars,
         history, countVars, BlobInv, NoDanglingOids
<1>20. ASSUME NEW c \in Client, DropRmdir(c)
      PROVE  BlobInv'
  BY <1>20 DEF DropRmdir, Goto, memVars, odbVars, reqVars, history,
         countVars, BlobInv, NoDanglingOids
<1>21. ASSUME Crash
      PROVE  BlobInv'
  BY Zenon, <1>21 DEF Crash, diskVars, odbVars, reqVars, BlobInv, NoDanglingOids
<1>22. ASSUME Start
      PROVE  BlobInv'
  BY Zenon, <1>22 DEF Start, odbVars, reqVars, BlobInv,
         NoDanglingOids
<1>23. CASE UNCHANGED vars
  BY Zenon, <1>23 DEF vars, memVars, diskVars, odbVars, reqVars, history,
         countVars, BlobInv, NoDanglingOids
<1>24. ASSUME NEW c \in Client, CommitFails(c)
      PROVE  BlobInv'
  BY <1>24 DEF CommitFails, Goto, Unlock, diskVars, odbVars, reqVars,
         history, BlobInv, NoDanglingOids
<1>25. ASSUME NEW c \in Client, NEW kept \in SUBSET (SubDir \cup Path),
            DropUnlinkFails(c, kept)
      PROVE  BlobInv'
  BY <1>25 DEF DropUnlinkFails, Goto, memVars, odbVars, reqVars,
         history, BlobInv, NoDanglingOids
<1> QED
  BY Zenon, <1>1, <1>2, <1>3, <1>4, <1>5, <1>6, <1>7, <1>8, <1>9, <1>10, <1>11,
     <1>12, <1>13, <1>14, <1>15, <1>16, <1>17, <1>18, <1>19, <1>20, <1>21,
     <1>22, <1>23, <1>24, <1>25
     DEF Next, CreateStep, WriteStep, CommitStep, DropStep, Inspect

\* The projection stays ahead of the map.
LEMMA DiskStep ==
  ASSUME TypeOK, NameInv, DiskInv, [Next]_vars
  PROVE  DiskInv'
<1>1. ASSUME NEW c \in Client, NEW w \in Workspace, NEW b \in 0..Len(odb),
            CreateProject(c, w, b)
     PROVE  DiskInv'
  BY <1>1 DEF CreateProject, Project, BaseTree, Goto, DirsFor, odbVars,
         history, countVars, DiskInv, MapNeverAheadOfDisk, OnlyWarnedOutlive,
         TypeOK, NameInv, Known, Writing, Tree, NoFiles, Value
<1>2. ASSUME NEW c \in Client, NEW w \in Workspace, NEW b \in 0..Len(odb),
            NEW left \in [Path -> Value],
            CreateFails(c, w, b, left)
     PROVE  DiskInv'
  BY <1>2 DEF CreateFails, Project, BaseTree, DirsFor, odbVars, reqVars,
         history, DiskInv, MapNeverAheadOfDisk, OnlyWarnedOutlive, TypeOK,
         NameInv, Known, Writing, Tree, NoFiles, Value
<1>3. ASSUME NEW c \in Client, CreateInsert(c)
     PROVE  DiskInv'
  BY <1>3 DEF CreateInsert, Goto, diskVars, odbVars, reqVars, history,
         countVars, DiskInv, MapNeverAheadOfDisk, OnlyWarnedOutlive, TypeOK,
         NameInv, Known, Writing, Tree, NoFiles, Value
<1>4. ASSUME NEW c \in Client, NEW w \in Workspace,
            NEW p \in Path, NEW v \in Content,
            WriteCheck(c, w, p, v)
     PROVE  DiskInv'
  BY <1>4 DEF WriteCheck, Goto, memVars, diskVars, odbVars, history,
         DiskInv, MapNeverAheadOfDisk, OnlyWarnedOutlive
<1>5. ASSUME NEW c \in Client, WriteMkdir(c)
     PROVE  DiskInv'
  BY <1>5 DEF WriteMkdir, Goto, memVars, odbVars, reqVars, history,
         countVars, DiskInv, MapNeverAheadOfDisk, OnlyWarnedOutlive, TypeOK,
         NameInv, Known, Writing, Tree, NoFiles, Value
<1>6. ASSUME NEW c \in Client, WriteOpen(c)
     PROVE  DiskInv'
  BY <1>6, ValueAssumption, DirAssumption
     DEF WriteOpen, Goto, memVars, odbVars, reqVars, history, countVars,
         DiskInv, MapNeverAheadOfDisk, OnlyWarnedOutlive, TypeOK, NameInv,
         Known, Writing, Tree, NoFiles, Value
<1>7. ASSUME NEW c \in Client, WriteOpenFails(c)
     PROVE  DiskInv'
  BY <1>7 DEF WriteOpenFails, Goto, memVars, diskVars, odbVars, reqVars,
         history, countVars, DiskInv, MapNeverAheadOfDisk, OnlyWarnedOutlive
<1>8. ASSUME NEW c \in Client, WriteFill(c)
     PROVE  DiskInv'
  BY <1>8, ValueAssumption, DirAssumption
     DEF WriteFill, Goto, memVars, odbVars, reqVars, history, countVars,
         DiskInv, MapNeverAheadOfDisk, OnlyWarnedOutlive, TypeOK, NameInv,
         Known, Writing, Tree, NoFiles, Value
<1>9. ASSUME NEW c \in Client, WriteFillFails(c)
     PROVE  DiskInv'
  BY <1>9 DEF WriteFillFails, Goto, memVars, diskVars, odbVars, reqVars,
         history, DiskInv, MapNeverAheadOfDisk, OnlyWarnedOutlive
<1>10. ASSUME NEW c \in Client, WriteBlob(c)
      PROVE  DiskInv'
  BY <1>10 DEF WriteBlob, Goto, memVars, diskVars, reqVars, history,
         countVars, DiskInv, MapNeverAheadOfDisk, OnlyWarnedOutlive
<1>11. ASSUME NEW c \in Client, WriteInsert(c)
      PROVE  DiskInv'
  BY <1>11 DEF WriteInsert, Goto, diskVars, odbVars, reqVars, history,
         countVars, DiskInv, MapNeverAheadOfDisk, OnlyWarnedOutlive
<1>12. ASSUME NEW c \in Client, NEW w \in Workspace,
            CommitLock(c, w)
      PROVE  DiskInv'
  BY <1>12 DEF CommitLock, Goto, diskVars, odbVars, history, countVars,
         DiskInv, MapNeverAheadOfDisk, OnlyWarnedOutlive
<1>13. ASSUME NEW c \in Client, CommitRead(c)
      PROVE  DiskInv'
  BY <1>13 DEF CommitRead, Goto, memVars, diskVars, odbVars, history,
         countVars, DiskInv, MapNeverAheadOfDisk, OnlyWarnedOutlive
<1>14. ASSUME NEW c \in Client, CommitRefused(c)
      PROVE  DiskInv'
  BY <1>14 DEF CommitRefused, Goto, Unlock, diskVars, odbVars, reqVars,
         history, countVars, DiskInv, MapNeverAheadOfDisk, OnlyWarnedOutlive
<1>15. ASSUME NEW c \in Client, CommitObject(c)
      PROVE  DiskInv'
  BY <1>15 DEF CommitObject, Goto, memVars, diskVars, history, countVars,
         DiskInv, MapNeverAheadOfDisk, OnlyWarnedOutlive
<1>16. ASSUME NEW c \in Client, CommitAdvance(c)
      PROVE  DiskInv'
  BY <1>16 DEF CommitAdvance, Goto, Unlock, diskVars, odbVars, reqVars,
         history, countVars, DiskInv, MapNeverAheadOfDisk, OnlyWarnedOutlive
<1>17. ASSUME NEW c \in Client, NEW w \in Workspace,
            DropBegin(c, w)
      PROVE  DiskInv'
  BY <1>17 DEF DropBegin, Goto, memVars, diskVars, odbVars, history,
         DiskInv, MapNeverAheadOfDisk, OnlyWarnedOutlive
<1>18. ASSUME NEW c \in Client, DropForget(c)
      PROVE  DiskInv'
  BY <1>18 DEF DropForget, Goto, diskVars, odbVars, reqVars, countVars,
         DiskInv, MapNeverAheadOfDisk, OnlyWarnedOutlive
<1>19. ASSUME NEW c \in Client, DropUnlink(c)
      PROVE  DiskInv'
  BY <1>19 DEF DropUnlink, Goto, StillLinked, memVars, odbVars, reqVars,
         history, countVars, DiskInv, MapNeverAheadOfDisk, OnlyWarnedOutlive,
         TypeOK, NameInv, Known, Writing, Tree, NoFiles, Value
<1>20. ASSUME NEW c \in Client, DropRmdir(c)
      PROVE  DiskInv'
  BY <1>20 DEF DropRmdir, Goto, memVars, odbVars, reqVars, history,
         countVars, DiskInv, MapNeverAheadOfDisk, OnlyWarnedOutlive
<1>21. ASSUME Crash
      PROVE  DiskInv'
  BY Zenon, <1>21 DEF Crash, diskVars, odbVars, reqVars, DiskInv,
         MapNeverAheadOfDisk, OnlyWarnedOutlive
<1>22. ASSUME Start
      PROVE  DiskInv'
  <2>1. UNCHANGED <<live, old, used, pc, cws>> /\ live = {} /\ old \subseteq Workspace
    BY Zenon, <1>22 DEF Start, reqVars, NameInv, TypeOK
  <2>2. \A c \in Client : pc'[c] = "idle"
    BY Zenon, <1>22 DEF Start, NameInv
  <2> QED
    BY Zenon, <1>22, <2>1, <2>2, SweepType
       DEF DiskInv, MapNeverAheadOfDisk, OnlyWarnedOutlive
<1>23. CASE UNCHANGED vars
  BY Zenon, <1>23 DEF vars, memVars, diskVars, odbVars, reqVars, history,
         countVars, DiskInv, MapNeverAheadOfDisk, OnlyWarnedOutlive
<1>24. ASSUME NEW c \in Client, CommitFails(c)
      PROVE  DiskInv'
  BY <1>24 DEF CommitFails, Goto, Unlock, diskVars, odbVars, reqVars,
         history, DiskInv, MapNeverAheadOfDisk, OnlyWarnedOutlive
<1>25. ASSUME NEW c \in Client, NEW kept \in SUBSET (SubDir \cup Path),
            DropUnlinkFails(c, kept)
      PROVE  DiskInv'
  <2>1. PICK w \in Workspace : w = cws[c]
    BY Zenon DEF TypeOK
  <2>2. /\ UNCHANGED <<up, live, files, old, warned, cws, cpath, ctree>>
        /\ pc' = [pc EXCEPT ![c] = "idle"]
        /\ disk' = [disk EXCEPT ![w] = FilesLeft(w, kept)]
        /\ dirs' = [dirs EXCEPT ![w] = DirsLeft(w, kept)]
    BY Zenon, <1>25, <2>1 DEF DropUnlinkFails, Goto, memVars, reqVars, history
  <2>3. w \in dropped /\ w \notin live /\ old \subseteq Workspace
    BY Zenon, <1>25, <2>1 DEF DropUnlinkFails, NameInv, TypeOK
  <2>4. \A v \in Workspace : v # w => disk'[v] = disk[v] /\ dirs'[v] = dirs[v]
    BY Zenon, <2>2 DEF TypeOK
  <2>5. OnlyWarnedOutlive'
    <3>1. disk'[w] = FilesLeft(w, kept) /\ dirs'[w] = DirsLeft(w, kept)
      BY Zenon, <2>2 DEF TypeOK
    <3>2. ASSUME up, NEW v \in old, v \notin warned
          PROVE  dirs'[v] = {} /\ disk'[v] = NoFiles
      <4>1. dirs[v] = {} /\ disk[v] = NoFiles
        BY Zenon, <3>2 DEF DiskInv, OnlyWarnedOutlive
      <4>2. CASE v = w
        BY Zenon, <3>1, <4>1, <4>2, NothingLeft
      <4> QED
        BY Zenon, <2>3, <2>4, <4>1, <4>2
    <3> QED
      BY Zenon, <2>2, <3>2 DEF DiskInv, OnlyWarnedOutlive
  <2>6. MapNeverAheadOfDisk'
    <3>1. \A v \in live : v # w /\ v \in Workspace
      BY Zenon, <2>3 DEF TypeOK
    <3> QED
      BY <2>2, <2>4, <3>1 DEF DiskInv, MapNeverAheadOfDisk
  <2>7. ASSUME NEW d \in Client
        PROVE  /\ pc'[d] = "create" => disk'[cws[d]] = ctree[d]
               /\ pc'[d] \in {"fill", "blob", "insert"} /\ cws[d] \in live =>
                    disk'[cws[d]][cpath[d]] # None
    <3>1. pc'[d] = "idle" \/ pc'[d] = pc[d]
      BY Zenon, <2>2 DEF TypeOK
    <3>2. pc[d] = "create" => cws[d] # w
      BY Zenon, <2>3 DEF NameInv, Known
    <3>3. cws[d] \in Workspace /\ (cws[d] \in live => cws[d] # w)
      BY Zenon, <2>3 DEF TypeOK
    <3> QED
      BY Zenon, <2>4, <3>1, <3>2, <3>3 DEF DiskInv
  <2> QED
    BY Zenon, <2>2, <2>5, <2>6, <2>7 DEF DiskInv
<1> QED
  BY Zenon, <1>1, <1>2, <1>3, <1>4, <1>5, <1>6, <1>7, <1>8, <1>9, <1>10, <1>11,
     <1>12, <1>13, <1>14, <1>15, <1>16, <1>17, <1>18, <1>19, <1>20, <1>21,
     <1>22, <1>23, <1>24, <1>25
     DEF Next, CreateStep, WriteStep, CommitStep, DropStep, Inspect

-----------------------------------------------------------------------------
\* Blobs are stored before they are named, in every reachable state.
THEOREM BlobInvariance == Spec => []BlobInv
<1>1. Init => BlobInv
  BY DEF Init, BlobInv, NoDanglingOids
<1>2. IInv /\ BlobInv /\ [Next]_vars => BlobInv'
  BY Zenon, BlobStep DEF IInv
<1> QED
  BY <1>1, <1>2, Invariance, PTL DEF Spec

\* The projection is ahead of the map in every reachable state.
THEOREM DiskInvariance == Spec => []DiskInv
<1>1. Init => DiskInv
  BY Zenon DEF Init, DiskInv, MapNeverAheadOfDisk, OnlyWarnedOutlive
<1>2. IInv /\ DiskInv /\ [Next]_vars => DiskInv'
  BY Zenon, DiskStep DEF IInv
<1> QED
  BY <1>1, <1>2, Invariance, PTL DEF Spec

\* No map and no commit of the store ever names a blob that the object database
\* lacks: write_file, create and commit store before they name.
THEOREM OidsSafe == Spec => []NoDanglingOids
<1>1. BlobInv => NoDanglingOids
  BY Zenon DEF BlobInv
<1> QED
  BY <1>1, BlobInvariance, PTL

\* What the map of a live workspace names is in its projection.
THEOREM ProjectionSafe == Spec => []MapNeverAheadOfDisk
<1>1. DiskInv => MapNeverAheadOfDisk
  BY Zenon DEF DiskInv
<1> QED
  BY <1>1, DiskInvariance, PTL

\* While the service is up, an earlier instance's uuid is not in the map, and its
\* directory is there only if sweep_stale_workspace_dirs warned of it: no request
\* of this instance makes a swept directory again.
THEOREM SweepSafe == Spec => []OnlyWarnedOutlive
<1>1. DiskInv => OnlyWarnedOutlive
  BY Zenon DEF DiskInv
<1> QED
  BY <1>1, DiskInvariance, PTL

\* Map, object database and disk agree, for any number of clients and crashes.
THEOREM StoreSafe == Spec => []StoreConsistent
<1>1. NoDanglingOids /\ DropIsFinal /\ MapNeverAheadOfDisk /\ OnlyWarnedOutlive => StoreConsistent
  BY Zenon DEF StoreConsistent
<1> QED
  BY <1>1, OidsSafe, DropSafe, ProjectionSafe, SweepSafe, PTL
=============================================================================
