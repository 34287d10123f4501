---------------------------- MODULE MCWriteBack ----------------------------
(***************************************************************************)
(* Instances of WriteBack: one workspace with a file in the root of the    *)
(* projection and one in a subdirectory, one client.                       *)
(***************************************************************************)
EXTENDS WriteBack

CONSTANTS w1, c1, f, g, root, sub, x, y

MCWorkspace == {w1}
MCClient == {c1}
MCPath == {f, g}
MCSubDir == {sub}
MCDirOf == [p \in Path |-> IF p = g THEN sub ELSE root]
MCContent == {x, y}

\* With the periodic pass running: two edits and a failure of the event loop, and
\* an edit against a client's write that may fail.  Without it: three edits over
\* two directories with a commit, a drop and a kill, and one edit with these when
\* the filesystem refuses the commit, the drop or the sweep.
MCHorizon ==
  {[ticks |-> TRUE, queue |-> 2, paths |-> {g}, contents |-> {x}, edits |-> 2,
    writes |-> 0, commits |-> 0, drops |-> 0, faults |-> 1, crashes |-> 0],
   [ticks |-> TRUE, queue |-> 2, paths |-> {g}, contents |-> {x}, edits |-> 1,
    writes |-> 1, commits |-> 0, drops |-> 0, faults |-> 1, crashes |-> 0],
   [ticks |-> FALSE, queue |-> 4, paths |-> {f, g}, contents |-> {x, y}, edits |-> 3,
    writes |-> 0, commits |-> 1, drops |-> 1, faults |-> 0, crashes |-> 1],
   [ticks |-> FALSE, queue |-> 4, paths |-> {g}, contents |-> {x}, edits |-> 1,
    writes |-> 0, commits |-> 1, drops |-> 1, faults |-> 1, crashes |-> 1]}
=============================================================================
