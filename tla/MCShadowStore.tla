--------------------------- MODULE MCShadowStore ---------------------------
(***************************************************************************)
(* Instances of ShadowStore: two clients and two workspaces, one path in   *)
(* the root of the projection and one in a subdirectory.                   *)
(***************************************************************************)
EXTENDS ShadowStore, TLC

CONSTANTS w1, w2, c1, c2, f, g, root, sub, x

MCWorkspace1 == {w1}
MCWorkspace2 == {w1, w2}
MCClient1 == {c1}
MCClient2 == {c1, c2}
MCPath1 == {g}
MCPath == {f, g}
MCSubDir == {sub}
MCDirOf == [p \in Path |-> IF p = g THEN sub ELSE root]
MCContent == {x}
MCSymmetry == Permutations(MCClient2) \cup Permutations(MCWorkspace2)
=============================================================================
