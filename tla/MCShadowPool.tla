---------------------------- MODULE MCShadowPool ----------------------------
(***************************************************************************)
(* Instances of ShadowPool for TLC.                                        *)
(***************************************************************************)
EXTENDS ShadowPool

CONSTANTS c1, c2, c3, t1, t2, k1, k2, k3

MCCaller2 == {c1, c2}
MCCaller3 == {c1, c2, c3}
MCCloser1 == {t1}
MCCloser2 == {t1, t2}
MCConn2 == {k1, k2}
MCConn3 == {k1, k2, k3}
=============================================================================
