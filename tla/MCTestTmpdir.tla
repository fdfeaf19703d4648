---------------------------- MODULE MCTestTmpdir ----------------------------
(***************************************************************************)
(* TestTmpdir with two targets whose names collide and one whose name is   *)
(* its own.                                                                *)
(***************************************************************************)
EXTENDS TestTmpdir, TLC

CONSTANTS p1, p2, p3, p4, t1, t2, t3, a1, a2

MCDigest == (t1 :> a1) @@ (t2 :> a1) @@ (t3 :> a2)

Symmetry == Permutations(Proc)
=============================================================================
