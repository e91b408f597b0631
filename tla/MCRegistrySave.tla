---------------------------- MODULE MCRegistrySave ----------------------------
(* RegistrySave with a process of two threads and a process of one.        *)
EXTENDS RegistrySave, TLC

CONSTANTS p1, p2, t1, t2, t3

MCProc   == {p1, p2}
MCThread == {t1, t2, t3}
MCProcOf == (t1 :> p1) @@ (t2 :> p1) @@ (t3 :> p2)
=============================================================================
