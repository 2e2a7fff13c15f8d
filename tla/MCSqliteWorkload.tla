-------------------------- MODULE MCSqliteWorkload --------------------------
(***************************************************************************)
(* SqliteWorkload for TLC: three tasks on threads of their own, two       *)
(* instances (one with callbacks) and two calls per task, so that a task  *)
(* can pass the gate again while another still waits at it.               *)
(***************************************************************************)
EXTENDS SqliteWorkload, TLC

CONSTANTS t1, t2, t3, c1, c2, e1, e2, e3

MCTasks == {t1, t2, t3}
MCConns == {c1, c2}
MCCallbackConns == {c1}
MCExecutors == {e1, e2, e3}
MCHome == (t1 :> e1) @@ (t2 :> e2) @@ (t3 :> e3)
MCMaxCalls == 2

=============================================================================
