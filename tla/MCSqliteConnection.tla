------------------------- MODULE MCSqliteConnection -------------------------
(***************************************************************************)
(* SqliteConnection for TLC: three tasks, so that one holds, one waits at *)
(* the gate and one at a slot; two instances, one with callbacks.  Either *)
(* every task has a thread of its own, or two tasks share one executor   *)
(* thread (a current-thread runtime beside a second one).                 *)
(***************************************************************************)
EXTENDS SqliteConnection, TLC

CONSTANTS t1, t2, t3, c1, c2, e1, e2, e3

MCTasks == {t1, t2, t3}
MCConns == {c1, c2}
MCCallbackConns == {c1}

MCOwnExecutors == {e1, e2, e3}
MCOwnHome == (t1 :> e1) @@ (t2 :> e2) @@ (t3 :> e3)

MCSharedExecutors == {e1, e2}
MCSharedHome == (t1 :> e1) @@ (t2 :> e1) @@ (t3 :> e2)

=============================================================================
