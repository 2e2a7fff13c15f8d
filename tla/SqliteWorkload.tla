--------------------------- MODULE SqliteWorkload ---------------------------
(***************************************************************************)
(* SqliteConnection driven by callers that each make at most MaxCalls     *)
(* calls of acquire_sqlite_connection.                                     *)
(*                                                                         *)
(* The gate in SqliteConnectionGuard::new is not fair.  CONN_CONDVAR is a  *)
(* std::sync::Condvar: notify_one wakes an arbitrary waiter, and a woken   *)
(* waiter re-checks `allowed` under CONN_LOCK in competition with tasks    *)
(* that have just arrived, so with an endless stream of new calls one      *)
(* waiter can lose every time.  Nothing in the code bounds the number of   *)
(* overtakes, so per-task progress cannot hold for an unbounded workload.  *)
(* What the code does guarantee is that a waiter is overtaken only by a    *)
(* NEW pass of the gate: every pass ends in a Drop that reopens the gate   *)
(* and notifies one waiter.  With a finite workload that is enough.        *)
(***************************************************************************)
EXTENDS SqliteConnection

CONSTANT MaxCalls   \* calls of acquire_sqlite_connection per task

ASSUME MaxCalls \in Nat \ {0}

VARIABLE calls      \* calls[t]: acquire calls task t has made

wvars == <<vars, calls>>

WInit == Init /\ calls = [t \in Tasks |-> 0]

\* A task calls acquire while it has calls left; every other step leaves
\* the count alone.
WNext ==
    \/ \E t \in Tasks, c \in Conns :
          /\ calls[t] < MaxCalls
          /\ Acquire(t, c)
          /\ calls' = [calls EXCEPT ![t] = @ + 1]
    \/ \E t \in Tasks :
          /\ Step(t) \/ Suspend(t) \/ DropGuard(t) \/ Commit(t)
          /\ UNCHANGED calls

WSpec == WInit /\ [][WNext]_wvars /\ Fairness

-----------------------------------------------------------------------------

\* Every task that waits at the gate (CONN_CONDVAR) or at its instance's
\* slot (inner.condvar) eventually holds a guard, when the callers make
\* finitely many calls: Drop's reopen-then-notify_one and the woken
\* waiter's re-check never leave a waiter behind for good, even though
\* notify_one picks an arbitrary waiter and a new caller can barge past a
\* woken one.
WaiterServed == \A t \in Tasks : pc[t] \in {"gate", "conn"} ~> guard[t]

=============================================================================
