----------------------------- MODULE ProcessLock -----------------------------
(***************************************************************************)
(* What CONN_LOCK promises (src/shed/sql/common/sqlite.rs): "only one      *)
(* connection is in use for writes at a time inside the process".  An      *)
(* abstract process-wide lock: a task takes it only when nobody holds it,  *)
(* only its holder gives it back, and a holder does give it back.  No     *)
(* instance, connection, condition variable or executor appears here.      *)
(***************************************************************************)
CONSTANT Tasks

VARIABLE holder     \* the tasks holding the lock: {} or one task

Init == holder = {}

Lock(t) ==
    /\ holder = {}
    /\ holder' = {t}

Unlock(t) ==
    /\ holder = {t}
    /\ holder' = {}

Next == \E t \in Tasks : Lock(t) \/ Unlock(t)

\* A holder does not keep the lock for ever.  Nothing is promised to a
\* task that wants it: taking it is not fair.
Spec == Init /\ [][Next]_holder /\ \A t \in Tasks : WF_holder(Unlock(t))

=============================================================================
