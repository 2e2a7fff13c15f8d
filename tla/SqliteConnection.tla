-------------------------- MODULE SqliteConnection --------------------------
(***************************************************************************)
(* The connection hand-off of SqliteMultithreaded                          *)
(* (src/shed/sql/common/sqlite.rs): async tasks acquire a connection guard *)
(* (acquire_sqlite_connection, SqliteConnectionGuard::new) through two     *)
(* condition variables, the process-wide CONN_LOCK/CONN_CONDVAR gate and   *)
(* the per-instance inner.connection/inner.condvar slot, and give it back  *)
(* when the guard is dropped, possibly after a COMMIT.                     *)
(*                                                                         *)
(* Each task runs on an executor thread (Home).  A polled task keeps its   *)
(* thread until it ends an operation or suspends at an await point; the   *)
(* Condvar waits are blocking, so a task waiting at the gate or the slot   *)
(* occupies its thread.  The statements an operation runs, in source      *)
(* order, are its continuation `cont`; pc is the one running now.         *)
(*                                                                         *)
(* Each step is one critical section of the code: a wait_while predicate   *)
(* check (under its mutex) or one statement of Drop.  A task blocked in    *)
(* Condvar::wait is in gateWait / connWait; notify_one removes one waiter, *)
(* which then re-checks its predicate.  Spurious wake-ups only add         *)
(* re-checks and are left out.  Lock poisoning (a panic while a mutex is   *)
(* held) is left out.                                                      *)
(***************************************************************************)
EXTENDS Naturals, Sequences, FiniteSets

CONSTANTS
    Tasks,          \* tasks calling acquire_sqlite_connection
    Executors,      \* executor threads
    Home,           \* Home[t]: the executor thread that polls task t
    Conns,          \* SqliteMultithreaded instances, one connection each
    CallbackConns   \* the instances created with SqliteCallbacks

ASSUME CallbackConns \subseteq Conns /\ Home \in [Tasks -> Executors]

VARIABLES
    allowed,    \* the bool in CONN_LOCK: no task has passed the gate
    slot,       \* slot[c]: inner.connection of c is Some
    pc,         \* the statement each task is at
    cont,       \* the statements it runs after pc, in order
    conn,       \* the instance a task acquires or holds
    guard,      \* guard[t]: t's SqliteConnectionGuard holds the connection
    gateWait,   \* tasks blocked on CONN_CONDVAR
    connWait,   \* tasks blocked on inner.condvar of conn[t]
    running     \* running[e]: the task executor thread e is polling, if any

vars == <<allowed, slot, pc, cont, conn, guard, gateWait, connWait, running>>

PCs == {"idle", "query_start", "gate", "conn", "holding",
        "release", "release_conn", "notify_gate", "after_commit"}

\* The await points of the code: a task there may be suspended.
AwaitPoints == {"query_start", "after_commit"}

Init ==
    /\ allowed = TRUE
    /\ slot = [c \in Conns |-> TRUE]
    /\ pc = [t \in Tasks |-> "idle"]
    /\ cont = [t \in Tasks |-> <<>>]
    /\ conn \in [Tasks -> Conns]
    /\ guard = [t \in Tasks |-> FALSE]
    /\ gateWait = {}
    /\ connWait = {}
    /\ running = [e \in Executors |-> {}]

\* Condvar::notify_one: the waiter sets it may leave behind.
NotifyOne(W) == IF W = {} THEN {W} ELSE {W \ {w} : w \in W}

\* t can be polled: its thread is free or already polling it.
Runs(t) == running[Home[t]] \subseteq {t}

\* t moves to the first statement of seq and runs the rest afterwards; it
\* keeps its thread unless the operation is over.
Goto(t, seq) ==
    /\ pc' = [pc EXCEPT ![t] = Head(seq)]
    /\ cont' = [cont EXCEPT ![t] = Tail(seq)]
    /\ running' = [running EXCEPT ![Home[t]] = IF Head(seq) = "idle" THEN {} ELSE {t}]

Advance(t) == Goto(t, cont[t])

\* The statements of Drop.
DropSteps == <<"release", "release_conn", "notify_gate">>

\* Bug variant of AcquireSteps: query_start awaited after the guard is
\* built (`let guard = SqliteConnectionGuard::new(..); query_start.await?`).
AcquireSteps_query_start_last(c) ==
    IF c \in CallbackConns THEN <<"gate", "conn", "query_start", "holding">>
    ELSE <<"gate", "conn", "holding">>

\* acquire_sqlite_connection: with callbacks, query_start is awaited first,
\* then SqliteConnectionGuard::new takes the gate and the connection.
AcquireSteps(c) ==
    IF c \in CallbackConns THEN <<"query_start", "gate", "conn", "holding">>
    ELSE <<"gate", "conn", "holding">>

Acquire(t, c) ==
    /\ pc[t] = "idle"
    /\ Runs(t)
    /\ conn' = [conn EXCEPT ![t] = c]
    /\ Goto(t, AcquireSteps(c))
    /\ UNCHANGED <<allowed, slot, guard, gateWait, connWait>>

\* query_start(query_type).await? : an Err returns from the operation,
\* dropping its live locals (in the code's order there is no guard yet).
QueryStart(t) ==
    /\ pc[t] = "query_start"
    /\ Runs(t)
    /\ \E ok \in BOOLEAN :
          IF ok THEN Advance(t)
          ELSE Goto(t, IF guard[t] THEN DropSteps \o <<"idle">> ELSE <<"idle">>)
    /\ UNCHANGED <<allowed, slot, conn, guard, gateWait, connWait>>

\* A future at an await point returns Pending: the task gives up its
\* thread until it is polled again.
Suspend(t) ==
    /\ pc[t] \in AwaitPoints
    /\ running[Home[t]] = {t}
    /\ running' = [running EXCEPT ![Home[t]] = {}]
    /\ UNCHANGED <<allowed, slot, pc, cont, conn, guard, gateWait, connWait>>

\* Bug variant of Gate: the wait_while predicate lets the task through
\* without closing the gate.
Gate_leaves_open(t) ==
    /\ pc[t] = "gate"
    /\ t \notin gateWait
    /\ Runs(t)
    /\ IF allowed
       THEN /\ Advance(t)
            /\ UNCHANGED <<allowed, gateWait>>
       ELSE /\ gateWait' = gateWait \cup {t}
            /\ UNCHANGED <<allowed, pc, cont, running>>
    /\ UNCHANGED <<slot, conn, guard, connWait>>

\* CONN_CONDVAR.wait_while(CONN_LOCK.lock(), ...): the predicate takes the
\* gate (allowed := false) when it is open, else the task blocks its thread.
Gate(t) ==
    /\ pc[t] = "gate"
    /\ t \notin gateWait
    /\ Runs(t)
    /\ IF allowed
       THEN /\ allowed' = FALSE
            /\ Advance(t)
            /\ UNCHANGED gateWait
       ELSE /\ gateWait' = gateWait \cup {t}
            /\ UNCHANGED <<allowed, pc, cont, running>>
    /\ UNCHANGED <<slot, conn, guard, connWait>>

\* Bug variant of TakeConn: the connection is taken without waiting for
\* the slot to be filled.
TakeConn_no_wait(t) ==
    /\ pc[t] = "conn"
    /\ t \notin connWait
    /\ Runs(t)
    /\ slot' = [slot EXCEPT ![conn[t]] = FALSE]
    /\ guard' = [guard EXCEPT ![t] = TRUE]
    /\ Advance(t)
    /\ UNCHANGED <<allowed, conn, gateWait, connWait>>

\* inner.condvar.wait_while(inner.connection.lock(), |con| con.is_none()),
\* then connection.take().
TakeConn(t) ==
    /\ pc[t] = "conn"
    /\ t \notin connWait
    /\ Runs(t)
    /\ IF slot[conn[t]]
       THEN /\ slot' = [slot EXCEPT ![conn[t]] = FALSE]
            /\ guard' = [guard EXCEPT ![t] = TRUE]
            /\ Advance(t)
            /\ UNCHANGED connWait
       ELSE /\ connWait' = connWait \cup {t}
            /\ UNCHANGED <<slot, guard, pc, cont, running>>
    /\ UNCHANGED <<allowed, conn, gateWait>>

\* The guard goes out of scope: Drop runs, and the operation is over.
DropGuard(t) ==
    /\ pc[t] = "holding"
    /\ Runs(t)
    /\ Goto(t, DropSteps \o <<"idle">>)
    /\ UNCHANGED <<allowed, slot, conn, guard, gateWait, connWait>>

\* Bug variant of CommitSteps: after_transaction_commit awaited while the
\* guard is still alive, before it is dropped.
CommitSteps_callback_first(c) ==
    IF c \in CallbackConns THEN <<"after_commit">> \o DropSteps \o <<"idle">>
    ELSE DropSteps \o <<"idle">>

\* commit: execute_batch("COMMIT") succeeded, the guard is dropped at the
\* end of commit_and_release, then, if the instance has callbacks,
\* after_transaction_commit is awaited.
CommitSteps(c) ==
    IF c \in CallbackConns THEN DropSteps \o <<"after_commit", "idle">>
    ELSE DropSteps \o <<"idle">>

\* commit: on failure the guard is handed back with the error, still
\* holding the connection.
Commit(t) ==
    /\ pc[t] = "holding"
    /\ Runs(t)
    /\ \E ok \in BOOLEAN : IF ok THEN Goto(t, CommitSteps(conn[t])) ELSE UNCHANGED <<pc, cont, running>>
    /\ UNCHANGED <<allowed, slot, conn, guard, gateWait, connWait>>

\* Drop, first statement: *(CONN_LOCK.lock()) = true.
ReopenGate(t) ==
    /\ pc[t] = "release"
    /\ Runs(t)
    /\ allowed' = TRUE
    /\ Advance(t)
    /\ UNCHANGED <<slot, conn, guard, gateWait, connWait>>

\* Bug variant of ReturnConn: the slot is refilled but the guard keeps its
\* connection (no take()).
ReturnConn_keeps_guard(t) ==
    /\ pc[t] = "release_conn"
    /\ Runs(t)
    /\ slot' = [slot EXCEPT ![conn[t]] = TRUE]
    /\ \E rest \in NotifyOne({u \in connWait : conn[u] = conn[t]}) :
          connWait' = (connWait \ {u \in connWait : conn[u] = conn[t]}) \cup rest
    /\ Advance(t)
    /\ UNCHANGED <<allowed, conn, guard, gateWait>>

\* Drop, under inner.connection's lock: get_or_insert(the guard's
\* connection), then inner.condvar.notify_one().
ReturnConn(t) ==
    /\ pc[t] = "release_conn"
    /\ Runs(t)
    /\ slot' = [slot EXCEPT ![conn[t]] = TRUE]
    /\ guard' = [guard EXCEPT ![t] = FALSE]
    /\ \E rest \in NotifyOne({u \in connWait : conn[u] = conn[t]}) :
          connWait' = (connWait \ {u \in connWait : conn[u] = conn[t]}) \cup rest
    /\ Advance(t)
    /\ UNCHANGED <<allowed, conn, gateWait>>

\* Bug variant of NotifyGate: CONN_CONDVAR is never notified.
NotifyGate_missing(t) ==
    /\ pc[t] = "notify_gate"
    /\ Runs(t)
    /\ Advance(t)
    /\ UNCHANGED <<allowed, slot, conn, guard, gateWait, connWait>>

\* Drop, last statement: CONN_CONDVAR.notify_one().
NotifyGate(t) ==
    /\ pc[t] = "notify_gate"
    /\ Runs(t)
    /\ gateWait' \in NotifyOne(gateWait)
    /\ Advance(t)
    /\ UNCHANGED <<allowed, slot, conn, guard, connWait>>

\* callbacks.after_transaction_commit().await completes.
AfterCommit(t) ==
    /\ pc[t] = "after_commit"
    /\ Runs(t)
    /\ Advance(t)
    /\ UNCHANGED <<allowed, slot, conn, guard, gateWait, connWait>>

\* The steps a polled task takes on its own.
Step(t) ==
    \/ QueryStart(t) \/ Gate(t) \/ TakeConn(t)
    \/ ReopenGate(t) \/ ReturnConn(t) \/ NotifyGate(t) \/ AfterCommit(t)

Next ==
    \E t \in Tasks :
        \/ \E c \in Conns : Acquire(t, c)
        \/ Step(t)
        \/ Suspend(t)
        \/ DropGuard(t)
        \/ Commit(t)

\* The executor polls every task whose thread is free and whose future is
\* ready, the OS runs every runnable thread, and a guard is always dropped
\* at the end of its scope.  Nothing forces an idle task to call acquire,
\* or a future to return Pending.
Fairness == \A t \in Tasks : WF_vars(Step(t)) /\ WF_vars(DropGuard(t))

Spec == Init /\ [][Next]_vars /\ Fairness

-----------------------------------------------------------------------------
(* Properties.                                                             *)

\* Holders of c's connection.
Holders(c) == {t \in Tasks : guard[t] /\ conn[t] = c}

TypeOK ==
    /\ allowed \in BOOLEAN
    /\ slot \in [Conns -> BOOLEAN]
    /\ pc \in [Tasks -> PCs]
    /\ cont \in [Tasks -> Seq(PCs)]
    /\ conn \in [Tasks -> Conns]
    /\ guard \in [Tasks -> BOOLEAN]
    /\ gateWait \subseteq {t \in Tasks : pc[t] = "gate"}
    /\ connWait \subseteq {t \in Tasks : pc[t] = "conn"}
    /\ running \in [Executors -> SUBSET Tasks]
    /\ \A t \in Tasks : guard[t] => pc[t] \in {"holding", "release", "release_conn"}

\* Every connection is in exactly one place, its instance's slot or one
\* guard: Drop's get_or_insert never finds the slot full (which would
\* silently drop the guard's connection) and no guard is built from an
\* empty slot.
ConnectionConserved ==
    \A c \in Conns : IF slot[c] THEN Holders(c) = {} ELSE Cardinality(Holders(c)) = 1

\* The gate is closed exactly while one task is between passing it and
\* the first statement of its guard's Drop: the gate and the slot waits
\* hand over one token.
GateToken ==
    Cardinality({t \in Tasks : pc[t] \in {"conn", "holding", "release"}})
        = IF allowed THEN 0 ELSE 1

\* No lost wake-up: when the gate is open while tasks wait at it, some
\* task passes it; when a slot is full while tasks wait for it, some task
\* takes it.  Notifications are sent after the state change they announce
\* (Drop reopens the gate before notify_one, returns the connection before
\* inner.condvar.notify_one).
NoLostWakeup ==
    /\ (allowed /\ \E t \in Tasks : pc[t] = "gate") ~> ~allowed
    /\ \A c \in Conns :
          (slot[c] /\ \E t \in Tasks : pc[t] = "conn" /\ conn[t] = c) ~> ~slot[c]

\* "You must not hold this over an await point as this may cause a
\* deadlock": the library's own awaits keep that rule, query_start before
\* the guard is built and after_transaction_commit after it is dropped, so
\* a task holding a guard is never suspended; it is always being polled
\* on its thread.
GuardNotHeldAcrossAwait ==
    \A t \in Tasks : guard[t] => running[Home[t]] = {t}

\* Every guard is eventually dropped and its connection returned, also
\* when several tasks share an executor thread and a task blocked in a
\* Condvar wait holds that thread.
GuardReleased == \A t \in Tasks : guard[t] ~> ~guard[t]


\* The tasks between passing the gate and Drop's reopening of it: the
\* holders of CONN_LOCK's token.
LockHolders == {t \in Tasks : pc[t] \in {"conn", "holding", "release"}}

\* The hand-off implements an abstract process-wide lock: passing the gate
\* is Lock, Drop's first statement is Unlock, every other step leaves the
\* holder alone, and every holder eventually unlocks, also when a task
\* that has passed the gate must still wait for its instance's slot
\* (refilled by the previous holder after it reopened the gate), after a
\* failed COMMIT, and on either path of commit.
Abs == INSTANCE ProcessLock WITH holder <- LockHolders

LockRefinement == Abs!Spec

=============================================================================
