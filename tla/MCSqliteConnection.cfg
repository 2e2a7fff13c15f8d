CONSTANTS
    t1 = t1
    t2 = t2
    t3 = t3
    c1 = c1
    c2 = c2
    e1 = e1
    e2 = e2
    e3 = e3
    Tasks <- MCTasks
    Executors <- MCOwnExecutors
    Home <- MCOwnHome
    Conns <- MCConns
    CallbackConns <- MCCallbackConns

SPECIFICATION Spec

INVARIANT TypeOK
INVARIANT ConnectionConserved
INVARIANT GateToken

PROPERTY NoLostWakeup
PROPERTY LockRefinement
