CONSTANTS
    t1 = t1
    t2 = t2
    t3 = t3
    c1 = c1
    c2 = c2
    e1 = e1
    e2 = e2
    e3 = e3
    Tasks <- MCTasks
    Executors <- MCSharedExecutors
    Home <- MCSharedHome
    Conns <- MCConns
    CallbackConns <- MCCallbackConns

SPECIFICATION Spec


INVARIANT GuardNotHeldAcrossAwait

PROPERTY GuardReleased
