CONSTANTS
    t1 = t1
    t2 = t2
    t3 = t3
    c1 = c1
    c2 = c2
    e1 = e1
    e2 = e2
    e3 = e3
    Tasks <- MCTasks
    Executors <- MCExecutors
    Home <- MCHome
    Conns <- MCConns
    CallbackConns <- MCCallbackConns
    MaxCalls <- MCMaxCalls

SPECIFICATION WSpec

\* The callers' calls are finite: once every task has made its calls and
\* returned to idle, the program stops.
CHECK_DEADLOCK FALSE

PROPERTY WaiterServed
