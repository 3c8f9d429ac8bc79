CONSTANTS
    Threads = {a, b}
    Main = main
    Root = worker
    s1 = s1
    r1 = r1
    t1 = t1
    p1 = p1
    Servers = {s1}
    Routers = {r1}
    Transports = {t1}
    Producers = {p1}
    Owner <- MCOwner
    Calls = 3
SPECIFICATION FairSpec
INVARIANTS MirrorsWorker PausedAgrees
PROPERTIES CallsEnd
CHECK_DEADLOCK FALSE
