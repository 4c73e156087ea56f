SPECIFICATION Spec
CONSTANTS
    Servers = {s1, s2}
    Threads = {t1, t2}
    NoServer = NoServer
    MaxSets = 2
INVARIANT InstanceAlive
