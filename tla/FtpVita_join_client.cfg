\* fini called as a client goes away.
CONSTANTS
    NULL = NULL
    Clients = {c1, c2}
    Callers = {f1}
    Starters = {f1}
    Servers = {s1}
SPECIFICATION FairSpec
PROPERTY
    ClientsAreJoined
\* fini can get stuck for good, in the circumstances OrderlyFiniReturns names
CHECK_DEADLOCK FALSE
