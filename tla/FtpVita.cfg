\* One thread calls init and fini; two client addresses, reused for ever.
CONSTANTS
    NULL = NULL
    Clients = {c1, c2}
    Callers = {f1}
    Starters = {f1}
    Servers = {s1}
SPECIFICATION FairSpec
INVARIANT
    TypeOK
    ListFaithful
    FiniWalkIsSafe
    ListExclusive
    NetBalanced
    FiniLeavesOnlyTheDeparted
PROPERTY
    ImplementsService
    OrderlyFiniReturns
    DepartedClientEnds
\* fini can get stuck for good, in the circumstances OrderlyFiniReturns names
CHECK_DEADLOCK FALSE
