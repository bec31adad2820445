\* The UI thread and the network thread both call fini.
CONSTANTS
    NULL = NULL
    Clients = {c1, c2}
    Callers = {f1, f2}
    Starters = {f1}
    Servers = {s1}
SPECIFICATION Spec
SYMMETRY Symmetry
INVARIANT
    FiniWalkIsSafe
\* fini can get stuck for good, in the circumstances OrderlyFiniReturns names
CHECK_DEADLOCK FALSE
