\* Every call on small trees; two threads that remove the same.
CONSTANTS
    Names = {"a", "b"}
    Depth = 4
    Trees <- SmallTrees
    Threads = {"one", "two"}
    Calls <- MakeCalls
SPECIFICATION Spec
CONSTRAINT Crossing
INVARIANT
    TypeOK
    OnlyItsOwn
    RemoveIsHonest
    SuccessIsWhole
    NoHalves
    MoveLosesNothing
    HandlesClosed
\* each thread makes one call, and it is over
CHECK_DEADLOCK FALSE
