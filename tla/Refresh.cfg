\* One thread at a time; two applications share a temporary directory.
CONSTANTS
    Apps = {a1, a2}
    Patches = {p1}
    Psms = {g1}
    AppTemp = AppTemp
    PatchTemp = PatchTemp
    Threads = {r1}
    PowerFails = TRUE
    Nothing = Nothing
SPECIFICATION FairSpec
INVARIANT
    TypeOK
    RestoresOnError
    CountIsTrue
PROPERTY
    RefreshEnds
