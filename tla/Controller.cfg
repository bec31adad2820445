\* Both models, one notification thread at a time, one thread with notices of its own.
CONSTANTS
    UI = UI
    NET = NET
    REFRESH = REFRESH
    Notifiers = {UI}
    Messages = {m1}
    Models = {"vita", "vitatv"}
SPECIFICATION FairSpec
INVARIANT
    TypeOK
    ServerIsStoppable
    ServerIsWatched
    RunIsTrue
    StorageIsWatched
    ModesExclude
PROPERTY
    WifiOffStopsServer
    NoticeEnds
