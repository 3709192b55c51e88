\* Every handler, saves, external edits and a client that may vanish: shutdown, answers, termination.
CONSTANTS
    f1 = f1
    f2 = f2
    r1 = r1
    r2 = r2
    Files <- MCFiles
    ReqIds <- MCReqIds
    MaxVersion = 2
    FailingVersions = {2}
    PoolSize = 1
    MaxInbox = 2
    Idle = Idle
    None = None
    ShutdownErr = ShutdownErr
    ShutdownOk = ShutdownOk
    NotFound = NotFound
    Methods <- MCMethods
    ExternalEditors <- MCFiles
    ClientSaves = TRUE
    SaveBeforeClose = FALSE
    ClientMayVanish = TRUE
SPECIFICATION Spec
PROPERTY LoopEndsWhenClientGone
