\* Two pool threads: do the client's diagnostics converge?
CONSTANTS
    f1 = f1
    f2 = f2
    r1 = r1
    r2 = r2
    Files <- MCFiles
    ReqIds <- MCReqIds
    MaxVersion = 3
    FailingVersions = {2}
    PoolSize = 2
    MaxInbox = 2
    Idle = Idle
    None = None
    ShutdownErr = ShutdownErr
    ShutdownOk = ShutdownOk
    NotFound = NotFound
    Methods <- MCMethods
    ExternalEditors <- MCFiles
    ClientSaves = FALSE
    SaveBeforeClose = FALSE
    ClientMayVanish = FALSE
SPECIFICATION Spec
INVARIANT DiagnosticsConverge
