\* One pool thread: read-your-writes, requests in flight across Shutdown, answers, refinement of AnalysisService.
CONSTANTS
    f1 = f1
    f2 = f2
    r1 = r1
    r2 = r2
    Files <- MCFiles
    ReqIds <- MCReqIds
    MaxVersion = 3
    FailingVersions = {2}
    PoolSize = 1
    MaxInbox = 2
    Idle = Idle
    None = None
    ShutdownErr = ShutdownErr
    ShutdownOk = ShutdownOk
    NotFound = NotFound
    Methods <- MCQueryMethods
    ExternalEditors <- MCNoFiles
    ClientSaves = FALSE
    SaveBeforeClose = FALSE
    ClientMayVanish = FALSE
SPECIFICATION Spec
INVARIANT TypeOK
INVARIANT ResponseReflectsReceipt
PROPERTY InFlightAnsweredAcrossShutdown
PROPERTY RequestsAnswered
PROPERTY ImplementsAnalysisService
