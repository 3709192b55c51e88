\* Formatting and range formatting of an edited document: which text is formatted?
CONSTANTS
    f1 = f1
    f2 = f2
    r1 = r1
    r2 = r2
    Files <- MCFiles
    ReqIds <- MCReqIds
    MaxVersion = 2
    FailingVersions = {2}
    PoolSize = 1
    MaxInbox = 2
    Idle = Idle
    None = None
    ShutdownErr = ShutdownErr
    ShutdownOk = ShutdownOk
    NotFound = NotFound
    Methods <- MCFormattingMethods
    ExternalEditors <- MCNoFiles
    ClientSaves = FALSE
    SaveBeforeClose = FALSE
    ClientMayVanish = FALSE
SPECIFICATION Spec
INVARIANT FormattingReflectsReceipt
