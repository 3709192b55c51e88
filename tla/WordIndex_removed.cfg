\* Do didDeleteFiles and didRenameFiles remove the old file from every index?
CONSTANTS
    p1 = p1
    p2 = p2
    p3 = p3
    R1 = R1
    R2 = R2
    Paths <- MCPaths
    Roots <- MCRoots
    DirOf <- MCDirOf
    RootDir <- MCRootDir
    Text <- MCText
    MaxVersion = 2
    Present <- MCPresent
SPECIFICATION Spec
INVARIANT RemovedFilesLeaveIndex
