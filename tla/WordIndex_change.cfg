\* didChange keeps every built index equal to a rebuild of the new text.
CONSTANTS
    p1 = p1
    p2 = p2
    p3 = p3
    R1 = R1
    R2 = R2
    Paths <- MCPaths
    Roots <- MCRoots
    DirOf <- MCDirOf
    RootDir <- MCRootDir
    Text <- MCText
    MaxVersion = 2
    Present <- MCPresent
SPECIFICATION Spec
PROPERTY ChangeMatchesRebuild
