\* Is a compile failure logged once per failing file?
CONSTANTS
    fa = fa
    fb = fb
    FileOrder <- MCFileOrder
    NumPos = 2
    Name = "a"
    NoResult = NoResult
    AllSaved = TRUE
SPECIFICATION Spec
INVARIANT CompileFailureLoggedOncePerFile
