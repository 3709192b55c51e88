\* Unsaved editor buffers: does find_refs answer for the current content?
CONSTANTS
    fa = fa
    fb = fb
    FileOrder <- MCFileOrder
    NumPos = 1
    Name = "a"
    NoResult = NoResult
    AllSaved = FALSE
SPECIFICATION Spec
INVARIANT FindRefsMatchesReference
