\* A walk that has read outside the structure goes nowhere from there.
CONSTANTS
    Root = "root"
    Elems <- MCElems
    Desc <- MCDesc
    Structs <- MCStructs
    MarkSets <- MCMarkSets
SPECIFICATION Spec
INVARIANTS
    CallsCorrect
    TemplateLeftClean
PROPERTY WalkAdvances
CHECK_DEADLOCK FALSE
