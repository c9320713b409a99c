SPECIFICATION Spec
CONSTANTS
    x = x
    y = y
    l = l
    none = none
    Names = {x, y}
    LabelNames = {l}
    Builtins = {y}
    EnvName = none
    Lists <- MCLists
    Param = y
    MaxLocals = 3
    MaxUpvals = 2
    MaxDepth = 3
    MaxFuncs = 3
    MaxGlobals = 1
    MaxDecls = 3
    MaxNamed = 3
    MaxBlocks = 3
    MaxGotos = 2
    MaxLabels = 1
CONSTRAINT Focus
INVARIANTS UpvaluesKeepMeaning  ConstsNeverAssigned JumpsLegal
CHECK_DEADLOCK FALSE
