SPECIFICATION Spec
CONSTANTS
    i = i
    f = f
    g = g
    h = h
    v = v
    w = w
    t = t
    p = p
    x = x
    y = y
    z = z
    none = none
    NoName = none
    Types <- MCTypes
    Fields <- MCFields
    MaxTypes = 1
    MaxFields = 5
INVARIANTS MarksExact ReferencesExact TypesKept LocalsKeepTheirPlace
CHECK_DEADLOCK FALSE
