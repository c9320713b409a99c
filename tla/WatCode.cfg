SPECIFICATION Spec
CONSTANTS
    a = a
    none = none
    Labels = {a}
    Numeric = {1}
    Values = {0, 1, 63, 64, 127, 128, 191, 192, 255}
    WordBits = 8
    Anonymous = none
    MaxOpen = 4
    MaxIds = 4
CONSTRAINT Focus
INVARIANTS ControlExact TrapsAreDead ConstantsExact
CHECK_DEADLOCK FALSE
