CONSTANTS
  MaxInt = 4
  OtherKeys = {name}
  Values = {a, b}
  Nil = Nil
  MaxList = 4
  ArrMax = 4
  InitCap = 2
SPECIFICATION SpecAttached
SYMMETRY ValueSymmetry
INVARIANTS LenIsBorder 
PROPERTIES   LoopMeetsGoal
CHECK_DEADLOCK FALSE
