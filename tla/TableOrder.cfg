CONSTANTS
  MaxInt = 3
  OtherKeys = {x}
  Values = {a}
  Nil = Nil
  MaxList = 3
  ArrMax = 3
  InitCap = 2
  ShareMax = 1
  MinIndex = 6
SPECIFICATION SpecAttached
 
PROPERTIES ImplementsParts
CHECK_DEADLOCK FALSE
