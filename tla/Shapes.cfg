CONSTANTS
  ix = ix
  nm = nm
  nm2 = nm2
  Tables = {o, c, sm}
  StrMt = sm
  StrLib = c
  StrKeys <- MCStrKeys
  NameOf <- MCNameOf
  SlotOf <- MCSlotOf
  IndexKey = ix
  CtorKeys <- MCCtorKeys
  FieldSites = {nm}
  MethodSites = {nm}
  Metas = {c}
  Linked = {c}
  PlainKeys = {k}
  Plain = {}
  Nil = Nil
  MaxShapes = 4
  ShareMax = 2
  MinIndex = 6
SPECIFICATION Spec
CONSTRAINT Focus
INVARIANTS LayoutsSound MethodCacheSound FieldsAsStored
CHECK_DEADLOCK FALSE
