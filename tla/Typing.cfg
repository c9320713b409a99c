CONSTANTS
  N = 2
  Parent <- MCParent
  NParams <- MCNParams
  NLocals <- MCNLocals
  Upvals <- MCUpvals
  Vararg = {}
  Bodies <- MCBodies
SPECIFICATION Spec
INVARIANTS BindingsStable BoxStoresAreInts SignaturesHold EndsSoon
