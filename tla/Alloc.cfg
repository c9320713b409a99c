SPECIFICATION Spec
CONSTANTS
    Sizes = {0, 24, 48, 32764}
    HeapBase = 5
    Page = 7
    StartPages = 1
    MaxPages = 3
    Space = 4096
    MaxLive = 3
INVARIANTS HeapSound DataIntact NothingLeaks
