SPECIFICATION Spec
CONSTANTS
  a = a
  b = b
  Threads = {a, b}
  Start = 3
  N = 14
  NrFrames = 32
  MaxOrder = 3
  Sizes = {2, 3, 5, 9}
  MaxHeld = 2
SYMMETRY Symmetric
INVARIANTS TypeOK FlagsExact Tiling FailsOnlyWhenFull
PROPERTIES KeepsPromise
