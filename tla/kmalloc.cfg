SPECIFICATION FairSpec
CONSTANTS
  t1 = t1
  t2 = t2
  Threads = {t1, t2}
  Frames = {1, 2, 3}
  PAGE_SIZE = 4
  Classes = {2, 4}
  PerPage = 2
  Lens = {2, 3, 5}
  MaxHeld = 3
INVARIANTS TypeOK ObjectsExact OwnersExact FramesExact
PROPERTIES KeepsPromise AllReturned
