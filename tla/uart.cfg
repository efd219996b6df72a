SPECIFICATION FairSpec
CONSTANTS
  t1 = t1
  t2 = t2
  Threads = {t1, t2}
  Readers = {t1}
  Chars <- MCChars
  Keys <- MCKeys
  None = None
  BUF_SIZE = 2
  FIFO_SIZE = 2
  MaxLen = 3
  MaxFrames = 2
INVARIANTS TypeOK NeverStranded
PROPERTIES KeepsOrder Drains
