\* one file with two descriptors, truncated through one while the other is open
SPECIFICATION Spec
CONSTANTS
  File = {f}
  Handle = {h1, h2}
  NBlocks = 8
  NDirect = 1
  NEntries = 2
  BlockSize = 2
  Byte = {0, 1}
  Zero = 0
  TruncatesShared = TRUE
  SeekTo = {0, 3, 5}
  CLOSED = CLOSED
INVARIANT NoAssertFails
CHECK_DEADLOCK FALSE
