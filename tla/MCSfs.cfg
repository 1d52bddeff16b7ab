SPECIFICATION Spec
CONSTANTS
  File = {f, g}
  Handle = {h1, h2}
  NBlocks = 3
  NDirect = 1
  NEntries = 2
  BlockSize = 2
  Byte = {0, 1}
  Zero = 0
  TruncatesShared = FALSE
  SeekTo = {0, 3, 5}
  CLOSED = CLOSED
INVARIANTS BlocksExact ReadsBack
PROPERTIES Implements
SYMMETRY Symmetry
CHECK_DEADLOCK FALSE
