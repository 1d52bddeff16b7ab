\* five pages, so that a smaller free block lies below the one that is freed on top
CONSTANTS
  NPages = 5
  MaxRequest = 2
  NULL = NULL
SPECIFICATION Spec
PROPERTY
  HandedOutOnce
CHECK_DEADLOCK FALSE
