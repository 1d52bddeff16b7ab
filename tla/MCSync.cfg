\* both tables of check_sync.c with one philosopher less, two rounds; the fridge of
\* mom, sister, dad and you; rings that wrap and overrun
CONSTANTS
  N = 4
  TIMES = 2
  Buyer = {0, 1}
  Drinker = {2, 3}
  Portion = 20
  Bottle = 100
  MaxSignals = 2
  Reader = {0, 1}
  CONSBUFSIZE = 3
  STDIN_BUFSIZE = 2
  MaxLen = 3
  MaxTyped = 4
SPECIFICATION SyncSpec
INVARIANTS
  OneActive
  EatersEat
  CountersExact
  WaitersBlocked
  OneInside
  HungryBlocked
  OneBusy
  NoWaste
  KeptInOrder
PROPERTIES
  Implements
  SemaImplements
  EverybodyFinishes
  GoesOn
