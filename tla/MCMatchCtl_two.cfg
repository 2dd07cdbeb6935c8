SPECIFICATION FairSpec
CONSTANTS
  N = 2
  Delay = 0
  Cks = {ck1, ck2}
  NoCk = none
  WsRelay = FALSE
  Lossy = TRUE
  UpAtStart = {}
  Quitters = {0, 1}
  MaxTick = 2
CHECK_DEADLOCK FALSE
INVARIANT NoFalseDesync
PROPERTY EveryoneEnds
