SPECIFICATION FairSpec
CONSTANTS
  N = 3
  Delay = 1
  Cks = {ck1, ck2}
  NoCk = none
  WsRelay = FALSE
  Lossy = FALSE
  UpAtStart = {{0, 1}, {0, 2}, {1, 2}}
  Quitters = {}
  MaxTick = 1
CHECK_DEADLOCK FALSE
INVARIANT NoSilentDivergence
PROPERTY DivergenceEnds
