SPECIFICATION FairSpec
CONSTANTS
  N = 2
  Delay = 2
  Ring = 6
  Redundancy = 6
  Pads = {idle}
  Idle = idle
  NoPad = none
  MaxTick = 7
INVARIANT AppliedIsCommitted
INVARIANT HistoryCovers
INVARIANT NeverRefused
PROPERTY EveryTickRuns
