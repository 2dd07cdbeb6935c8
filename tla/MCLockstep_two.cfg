SPECIFICATION Spec
CONSTANTS
  N = 2
  Delay = 1
  Ring = 4
  Redundancy = 4
  Pads = {idle, fire}
  Idle = idle
  NoPad = none
  MaxTick = 3
INVARIANT Agreement
PROPERTY ImplementsLog
