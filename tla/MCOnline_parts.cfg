SPECIFICATION Parts
CONSTANTS
  StallLimit = 1
  IceLimit = 3
  DropLimit = 4
  NotWaiting = none
  Window = 3
  RateLimit = 2
  Second = 2
  RelayLimit = 2
  Sizes = {1, 2}
  MaxNow = 6
  Host = host
  Guests = {a, b}
  MaxStarts = 1
  Peers = {0, 1, 2}
  FileFlows = {"drop1", "drop2"}
  Region <- TwoRegions
  Extractors = {1, 2}
  NoPack = noPack
  NoFile = NoFile
  Unusable = Unusable
  Hashes <- TwoHashes
  BuildId <- SomeBuild
  Counts = {1, 3, 5}
  Delays = {3}
  Stages = {31, 0}
  GameLengths = {6, 7}
  Facility = 34
  Complex = 31
  Inputs <- HeldKeys
  Travel <- MouseTravel
  Crcs <- Checksums
  Redundancy = 2
  Delay = 1
  MaxSlices = 4
  Ring = 2
  NSeats = 2
  Pads = {"idle", "fire"}
  MaxTick = 4
CHECK_DEADLOCK FALSE
INVARIANT BannerMeansStalled
INVARIANT Limited
INVARIANT SeatsAgree
 
INVARIANT SamePlay
INVARIANT Connects
PROPERTY DropIsLate
PROPERTY NoLimbo
