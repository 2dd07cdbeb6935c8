SPECIFICATION Spec
CONSTANTS
  Clients = {a, b}
  Codes = {r1, r2}
  Cfgs = {h1}
  SeatCount = 3
  Nobody = nobody
  NoRoom = noroom
  NoCfg = nocfg
  NoRoster = noroster
  Rejoin = TRUE
SYMMETRY Symmetry
CHECK_DEADLOCK FALSE
INVARIANT HostPresent
