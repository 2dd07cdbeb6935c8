SPECIFICATION Spec
CONSTANTS
  Clients = {a, b, c}
  Codes = {r1, r2}
  Cfgs = {h1, h2}
  SeatCount = 3
  Nobody = nobody
  NoRoom = noroom
  NoCfg = nocfg
  NoRoster = noroster
  Rejoin = FALSE
SYMMETRY Symmetry
INVARIANT NoGhost
INVARIANT Told
INVARIANT HostPresent
