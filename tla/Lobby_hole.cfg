SPECIFICATION LobbySpec
CONSTANTS
  Host = host
  Guests = {a, b}
  MaxStarts = 1
CHECK_DEADLOCK FALSE
INVARIANT SeatFits
