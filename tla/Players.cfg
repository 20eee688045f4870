CONSTANTS
  p1 = p1  p2 = p2
  Player <- MCPlayer
  Spotify <- MCSpotify
  MaxChanges = 6
  None = None
SPECIFICATION Spec
INVARIANTS RowsHavePlayers PlayersFollowDevice DeviceApiCurrent
CHECK_DEADLOCK FALSE
