SPECIFICATION EntrySpec
CONSTANTS
  p1 = p1
  p2 = p2
  p3 = p3
  Attempt = {1, 2}
  PortPool <- MCPortPool
  EphemeralPort = {p3}
  Occupied <- MCOccupied
  ExternalPort = {x}
  NoPort = NoPort
  MaxSlot = 1
  Entry = {1}
  RemoteRoom = {r1, r2}
  NoRoom = NoRoom
INVARIANTS
  OwnRoomIsServed
  LastPortIsTheServers
  ConfirmSendsTheRightCode
  ChannelShowsItsInvite
PROPERTY
  PreparationEnds
\* The attempts and codes are bounded: a window that has used them up may stop.
CHECK_DEADLOCK FALSE
