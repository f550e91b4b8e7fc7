SPECIFICATION ControlSpec
CONSTANTS
  o = o
  a = a
  b = b
  c1 = c1
  c2 = c2
  otherRoom = otherRoom
  MemberId <- MCMemberId
  Owner = o
  Invite = {thisRoom, otherRoom}
  RoomInvite = thisRoom
  BadInvite = BadInvite
  NoTarget = NoTarget
  MaxEvents = 6
  Conn = {c1, c2}
  ClientRequests <- MCClientRequests
  OwnerCommands <- MCOwnerCommands
SYMMETRY Symmetry
INVARIANTS
  ControlTypeOK
  AuthorityWasHeld
  AcceptedMembersLearnOfRemoval
PROPERTY SessionSpec
\* The log is bounded by MaxEvents: when it is full nothing more is recorded.
CHECK_DEADLOCK FALSE
