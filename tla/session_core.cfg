SPECIFICATION SessionSpec
CONSTANTS
  o = o
  a = a
  b = b
  MemberId <- MCMemberId
  Owner = o
  Invite = {thisRoom, otherRoom}
  RoomInvite = thisRoom
  BadInvite = BadInvite
  NoTarget = NoTarget
  MaxEvents = 9
SYMMETRY Symmetry
INVARIANTS
  TypeOK
  OneHost
  SequenceIsPosition
  LogTellsRoom
  SignalsOnlyBetweenMembers
  BanIsForGood
  RemovalIsExplainedFirst
  LogTellsServerMuted
\* The log is bounded by MaxEvents: when it is full nothing more is recorded.
CHECK_DEADLOCK FALSE
