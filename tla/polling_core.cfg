SPECIFICATION FairPollingSpec
CONSTANTS
  o = o
  a = a
  b = b
  MemberId <- MCMemberId
  Owner = o
  Invite = {thisRoom}
  RoomInvite = thisRoom
  BadInvite = BadInvite
  NoTarget = NoTarget
  MaxEvents = 6
  Unanswered = Unanswered
  MaxInFlight = 2
INVARIANTS
  CaughtUpIsRight
  NothingIsSkipped
PROPERTIES
  EveryEventIsHandled
\* The log is bounded by MaxEvents: when it is full and read nothing more happens.
CHECK_DEADLOCK FALSE
