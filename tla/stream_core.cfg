SPECIFICATION FairStreamSpec
CONSTANTS
  o = o
  a = a
  b = b
  MemberId <- MCMemberId
  Owner = o
  Invite = {thisRoom}
  RoomInvite = thisRoom
  BadInvite = BadInvite
  NoTarget = NoTarget
  MaxEvents = 7
  Client <- OneClient
  NoOffer = NoOffer
  Absent = Absent
  MaxDrops = 2
INVARIANTS
  ViewIsRoomAsOf
  WireIsTheGap
  SignalsComeFromShownMembers
PROPERTIES
  FeedIsImplemented
  EveryEventArrives
  RemovedMembersGetOut
\* The log is bounded by MaxEvents: when it is full nothing more is recorded.
CHECK_DEADLOCK FALSE
