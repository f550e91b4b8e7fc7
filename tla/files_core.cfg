SPECIFICATION RelaySpec
CONSTANTS
  Owner = "o"
  Joiner = {"a", "b"}
  File = {"ofA", "ofB", "empty"}
  SenderOf <- MCSenderOf
  TotalChunks <- MCTotalChunks
  Writer = {"a"}
  Stamp = {"now"}
  NoFile = NoFile
  NoState = NoState
  MaxCloses = 1
INVARIANTS
  PicturesAreWhole
  OrderOfASenderIsKept
\* When everything has been sent and received nothing more happens.
CHECK_DEADLOCK FALSE
