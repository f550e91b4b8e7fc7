SPECIFICATION PeerSpec
CONSTANTS
  MaxOffers = 5
  MaxLost = 1
  MaxDisconnects = 1
INVARIANTS
  RelayIsTheLastResort
  SettledEndsAgree
PROPERTY
  OutageEnds
\* When both ends have settled, with the link up or given up, nothing is left to do.
CHECK_DEADLOCK FALSE
