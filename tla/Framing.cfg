SPECIFICATION FairSpec
CONSTANTS
  Base = 3
  Requests <- MCRequests
  Response <- MCResponse
  Messages <- MCMessages
  Capacity = 8
  MaxOutstanding = 2
  MaxBacklog = 2
INVARIANTS
  TypeOK
  NoMutualWait
PROPERTIES
  ReceiveReturnsFrames
  PeerReadsFrames
  HubCallsReturn
CHECK_DEADLOCK FALSE
