CONSTANTS
  alice = alice
  bob = bob
  me = me
  Peer <- MCPeer
  Me = me
  None = None
  AutoAccept = FALSE
  MaxStarts = 2
  MaxPackets = 2
  MaxKeys = 3
SPECIFICATION ClientSpec
SYMMETRY MCSymmetry
INVARIANTS  WaitingIsAnswerable AnsweredAtMostOnce OnlyTheUserStops 
CHECK_DEADLOCK FALSE
