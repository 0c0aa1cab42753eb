CONSTANTS
  alice = alice
  bob = bob
  me = me
  Peer <- MCPeer
  Me = me
  None = None
  AutoAccept = TRUE
  MaxStarts = 2
  MaxPackets = 1
  MaxKeys = 3
SPECIFICATION ClientSpec
CHECK_DEADLOCK FALSE
PROPERTY AcceptsOnlyWhenAsked
