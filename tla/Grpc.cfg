CONSTANTS
  Oversized = {8}
  Incompressible = {9}
  Accepted <- MCAccepted
  Calls <- MCCalls
  PeerServerFrames <- ResponseFrames
  PeerClientFrames <- RequestFrames
  MaxPeerFrames = 3
  AddressCount <- MCAddressCount
  Scenes <- MCScenes
  MaxStreamCreationAttempts = 2
  ClientPing = 0
  GoAwayPing = 1
  ServerPing = 2
  MaxID = 9
  MaxPingStrikes = 2
SPECIFICATION GrpcSpec
INVARIANTS   ConnectionConsistent
PROPERTIES ImplementsLife 
CHECK_DEADLOCK FALSE
