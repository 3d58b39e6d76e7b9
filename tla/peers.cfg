SPECIFICATION FairSpec
CONSTANTS
  h1 = h1
  h2 = h2
  Unknown = Unknown
  NoHub = NoHub
  Hubs <- TwoHubs
  Seeds <- OneSeed
  Unparsable = {}
  Blocked = {}
  max_peers = 1
  MAX_GOSSIP_BATCH = 2
  UNHEALTHY_THRESHOLD = 2
  DISCONNECT_THRESHOLD = 3
INVARIANTS
  TypeOK
  DiscoveryTargetUnconnected
  DisconnectedIsReleased
  UnhealthyBand
PROPERTIES
  FailuresAddUp
  ReachablePeerConnected
