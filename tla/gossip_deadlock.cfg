SPECIFICATION FairSpec
CHECK_DEADLOCK FALSE
CONSTANTS
  alice = alice
  k1 = k1
  capability = capability
  main = main
  side = side
  a = a
  b = b
  Revocation = Revocation
  KeyRotation = KeyRotation
  Opaque = Opaque
  Malformed = Malformed
  Ping = Ping
  Free = Free
  Client = Client
  Identities <- MCIdentities
  Schemas <- MCSchemas
  Topics <- MCTopics
  RoutingKeys <- MCRoutingKeys
  Ids <- MCIds
  Descriptors <- TwoVersions
  MIN_TTL = 1
  MAX_TTL = 1
  MAX_CLOCK_SKEW = 0
  MAX_ROUTING_KEYS = 1
  Hubs <- Pair
  Peering <- Pair
  Links <- BothWays
  Rank <- MCRank
  MAX_GOSSIP_BATCH = 2
  MaxBreaks = 0
PROPERTIES
  GossipDelivers
