SPECIFICATION FairSpec
CONSTANTS
  alice = alice
  bob = bob
  k1 = k1
  k2 = k2
  capability = capability
  main = main
  Revocation = Revocation
  KeyRotation = KeyRotation
  Opaque = Opaque
  Malformed = Malformed
  Absent = Absent
  NotCached = NotCached
  Identities <- MCIdentities
  Schemas <- MCSchemas
  Topics <- MCTopics
  RoutingKeys <- MCRoutingKeys
  Ids <- MCIds
  Descriptors <- FewDescriptors
  MIN_TTL = 1
  MAX_TTL = 3
  MAX_CLOCK_SKEW = 1
  MAX_ROUTING_KEYS = 2
  RATE_LIMIT = 2
  RATE_LIMIT_WINDOW = 2
  MaxTime = 3
PROPERTIES
  ReplayProtected
