SPECIFICATION Spec
CONSTANTS
  alice = alice
  bob = bob
  k1 = k1
  k2 = k2
  capability = capability
  main = main
  other = other
  Revocation = Revocation
  KeyRotation = KeyRotation
  Opaque = Opaque
  Malformed = Malformed
  Nobody = Nobody
  Identities <- MCIdentities
  Schemas <- MCSchemas
  Topics <- MCTopics
  RoutingKeys <- MCRoutingKeys
  Ids <- MCIds
  MIN_TTL = 1
  MAX_TTL = 3
  MAX_CLOCK_SKEW = 1
  MAX_ROUTING_KEYS = 2
  RATE_LIMIT = 2
  RATE_LIMIT_WINDOW = 2
  MaxTime = 3
  Descriptors <- MCDescriptors
INVARIANTS
  TypeOK
  OneVersionEverywhere
  WatermarkMatchesStored
  RateWindowBounded
PROPERTIES
  WatermarkNeverFalls
  RevocationIsFinal
  ImplementsSlots
  SupersededRotationStaysOut
  RejectionAddsOnlyUnparsed
