SPECIFICATION Spec
CONSTANTS
  t1 = t1
  t2 = t2
  alice = alice
  bob = bob
  c1 = c1
  secret = secret
  other = other
  Absent = Absent
  NoToken = NoToken
  Tenants <- MCTenants
  Identities <- MCIdentities
  Challenges <- MCChallenges
  Tiers <- MCTiers
  Bearers <- MCBearers
  operator_token = secret
  QuotaRequests <- MCQuotaRequests
  Costs <- MCCosts
  CHALLENGE_TTL = 1
  MaxTime = 1
CHECK_DEADLOCK FALSE
INVARIANTS
  TypeOK
  ChallengeUsedOnce
PROPERTIES
  ImplementsRegistry
