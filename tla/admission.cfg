SPECIFICATION Spec
CONSTANTS
  hub = hub
  alice = alice
  t1 = t1
  compute = compute
  ad = ad
  Vacant = Vacant
  NoRequest = NoRequest
  Identities <- MCIdentities
  Tenants <- MCTenants
  StoreModes <- MCStoreModes
  SeedTypes <- MCSeedTypes
  Blocked <- MCBlocked
  Hub = hub
  Ad = ad
  STORE_LIMIT = 1
  WINDOW = 1
  PERIOD = 2
  SEED_INTERVAL = 2
  LATENESS = 1
  TTL = 4
  MaxTime = 4
  MaxStarts = 2
CHECK_DEADLOCK FALSE
INVARIANTS
  TypeOK
  WindowExact
  
PROPERTIES
  AdmittedWereTenants
