SPECIFICATION Spec
CONSTANTS
  s1 = s1
  s2 = s2
  s3 = s3
  c1 = c1
  c2 = c2
  a1 = a1
  a2 = a2
  a3 = a3
  nowhere = nowhere
  Nodes <- Smaller
  Addrs <- AllAddrs
  node_id <- SomeIds
  NUM_BUCKETS = 3
  K = 2
  Servers <- SmallerServers
  listens <- Listens
  Publishers <- Publisher
  Seekers <- Publisher
  Targets <- OneTarget
  addr <- WildcardAddrs
  seeds <- Seeds
  routing_keys <- TwoKeys
  alpha = 2
  MaxOps = 1
  MaxFailures = 0
  MaxDepartures = 0
INVARIANT SeedIsQueriable
CHECK_DEADLOCK FALSE
