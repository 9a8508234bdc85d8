SPECIFICATION Spec
CONSTANTS
  Nil = Nil
  Local = "a"
  CloudNet = "n1"
  Systems <- MCSystems
  Disks <- MCDisks
  Ifaces <- MCIfaces
  Subnets <- MCSubnets
  Worlds <- MCWorlds
  Preseeds <- MCPreseeds
  OSDPools <- MCOSDPools
  DefaultOSDPools <- MCDefaultOSDPools
  Sizes <- MCSizes
  RecommendedOSDHosts = 3
INVARIANTS TypeOK DiskOneUse PoolsEverywhere LXDAccepts RevertLeaves SuccessMeansBuilt
