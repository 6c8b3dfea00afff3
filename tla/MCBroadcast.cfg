SPECIFICATION FairSpec
CONSTANTS
  b1 = b1
  b2 = b2
  h1 = h1
  f1 = f1
  h2 = h2
  NULL = NULL
  Stations <- MCStations
  Home <- MCHome
  BBMDs = {b1, b2}
  Accepting = {b1, b2}
  Writable = {b2}
  Foreign = {f1}
  BBMDOf <- MCBBMDOf
  Peers <- MCPeers
  Masks <- MCMasks
  Saved <- MCSaved
  Tables <- MCTables
  Managers = {h1}
  TTL <- MCTTL
  MaxTTL = 4
  Grace = 1
  CleanupInterval = 2
  MaxFDT = 1
  Families = {"v4", "v6"}
  MaxNPDUs = 1
  MaxEvents = 2
  MaxLosses = 1
CHECK_DEADLOCK FALSE
INVARIANTS DeliveredOnce ReachesAll RenewalKeepsEntry AnswersOwnCall
PROPERTIES StaleRegistrationHeals
