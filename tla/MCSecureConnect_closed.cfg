SPECIFICATION FairSpec
CONSTANTS
  n1 = n1
  n2 = n2
  h1 = h1
  h2 = h2
  v1 = v1
  v2 = v2
  ALL = ALL
  NULL = NULL
  Nodes = {n1, n2}
  Hubs = {h1, h2}
  URIs <- MCURIs
  VMACs = {v1, v2}
  FirstVMAC <- MCFirstVMAC
  Switches = {}
  MaxConnections = 2
  MinDelay = 1
  MaxDelay = 2
  Ids = {1, 2, 3, 4, 5}
  Prompt = TRUE
  MaxEvents = 1
  MaxNPDUs = 0

CHECK_DEADLOCK FALSE
PROPERTY PersistentConnection
