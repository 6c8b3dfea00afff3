\* Frames overtake each other and are lost on network 2, r2 restarts and is congested.
CONSTANTS
  r1 = r1
  r2 = r2
  r3 = r3
  d1 = d1
  d4 = d4
  NULL = NULL
  Global = Global
  Nets <- MCNets
  IPNets = {1, 2, 3, 4}
  Routers <- MCRouters
  Devices <- MCDevices
  Home <- MCHome
  Ports <- MCPorts
  Toward <- MCToward
  AppPort <- MCAppPort
  Congested = {r2}
  Sends <- MCSends
  HopLimit = 4
  MaxStarts <- MCMaxStarts
  MaxFrames = 1
  Lossy = {2}
  Forgetful = {d4}
SPECIFICATION Spec
CHECK_DEADLOCK FALSE
INVARIANTS LearnedIsTrue RoutesPointHome BusyHasTimer SourceIsOrigin
