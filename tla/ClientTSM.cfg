\* One peer with two invoke IDs, requests of one and of two segments, and
\* peers whose window sizes include the illegal MaxWindow + 1.
CONSTANTS
  SeqSpace = 3
  MaxReassembly = 2
  Peers = {"p"}
  IdSpace = 2
  Retries = 1
  OurWindow = 2
  MaxWindow = 2
  Sizes = {1, 2}
  MaxRequests = 3
  Slices = {"d"}
  PeerWindows = {1, 3}
SPECIFICATION Spec
INVARIANTS TypeOK TimerMatchesState SegmentPhases
PROPERTY ResolvedOnce
CHECK_DEADLOCK FALSE
