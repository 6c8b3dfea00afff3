\* A segmented request of which a segment is lost.
CONSTANTS
  SeqSpace = 8
  MaxReassembly = 8
  IdSpace = 1
  Retries = 1
  OurWindow = 2
  MaxWindow = 2
  ResponseSizes = {1}
  MaxRequests = 1
  Links <- MCLostSegment
  MaxSegments = 4
  MaxTransactions = 2
  NetBound = 12
SPECIFICATION Spec
INVARIANT RequestIntact
CHECK_DEADLOCK FALSE
