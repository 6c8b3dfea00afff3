\* A faithful link and one that loses messages.
CONSTANTS
  SeqSpace = 8
  MaxReassembly = 8
  IdSpace = 2
  Retries = 1
  OurWindow = 2
  MaxWindow = 2
  ResponseSizes = {1, 3}
  MaxRequests = 2
  Links <- MCLinks
  MaxSegments = 4
  MaxTransactions = 2
  NetBound = 12
SPECIFICATION FairSpec
CHECK_DEADLOCK FALSE
INVARIANTS PayloadsIntact
PROPERTIES ImplementsService
