\* One client with one invoke ID that it uses again; requests that fit and
\* requests in segments; handlers that may outlast request_timeout.
CONSTANTS
  SeqSpace = 4
  MaxReassembly = 3
  Peers = {"p"}
  IdSpace = 1
  Retries = 1
  OurWindow = 2
  MaxWindow = 2
  Requests <- MCRequests
  AllowedRequests <- MCAllowedRequests
  RequestSlices = {"a"}
  PeerWindows = {0, 2}
  PeerMaxSegments = {2}
  PeerAccepts = {TRUE}
  ResponseSizes = {1, 2, 3}
  DccStates = {"ENABLE", "DISABLE"}
  MaxTransactions = 2
SPECIFICATION Spec
CHECK_DEADLOCK FALSE
INVARIANTS EntriesProgress EntriesAnswerTheirRequest OneHandlerPerKey
