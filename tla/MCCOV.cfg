CONSTANTS
  NULL = NULL
  ObjectIds = {"ao", "bi"}
  Commandable = {"ao"}
  Analog = {"ao"}
  ReadOnly = {"bi"}
  Alarming = {"bi"}
  MinimumTimes = {"ao"}
  Names = {"A", "B", "C"}
  Values = {0, 1, 2, 3}
  InRange = {0, 1, 2}
  Default = 0
  MaxPriority = 3
  MinimumTimePriority = 2
  Subscribers = {"s"}
  MonitoredProps = {"present_value"}
  MaxSubscriptions = 1
  MaxRevision = 2
  InitialObjects <- MCInitialObjects
  CreateRequests <- MCCreate
  Writes <- MCWrites
  WriteLists <- MCWriteLists
  LocalWrites <- MCLocalWrites
  Increments = {NULL, 2}
  SubscribeLists <- MCSubscribeLists
SPECIFICATION Spec
CHECK_DEADLOCK FALSE
INVARIANTS NamesIndexed HighestCommandWins SubscriptionsAgree SubscribersCurrent
