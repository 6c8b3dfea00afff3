SPECIFICATION EnginesSpec
CONSTANTS
  Watched <- MCWatched
  MonitoredValues = {0, 1, 2, 3, 4}
  HighLimit = 3
  LowLimit = 1
  Deadband = 1
  AlarmValues = {0, 4}
  LifeSafetyAlarmValues = {4}
  PreviousValue = 2
  Increment = 2
  Bitmask = 5
  UNREADABLE = UNREADABLE
  BAD = BAD
  NONE = NONE
  MaxInFlight = 1
  Targets = {"a", "b"}
  Samples = {0, 1}
  LogInterval = 2
  IntervalOffset = 1
  DayLength = 4
  Uptime = 1
  MaxCallbacks = 2
  NO_TARGET = NO_TARGET
  NEVER = NEVER
  LogSettings <- MCLogSettings
  Seasons <- MCSeasons
  CalendarEntries <- MCCalendarEntries
  ScheduleTargets = {"t1", "t2"}
  TimesOfDay = {0, 1, 2}
  Commands = {0, 4}
  UNSET = UNSET
  ANY = 255
  AuditSettings <- MCAuditSettings
  AuditLevels = {"none", "config"}
  BufferSizes = {0, 1, 2}
  EveryInstance = 4194303
  NOT_PAGING = NOT_PAGING
  FROM_START = FROM_START
  Clients = {"p", "q"}
  Files = {"x", "y"}
  Octets = {1, 2}
  ChunkSize = 1
  MaxSessions = 2
  MaintenanceSettings <- MCMaintenanceSettings
  NO_SESSION = NO_SESSION
\* Each of the behaviours is bounded: days, ticks, requests.
CHECK_DEADLOCK FALSE
INVARIANTS EventsShown LogExact ValueInForce KeptApart
PROPERTIES EventsWarranted RecordedOnce TrailComplete EnginesCatchUp
