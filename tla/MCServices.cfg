SPECIFICATION Spec
CONSTANTS
  Missing = Missing
  PresentValues = {0, 4, 5}
  HighLimit = 5
  LowLimit = 0
  Deadband = 1
  TimeDelay = 2
  TimeDelayNormal = 1
  NoState = NoState
  MaxElapsed = 3
  MaxEntries = 2
  LogWriters = {tick, trigger}
  BufferSizes = {1, 2}
  NoLog = NoLog
  MaxTotal = 3
  MaxLogEdits = 1
  Caps = {1, 2}
  Nothing = Nothing
  MaxSteps = 2
  MaxTakes = 3
  MaxCapEdits = 1
  MaxTransport = 2
  MaxRebuilds = 1
  Sample <- SampleProject
  NoProjectRow = NoProjectRow
  MaxProjectEdits = 4
  Units = {u1, u2}
  RegisterTypes = {"holding"}
  plant = plant
  spare = spare
  Profiles = {plant, spare}
  Points <- SamplePoints
  ClientValues = {written}
  NoValue = NoValue
  MaxRoutes = 2
  EnergyCallers = {"tick", "route"}
  EnergyKeys = {"boiler", "chiller"}
  IsBoiler <- SampleBoilers
  RatedInputs = {4, 8}
  RunningPercent = 50
  EfficiencyPercent = 80
  PlantReadings <- SamplePlant
  NoReading = NoReading
  NoEnergyConfig = NoEnergyConfig
  Elapsed = {1}
  MaxCalls = 2
  MaxEnergyEdits = 2
  MaxModels = 2
  Requests = {r1, r2}
  InputVariables = {"x"}
  OutputVariables = {"y"}
  RequiredInputs = {"x"}
  AnalogPoints = {"p", "q"}
  OtherPoints = {"b"}
  ExternalPoints = {"z"}
  Payloads <- SampleBodies
  NoMappingRequest = NoMappingRequest
  NoModel = NoModel
  MaxSaves = 2
  d1 = d1
  d2 = d2
  o1 = o1
  o2 = o2
  Locations = {l1, l2}
  Devices = {d1, d2}
  Objects = {o1, o2}
  Equipment = {q1}
  HostOf <- SampleHost
  Imported = {d2}
  Classes = {"A", "B"}
  NoPlace = NoPlace
  NoClass = NoClass
  SiteAtStart = {l1}
  Callers = {c1, c2}
  Idle = Idle
  MaxEntities = 2
  MaxSiteEdits = 3
  Modelled = {"a", "b", "c"}
  Outputs = {1, 2, 3}
  Wirings <- SampleWirings
  Served = {1, 2}
  Nobody = Nobody
  MaxTicks = 2
  MaxRegistrations = 3
  ScheduleIds = {s1}
  CalendarIds = {c1, c2}
  CalendarNames = {"x"}
  Dates = {1}
  Targets = {p1}
  Editors = {e1}
  NoRow = NoRow
  NoTask = NoTask
  MaxScheduleEdits = 3
  Peers = {a1, a2}
  Incoming <- SampleIncoming
  Outgoing <- SampleOutgoing
  MaxPackets = 2
  MaxPayload = 1
  Known = {"p1", "d1"}
  Absent = Absent
  MaxTraffic = 3
  MaxStamp = 2
  MaxCaptures = 2
  Numbers = {0, 2}
  States = 2
  PointWriters = {w1, w2}
  Commanded = 8
  Least = 16
  Unset = Unset
  MaxPointEdits = 2
  MaxPointTicks = 2
  Hosts = {h1, h2}
  Externals = {"d1"}
  Twins = {t1}
  TwinSource <- SampleSource
  FieldPoints = {fp1}
  Values = {1, 2}
  OwnValue = 0
  NoAnswer = NoAnswer
  MaxFieldEdits = 1
  MaxInquiries = 1
  MaxPasses = 2
  MaxTwinTicks = 1
INVARIANTS
  NoContradiction LosingAPointAddsNoFault LogTellsState SequenceNeverReused PlaysInOrder RestoredAsSaved
  HeldWritesStay NeverOvercharged OneWriterPerPoint ClassesAgree EarlierIsSeen SchedulesAreCurrent
  CaptureAddsUp AnswersKeepTheirRequest
  WrittenIsServed TwinsFollow
PROPERTIES
  TransitionEarned KeepsAlarmLog
CHECK_DEADLOCK FALSE
