SPECIFICATION PathSpec
CONSTANTS
  SessionType = "LE_AUDIO_SOFTWARE_ENCODING_DATAPATH"
  Hosts = {h1}
  Clients = {c1, c2, c3}
  LatencyModes = {"FREE", "LOW_LATENCY"}
  ObserversCookieSize = 2
  NoHost = NoHost
  NoClient = NoClient
  NoConfig = NoConfig
  NoCookie = NoCookie
  FrameSize = 4
  MqSize = 6
  WriteSizes = {4, 8}
  Polls = 2
  MaxWrites = 2
  InTimeout = 2
  TimeoutValues = 8
  InFrameSize = 2
  InMqSize = 2
  ReadSizes = {4}
  ReadPolls = 1
  Latencies = {1}
  Reports = {0, 2, 3}
  MaxReads = 2
  MajorVersions = {5, 7}
  QueueSize = 2
  MaxRead = 3
  NoCommand = NoCommand
  NoStatus = NoStatus
INVARIANTS CookiesMatch WalkVisitsRegistered ReadyOnlyIfAnnounced ShortOnlyAfterTimeout ThreadInsideStream
PROPERTIES ImplementsContract CoreImplementsContract WriteReturns InReturns CommandIsAnswered StreamIsFreed
CHECK_DEADLOCK FALSE
