SPECIFICATION StreamSpec
CONSTANTS
  SessionType = "A2DP_SOFTWARE_ENCODING_DATAPATH"
  Hosts = {h1}
  Clients = {s1}
  LatencyModes = {}
  ObserversCookieSize = 1
  BinderThreads = {t1, t2}
  MaxLinks = 1
  MaxAsked = 1
  NoHost = NoHost
  NoClient = NoClient
  NoConfig = NoConfig
  NoCookie = NoCookie
  NoThread = NoThread
  ParamThread = ParamThread
  StreamCalls = {"out_write", "out_standby", "closing"}
  DeviceCalls = {"A2dpSuspended=false"}
SYMMETRY SymmetricPool
INVARIANTS OneUserOfThePort ParametersReachLiveStreams StartedOnlyInSession
