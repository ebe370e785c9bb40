SPECIFICATION FairStreamSpec
CONSTANTS
  SessionType = "A2DP_SOFTWARE_ENCODING_DATAPATH"
  Hosts = {h1}
  Clients = {s1}
  LatencyModes = {}
  ObserversCookieSize = 1
  BinderThreads = {t1}
  MaxLinks = 1
  MaxAsked = 1
  NoHost = NoHost
  NoClient = NoClient
  NoConfig = NoConfig
  NoCookie = NoCookie
  NoThread = NoThread
  ParamThread = ParamThread
  StreamCalls = {"out_write"}
  DeviceCalls = {"A2dpSuspended=true"}
PROPERTY EveryStreamCallReturns
