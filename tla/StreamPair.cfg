SPECIFICATION StreamSpec
CONSTANTS
  SessionType = "LE_AUDIO_SOFTWARE_ENCODING_DATAPATH"
  Hosts = {h1}
  Clients = {s1, s2}
  LatencyModes = {}
  ObserversCookieSize = 2
  BinderThreads = {t1}
  MaxLinks = 1
  MaxAsked = 1
  NoHost = NoHost
  NoClient = NoClient
  NoConfig = NoConfig
  NoCookie = NoCookie
  NoThread = NoThread
  ParamThread = ParamThread
  StreamCalls = {"out_resume"}
  DeviceCalls = {}
SYMMETRY Symmetric
INVARIANTS CallbacksFindTheirPort
CHECK_DEADLOCK FALSE
