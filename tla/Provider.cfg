SPECIFICATION FairProviderSpec
CONSTANTS
  SessionType = "LE_AUDIO_HARDWARE_OFFLOAD_ENCODING_DATAPATH"
  Hosts = {h1, h2}
  Clients = {c1}
  LatencyModes = {}
  ObserversCookieSize = 1
  BinderThreads = {t1, t2}
  MaxLinks = 1
  NoHost = NoHost
  NoClient = NoClient
  NoConfig = NoConfig
  NoCookie = NoCookie
  NoThread = NoThread
INVARIANTS SessionCanBeEnded OffloadSessionWhole
PROPERTIES DeadStackIsForgotten
