SPECIFICATION SessionSpec
CONSTANTS
  SessionType = "LE_AUDIO_SOFTWARE_ENCODING_DATAPATH"
  Hosts = {h1}
  Clients = {c1, c2, c3}
  LatencyModes = {"FREE", "LOW_LATENCY"}
  ObserversCookieSize = 2
  NoHost = NoHost
  NoClient = NoClient
  NoConfig = NoConfig
  NoCookie = NoCookie
PROPERTIES EndIsReported

