SPECIFICATION NegotiationSpec
CONSTANTS
  RemoteLists <- MCRemoteLists
  Hints <- MCHints
  NoBit = NoBit
  NoFile = NoFile
  Missing = Missing
  NoList = NoList
  NoQos = NoQos
  Files <- MCFiles
  Content <- MCContent
  AseAsks <- MCAseAsks
  BroadcastCaps <- MCBroadcastCaps
  CodecIds = {"LC3", "VENDOR"}
  NoAudioConfig = NoAudioConfig
  AudioConfigs <- MCAudioConfigs
  HidlTypes <- MCHidlTypes
  HidlPorts = {"p1", "p2"}
  HidlCookieSize = 2
INVARIANTS
  NegotiatedIsAccepted BestCodecChosen HintedRateKept
  CapabilitiesAreTheFiles AnswerIsWhatFits
  StartedSessionIsReady QueueMatchesConfig LegacyPortAgrees LegacyConfigIsValid
  HidlConfigOfSession LegacyStartedOnlyInSession
PROPERTIES
  HidlImplementsContract
CHECK_DEADLOCK FALSE
