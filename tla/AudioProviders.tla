---------------------------- MODULE AudioProviders ----------------------------
(***************************************************************************)
(* What the providers of every session type accept: the factory, the       *)
(* capabilities it reports, the startSession of each provider with its     *)
(* validation and its data queue, and the session that is told of it.      *)
(*                                                                         *)
(* Sessions of different types share nothing, so one type is followed; the *)
(* walks, locks and cookies of a session are BluetoothAudioSession's.      *)
(* An audio configuration has a tag and, under it, named fields.           *)
(***************************************************************************)
EXTENDS Integers, SessionTypes

CONSTANTS
  AudioConfigs,   \* arguments of startSession and updateAudioConfiguration
  NoAudioConfig   \* audio_config_ is null

ASSUME NoAudioConfigIsNone == NoAudioConfig \notin AudioConfigs

NoQueue == 0      \* data_mq_ is null; otherwise a queue is its size

LeSoftwareTypes ==
  { "LE_AUDIO_SOFTWARE_ENCODING_DATAPATH", "LE_AUDIO_SOFTWARE_DECODING_DATAPATH",
    "LE_AUDIO_BROADCAST_SOFTWARE_ENCODING_DATAPATH" }
HfpSoftwareTypes == { "HFP_SOFTWARE_ENCODING_DATAPATH", "HFP_SOFTWARE_DECODING_DATAPATH" }
HearingAidType   == "HEARING_AID_SOFTWARE_ENCODING_DATAPATH"
A2dpSoftwareTypes == SoftwareTypes \ (LeSoftwareTypes \cup HfpSoftwareTypes \cup { HearingAidType })
LeOffloadProviderTypes == LeUnicastOffloadTypes \cup { LeBroadcastOffloadType }

-----------------------------------------------------------------------------
(* BluetoothAudioCodecs: capabilities and the validity of configurations.  *)

SoftwarePcmCapabilities ==
  [ rate |-> { 8000, 16000, 24000, 32000, 44100, 48000, 88200, 96000 },
    mode |-> { "MONO", "STEREO" }, bits |-> { 16, 24, 32 } ]

OffloadSbcCapability ==
  [ rate |-> { 44100 }, mode |-> { "MONO", "JOINT_STEREO" }, blocks |-> { 4, 8, 12, 16 },
    subbands |-> { 8 }, alloc |-> { "ALLOC_MD_L" }, bits |-> { 16 },
    minBitpool |-> 2 .. 53, maxBitpool |-> 2 .. 53 ]

OffloadAacCapability ==
  [ object |-> { "MPEG2_LC" }, rate |-> { 44100 }, mode |-> { "STEREO" }, vbr |-> BOOLEAN,
    bits |-> { 16 } ]

OffloadLdacCapability ==
  [ rate |-> { 44100, 48000, 88200, 96000 }, mode |-> { "DUAL", "STEREO" },
    quality |-> { "HIGH" }, bits |-> { 16, 24, 32 } ]

OffloadAptxCapability   == [ rate |-> { 44100, 48000 }, mode |-> { "STEREO" }, bits |-> { 16 } ]
OffloadAptxHdCapability == [ rate |-> { 44100, 48000 }, mode |-> { "STEREO" }, bits |-> { 24 } ]

OffloadOpusCapability ==
  [ rate |-> { 48000 }, duration |-> { 10000, 20000 }, mode |-> { "MONO", "STEREO" } ]

Within(fields, capability) == \A f \in DOMAIN capability : fields[f] \in capability[f]

IsSoftwarePcmConfigurationValid(pcm) == Within(pcm, SoftwarePcmCapabilities)

IsOffloadSbcConfigurationValid(config) ==
  /\ config.specific = "sbcConfig"
  /\ Within(config.fields, OffloadSbcCapability)
  /\ config.fields.minBitpool <= config.fields.maxBitpool

IsOffloadAacConfigurationValid(config) ==
  config.specific = "aacConfig" /\ Within(config.fields, OffloadAacCapability)

IsOffloadLdacConfigurationValid(config) ==
  config.specific = "ldacConfig" /\ Within(config.fields, OffloadLdacCapability)

IsOffloadAptxConfigurationValid(config) ==
  config.specific = "aptxConfig" /\ Within(config.fields, OffloadAptxCapability)

IsOffloadAptxHdConfigurationValid(config) ==
  config.specific = "aptxConfig" /\ Within(config.fields, OffloadAptxHdCapability)

IsOffloadOpusConfigurationValid(config) ==
  config.specific = "opusConfig" /\ Within(config.fields, OffloadOpusCapability)

IsOffloadCodecConfigurationValid(type, config) ==
  /\ type \in A2dpOffloadTypes
  /\ CASE config.codec = "SBC"     -> IsOffloadSbcConfigurationValid(config)
       [] config.codec = "AAC"     -> IsOffloadAacConfigurationValid(config)
       [] config.codec = "LDAC"    -> IsOffloadLdacConfigurationValid(config)
       [] config.codec = "APTX"    -> IsOffloadAptxConfigurationValid(config)
       [] config.codec = "APTX_HD" -> IsOffloadAptxHdConfigurationValid(config)
       [] config.codec = "OPUS"    -> IsOffloadOpusConfigurationValid(config)
       [] OTHER                    -> FALSE

\* GetA2dpOffloadCodecCapabilities
A2dpOffloadCapabilities ==
  { [ codec |-> "SBC", capability |-> OffloadSbcCapability ],
    [ codec |-> "AAC", capability |-> OffloadAacCapability ],
    [ codec |-> "LDAC", capability |-> OffloadLdacCapability ],
    [ codec |-> "APTX", capability |-> OffloadAptxCapability ],
    [ codec |-> "APTX_HD", capability |-> OffloadAptxHdCapability ],
    [ codec |-> "OPUS", capability |-> OffloadOpusCapability ] }

\* getProviderCapabilities; those of an LE offload type are LeAudioCodecs'.
ProviderCapabilities(type) ==
  CASE type \in A2dpOffloadTypes       -> A2dpOffloadCapabilities
    [] type \in LeOffloadProviderTypes -> {}
    [] OTHER -> { [ codec |-> "PCM", capability |-> SoftwarePcmCapabilities ] }

-----------------------------------------------------------------------------
(* The data queues.                                                        *)

A2dpQueue       == 4 * 96 * 10 * 2
HearingAidQueue == 4 * 128 * 7 * 1

ChannelCount(mode) == CASE mode = "MONO" -> 1 [] mode = "STEREO" -> 2 [] OTHER -> 0

\* 24 bit audio stream is sent as unpacked
SampleBytes(bits) == IF bits = 24 THEN 4 ELSE bits \div 8

\* LeAudioSoftwareAudioProvider::startSession: whole milliseconds of the interval, twice.
LeQueueSize(pcm) ==
  (pcm.rate * ChannelCount(pcm.mode) * SampleBytes(pcm.bits) * (pcm.interval \div 1000) * 2) \div 1000

HfpQueueSize(pcm) == (2 * (pcm.bits \div 8) * (pcm.rate \div 1000) * pcm.interval) \div 1000

\* The narrow, wide and super wide band configurations of HFP.
IsHfpPcmValid(pcm) ==
  /\ IsSoftwarePcmConfigurationValid(pcm)
  /\ pcm.bits = 16 /\ pcm.rate \in { 8000, 16000, 32000 } /\ pcm.mode = "MONO" /\ pcm.interval = 7500

-----------------------------------------------------------------------------
VARIABLES
  type,      \* the session type
  provider,  \* the provider the stack has open: [ open, data_mq, audio_config, has_stack ]
  session,   \* its session: [ data_mq, audio_config, has_stack ]
  outcome    \* the last call of the stack and what it answered

providersVars == << type, provider, session, outcome >>

NoProvider == [ open |-> FALSE, data_mq |-> NoQueue, audio_config |-> NoAudioConfig, has_stack |-> FALSE ]
EmptySession == [ data_mq |-> NoQueue, audio_config |-> NoAudioConfig, has_stack |-> FALSE ]
Outcome(call, status) == [ call |-> call, status |-> status ]

ProvidersInit ==
  /\ type \in SoftwareTypes \cup OffloadTypes
  /\ provider = NoProvider
  /\ session = EmptySession
  /\ outcome = Outcome("none", "OK")

\* The constructor of the provider: two kinds have their queue from the start.
ConstructedQueue(allocated) ==
  CASE allocated /\ type \in A2dpSoftwareTypes -> A2dpQueue
    [] allocated /\ type = HearingAidType      -> HearingAidQueue
    [] OTHER                                   -> NoQueue

isValid(queue) == type \in A2dpSoftwareTypes \cup { HearingAidType } => queue # NoQueue

\* openProvider: every call makes a provider; the stack drops the one it had.
OpenProvider(allocated) ==
  /\ IF isValid(ConstructedQueue(allocated))
     THEN /\ provider' = [ NoProvider EXCEPT !.open = TRUE, !.data_mq = ConstructedQueue(allocated) ]
          /\ outcome' = Outcome("openProvider", "OK")
     ELSE /\ outcome' = Outcome("openProvider", "EX_ILLEGAL_ARGUMENT")
          /\ UNCHANGED provider
  /\ UNCHANGED << type, session >>

\* The validation of startSession, by provider.
Accepts(config) ==
  CASE type \in A2dpSoftwareTypes \cup { HearingAidType } ->
         config.tag = "pcmConfig" /\ IsSoftwarePcmConfigurationValid(config.fields)
    [] type \in LeSoftwareTypes ->
         /\ config.tag = "pcmConfig" /\ IsSoftwarePcmConfigurationValid(config.fields)
         /\ LeQueueSize(config.fields) > 0
    [] type \in HfpSoftwareTypes ->
         config.tag = "pcmConfig" /\ IsHfpPcmValid(config.fields)
    [] type \in A2dpOffloadTypes ->
         \/ config.tag = "a2dp" /\ config.codec \in { "SBC", "AAC" } /\ config.parsed = "OK"
         \/ config.tag = "a2dpConfig" /\ IsOffloadCodecConfigurationValid(type, config)
    [] type = LeBroadcastOffloadType    -> config.tag = "leAudioBroadcastConfig"
    [] type \in LeUnicastOffloadTypes   -> config.tag = "leAudioConfig"
    [] type = HfpOffloadType            -> config.tag = "hfpConfig"

\* Mutant of StartQueue: a queue that is there is kept.
StartQueue_Kept(config, allocated) ==
  IF provider.data_mq # NoQueue THEN provider.data_mq
  ELSE CASE type \in LeSoftwareTypes  -> IF allocated THEN LeQueueSize(config.fields) ELSE NoQueue
         [] type \in HfpSoftwareTypes -> IF allocated THEN HfpQueueSize(config.fields) ELSE NoQueue
         [] OTHER                     -> NoQueue

\* The queue of an accepted configuration: of its size, or the one of the constructor.
StartQueue(config, allocated) ==
  CASE type \in LeSoftwareTypes  -> IF allocated THEN LeQueueSize(config.fields) ELSE NoQueue
    [] type \in HfpSoftwareTypes -> IF allocated THEN HfpQueueSize(config.fields) ELSE NoQueue
    [] OTHER                     -> provider.data_mq

NeedsQueue == type \in SoftwareTypes

\* BluetoothAudioSession::OnSessionStarted
OnSessionStarted(config, queue) ==
  session' = IF config.tag \notin TagsOf(type) THEN session
             ELSE IF NeedsQueue /\ queue = NoQueue
             THEN [ session EXCEPT !.audio_config = NoAudioConfig, !.data_mq = NoQueue ]
             ELSE [ data_mq |-> queue, audio_config |-> config, has_stack |-> TRUE ]

\* startSession: the queue is made before the base class looks at the port of the stack.
StartSession(config, has_host, allocated) ==
  LET queue == StartQueue(config, allocated)
      fails == Accepts(config) => type \in LeSoftwareTypes \cup HfpSoftwareTypes /\ queue = NoQueue
  IN  /\ provider.open
      /\ \/ /\ fails
            /\ outcome' = Outcome("startSession", "EX_ILLEGAL_ARGUMENT")
            /\ UNCHANGED << provider, session >>
         \/ /\ ~fails /\ ~has_host
            /\ provider' = [ provider EXCEPT !.data_mq = queue ]
            /\ outcome' = Outcome("startSession", "EX_ILLEGAL_ARGUMENT")
            /\ UNCHANGED session
         \/ /\ ~fails /\ has_host
            /\ provider' = [ provider EXCEPT !.data_mq = queue, !.audio_config = config,
                                             !.has_stack = TRUE ]
            /\ OnSessionStarted(config, queue)
            /\ outcome' = Outcome("startSession", "OK")
      /\ UNCHANGED type

\* endSession
EndSession ==
  /\ provider.open
  /\ session' = IF provider.has_stack THEN EmptySession ELSE session
  /\ provider' = [ provider EXCEPT !.audio_config = NoAudioConfig, !.has_stack = FALSE ]
  /\ outcome' = Outcome("endSession", "OK")
  /\ UNCHANGED type

\* BluetoothAudioSession::ReportAudioConfigChanged
ReportAudioConfigChanged(config) ==
  session' = IF type \in LeUnicastOffloadTypes /\ config.tag = "leAudioConfig"
             THEN [ session EXCEPT !.audio_config = config ] ELSE session

\* updateAudioConfiguration validates no more than the tag.
UpdateAudioConfiguration(config) ==
  /\ provider.open
  /\ IF /\ provider.has_stack
        /\ provider.audio_config # NoAudioConfig /\ config.tag = provider.audio_config.tag
     THEN /\ provider' = [ provider EXCEPT !.audio_config = config ]
          /\ ReportAudioConfigChanged(config)
          /\ outcome' = Outcome("updateAudioConfiguration", "OK")
     ELSE /\ outcome' = Outcome("updateAudioConfiguration", "EX_ILLEGAL_ARGUMENT")
          /\ UNCHANGED << provider, session >>
  /\ UNCHANGED type

\* The process of the stack dies while a provider of its is linked: the session ends, the
\* provider object is dropped with the stack's last reference.
StackDies ==
  /\ provider.has_stack
  /\ session' = EmptySession
  /\ provider' = NoProvider
  /\ outcome' = Outcome("none", "OK")
  /\ UNCHANGED type

\* The calls a provider does not implement leave everything as it is.  Those of LE audio offload
\* are LeAudioOffload's, and so is the answer of its onSinkAseMetadataChanged.
UnsupportedCall ==
  /\ provider.open
  /\ \/ /\ type \notin LeOffloadProviderTypes
        /\ outcome' = Outcome("LE audio call", "EX_UNSUPPORTED_OPERATION")
     \/ /\ type \notin A2dpOffloadTypes
        /\ outcome' = Outcome("A2DP call", "EX_ILLEGAL_ARGUMENT")
  /\ UNCHANGED << type, provider, session >>

ProvidersNext ==
  \/ \E allocated \in BOOLEAN : OpenProvider(allocated)
  \/ \E config \in AudioConfigs, has_host, allocated \in BOOLEAN : StartSession(config, has_host, allocated)
  \/ EndSession
  \/ \E config \in AudioConfigs : UpdateAudioConfiguration(config)
  \/ StackDies
  \/ UnsupportedCall

ProvidersSpec == ProvidersInit /\ [][ProvidersNext]_providersVars

-----------------------------------------------------------------------------
(* Properties.                                                             *)

SessionReady ==
  session.has_stack /\ session.audio_config # NoAudioConfig /\ (NeedsQueue => session.data_mq # NoQueue)

\* The configuration is one of those getProviderCapabilities reports.
Reported(config) ==
  config.tag \in { "pcmConfig", "a2dpConfig" } =>
    \E c \in ProviderCapabilities(type) :
      /\ config.tag = "a2dpConfig" => c.codec = config.codec
      /\ Within(config.fields, c.capability)

\* What a provider takes its session takes: startSession answers OK although the answer of
\* onSessionReady is dropped, so every configuration the validation of a provider lets through
\* must be one UpdateAudioConfig of the session takes, with the queue the session needs; and it is
\* one getProviderCapabilities reported, the validity checks and the tables agreeing.
StartedSessionIsReady ==
  outcome = Outcome("startSession", "OK") =>
    /\ SessionReady /\ session.audio_config = provider.audio_config
    /\ Reported(session.audio_config)

\* The queue a ready session reads and writes is the one made for its configuration, not that of
\* an earlier or a failed startSession.
QueueMatchesConfig ==
  SessionReady =>
    session.data_mq =
      CASE type \in LeSoftwareTypes   -> LeQueueSize(session.audio_config.fields)
        [] type \in HfpSoftwareTypes  -> HfpQueueSize(session.audio_config.fields)
        [] type \in A2dpSoftwareTypes -> A2dpQueue
        [] type = HearingAidType      -> HearingAidQueue
        [] OTHER                      -> NoQueue
==============================================================================
