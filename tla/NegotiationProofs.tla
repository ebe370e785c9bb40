--------------------------- MODULE NegotiationProofs ---------------------------
(***************************************************************************)
(* What a stack negotiates with the providers, for any configurations,     *)
(* files and capabilities: a session that startSession answered OK for is  *)
(* ready, with the queue of its configuration; what the HIDL clients are   *)
(* shown of it; the codec capabilities the static variables remember; that *)
(* the ASE configurations answered are those that fit; and that an A2DP    *)
(* offload negotiation picks the best codec, answers a configuration that  *)
(* is taken back and keeps to the bit rate hinted.                         *)
(***************************************************************************)
EXTENDS A2dpOffload, LeAudioOffload, LegacyView, FiniteSetTheorems, WellFoundedInduction, TLAPS

-----------------------------------------------------------------------------
(* The providers of every session type.                                    *)

Queues ==
  { NoQueue, A2dpQueue, HearingAidQueue }
    \cup { LeQueueSize(config.fields) : config \in AudioConfigs }
    \cup { HfpQueueSize(config.fields) : config \in AudioConfigs }

\* The values the variables of the providers range over.
ProvidersTypeOK ==
  /\ type \in SoftwareTypes \cup OffloadTypes
  /\ provider \in [ open : BOOLEAN, data_mq : Queues, audio_config : AudioConfigs \cup { NoAudioConfig },
                    has_stack : BOOLEAN ]
  /\ session \in [ data_mq : Queues, audio_config : AudioConfigs \cup { NoAudioConfig }, has_stack : BOOLEAN ]

\* A provider that is open has the queue of its constructor, if its kind makes one, to its end.
OpenHasQueue ==
  provider.open /\ type \in A2dpSoftwareTypes \cup { HearingAidType } => provider.data_mq = ConstructedQueue(TRUE)

\* Only software sessions are ever given a queue.
OffloadHasNoQueue ==
  type \in OffloadTypes => (provider.open => provider.data_mq = NoQueue) /\ session.data_mq = NoQueue

\* A session holds a configuration its provider lets through.
SessionConfigAccepted == session.audio_config # NoAudioConfig => Accepts(session.audio_config)

\* The inductive invariant of the providers of a type and its session.
ProvidersInv ==
  /\ ProvidersTypeOK
  /\ OpenHasQueue
  /\ OffloadHasNoQueue
  /\ SessionConfigAccepted
  /\ QueueMatchesConfig
  /\ StartedSessionIsReady
\* The type is of one kind, and of no other.
LEMMA TypeKinds ==
  ASSUME type \in SoftwareTypes \cup OffloadTypes
  PROVE  /\ type \in SoftwareTypes <=> type \notin OffloadTypes
         /\ type \in SoftwareTypes
              <=> \/ type \in A2dpSoftwareTypes \/ type = HearingAidType
                  \/ type \in LeSoftwareTypes \/ type \in HfpSoftwareTypes
         /\ type \in A2dpSoftwareTypes =>
              type # HearingAidType /\ type \notin LeSoftwareTypes /\ type \notin HfpSoftwareTypes
         /\ type = HearingAidType => type \notin LeSoftwareTypes /\ type \notin HfpSoftwareTypes
         /\ type \in LeSoftwareTypes => type \notin HfpSoftwareTypes
         /\ type \in OffloadTypes
              <=> \/ type \in A2dpOffloadTypes \/ type \in LeUnicastOffloadTypes
                  \/ type = LeBroadcastOffloadType \/ type = HfpOffloadType
         /\ type \in A2dpOffloadTypes =>
              type \notin LeUnicastOffloadTypes /\ type # LeBroadcastOffloadType /\ type # HfpOffloadType
         /\ type \in LeUnicastOffloadTypes => type # LeBroadcastOffloadType /\ type # HfpOffloadType
         /\ type = LeBroadcastOffloadType => type # HfpOffloadType
  BY DEF SoftwareTypes, OffloadTypes, A2dpOffloadTypes, LeUnicastOffloadTypes, LeBroadcastOffloadType,
         HfpOffloadType, LeSoftwareTypes, HfpSoftwareTypes, HearingAidType, A2dpSoftwareTypes

\* What a configuration that is accepted is, by the kind of the type.
LEMMA AcceptedBySoftware ==
  ASSUME type \in SoftwareTypes, NEW config, Accepts(config)
  PROVE  /\ config.tag = "pcmConfig" /\ IsSoftwarePcmConfigurationValid(config.fields)
         /\ type \in LeSoftwareTypes => LeQueueSize(config.fields) > 0
         /\ type \in HfpSoftwareTypes => IsHfpPcmValid(config.fields)
  <1>1. CASE type \in A2dpSoftwareTypes \cup { HearingAidType }
    BY <1>1, TypeKinds DEF Accepts
  <1>2. CASE type \in LeSoftwareTypes
    BY <1>2, TypeKinds DEF Accepts
  <1>3. CASE type \in HfpSoftwareTypes
    <2>1. /\ type \notin A2dpSoftwareTypes \cup { HearingAidType } /\ type \notin LeSoftwareTypes
          /\ type \notin A2dpOffloadTypes /\ type # LeBroadcastOffloadType /\ type \notin LeUnicastOffloadTypes
          /\ type # HfpOffloadType
      BY <1>3, TypeKinds
    <2>2. Accepts(config) <=> config.tag = "pcmConfig" /\ IsHfpPcmValid(config.fields)
      BY <2>1, <1>3 DEF Accepts
    <2>3. IsHfpPcmValid(config.fields)
      BY <2>2
    <2> QED BY <2>1, <2>2, <2>3 DEF IsHfpPcmValid
  <1> QED BY <1>1, <1>2, <1>3, TypeKinds

LEMMA AcceptedByA2dpOffload ==
  ASSUME type \in A2dpOffloadTypes, NEW config, Accepts(config)
  PROVE  /\ config.tag \in { "a2dp", "a2dpConfig" }
         /\ config.tag = "a2dpConfig" => IsOffloadCodecConfigurationValid(type, config)
  <1>1. type \in OffloadTypes
    BY DEF OffloadTypes
  <1>2. /\ type \notin A2dpSoftwareTypes \cup { HearingAidType } /\ type \notin LeSoftwareTypes
        /\ type \notin HfpSoftwareTypes /\ type # LeBroadcastOffloadType /\ type \notin LeUnicastOffloadTypes
        /\ type # HfpOffloadType
    BY <1>1, TypeKinds
  <1>3. Accepts(config) <=> \/ config.tag = "a2dp" /\ config.codec \in { "SBC", "AAC" } /\ config.parsed = "OK"
                            \/ config.tag = "a2dpConfig" /\ IsOffloadCodecConfigurationValid(type, config)
    BY <1>2 DEF Accepts
  <1>4. config.tag \in { "a2dp", "a2dpConfig" }
    BY <1>3
  <1>5. ASSUME config.tag = "a2dpConfig" PROVE IsOffloadCodecConfigurationValid(type, config)
    BY <1>3, <1>5
  <1> QED BY <1>4, <1>5

LEMMA AcceptedByOtherOffload ==
  ASSUME type \in OffloadTypes \ A2dpOffloadTypes, NEW config
  PROVE  Accepts(config) <=> config.tag \in TagsOf(type)
  BY TypeKinds DEF Accepts, TagsOf

\* The session takes the tags its provider accepts.
LEMMA AcceptedTag ==
  ASSUME type \in SoftwareTypes \cup OffloadTypes, NEW config, Accepts(config)
  PROVE  config.tag \in TagsOf(type)
  <1>1. CASE type \in SoftwareTypes
    BY <1>1, AcceptedBySoftware, TypeKinds DEF TagsOf
  <1>2. CASE type \in A2dpOffloadTypes
    BY <1>2, AcceptedByA2dpOffload, TypeKinds DEF TagsOf
  <1> QED BY <1>1, <1>2, AcceptedByOtherOffload

\* What a provider accepts lies within one of the capabilities reported for its type.
LEMMA AcceptedIsReported ==
  ASSUME type \in SoftwareTypes \cup OffloadTypes, NEW config, Accepts(config)
  PROVE  Reported(config)
  <1>1. CASE type \in SoftwareTypes
    <2>1. config.tag = "pcmConfig" /\ IsSoftwarePcmConfigurationValid(config.fields)
      BY <1>1, AcceptedBySoftware
    <2>2. ProviderCapabilities(type) = { [ codec |-> "PCM", capability |-> SoftwarePcmCapabilities ] }
      BY <1>1, TypeKinds DEF ProviderCapabilities, LeOffloadProviderTypes
    <2> QED BY <2>1, <2>2 DEF Reported, IsSoftwarePcmConfigurationValid
  <1>2. CASE type \in A2dpOffloadTypes
    <2>1. config.tag \in { "a2dp", "a2dpConfig" }
      BY <1>2, AcceptedByA2dpOffload
    <2>2. ProviderCapabilities(type) = A2dpOffloadCapabilities
      BY <1>2, TypeKinds DEF ProviderCapabilities, LeOffloadProviderTypes
    <2>3. CASE config.tag = "a2dp"
      BY <2>3 DEF Reported
    <2>4. CASE config.tag = "a2dpConfig"
      <3> IsOffloadCodecConfigurationValid(type, config)
        BY <1>2, <2>4, AcceptedByA2dpOffload
      <3>1. \E c \in A2dpOffloadCapabilities : c.codec = config.codec /\ Within(config.fields, c.capability)
        BY <2>4 DEF A2dpOffloadCapabilities, IsOffloadCodecConfigurationValid, IsOffloadSbcConfigurationValid,
             IsOffloadAacConfigurationValid, IsOffloadLdacConfigurationValid, IsOffloadAptxConfigurationValid,
             IsOffloadAptxHdConfigurationValid, IsOffloadOpusConfigurationValid
      <3> QED BY <3>1, <2>2, <2>4 DEF Reported
    <2> QED BY <2>1, <2>3, <2>4
  <1>3. CASE type \in OffloadTypes \ A2dpOffloadTypes
    <2>1. config.tag \in TagsOf(type)
      BY AcceptedTag
    <2>2. TagsOf(type) \cap { "pcmConfig", "a2dpConfig" } = {}
      BY <1>3, TypeKinds DEF TagsOf
    <2> QED BY <2>1, <2>2 DEF Reported
  <1> QED BY <1>1, <1>2, <1>3, TypeKinds

\* The queue of a session that holds a configuration.
ConfigQueue(config) ==
  CASE type \in LeSoftwareTypes   -> LeQueueSize(config.fields)
    [] type \in HfpSoftwareTypes  -> HfpQueueSize(config.fields)
    [] type \in A2dpSoftwareTypes -> A2dpQueue
    [] type = HearingAidType      -> HearingAidQueue
    [] OTHER                      -> NoQueue

\* The queues of the constructors.
LEMMA ConstructedQueues ==
  ASSUME type \in SoftwareTypes \cup OffloadTypes, NEW allocated \in BOOLEAN
  PROVE  /\ ConstructedQueue(allocated) \in Queues
         /\ type \in A2dpSoftwareTypes \cup { HearingAidType } /\ allocated =>
              ConstructedQueue(allocated) = ConfigQueue(NoAudioConfig) /\ ConstructedQueue(allocated) # NoQueue
         /\ type \in A2dpSoftwareTypes \cup { HearingAidType } /\ ~allocated =>
              ConstructedQueue(allocated) = NoQueue
         /\ type \notin A2dpSoftwareTypes \cup { HearingAidType } => ConstructedQueue(allocated) = NoQueue
  <1>1. A2dpQueue # NoQueue /\ HearingAidQueue # NoQueue
    BY DEF A2dpQueue, HearingAidQueue, NoQueue
  <1>2. CASE type \in A2dpSoftwareTypes /\ allocated
    BY <1>1, <1>2, TypeKinds DEF ConstructedQueue, ConfigQueue, Queues
  <1>3. CASE type = HearingAidType /\ allocated
    BY <1>1, <1>3, TypeKinds DEF ConstructedQueue, ConfigQueue, Queues
  <1>4. CASE ~allocated
    BY <1>4, TypeKinds DEF ConstructedQueue, Queues
  <1>5. CASE type \notin A2dpSoftwareTypes \cup { HearingAidType }
    <2>1. ConstructedQueue(allocated) = NoQueue
      BY <1>5, TypeKinds DEF ConstructedQueue
    <2> QED BY <1>5, <2>1 DEF Queues
  <1> QED BY <1>2, <1>3, <1>4, <1>5

\* What startSession has made when it goes on to the base class: the queue of the configuration.
LEMMA StartQueues ==
  ASSUME ProvidersInv, provider.open, NEW config \in AudioConfigs, NEW allocated \in BOOLEAN,
         StartQueue(config, allocated) # NoQueue \/ type \notin LeSoftwareTypes \cup HfpSoftwareTypes
  PROVE  /\ StartQueue(config, allocated) = ConfigQueue(config)
         /\ StartQueue(config, allocated) \in Queues
         /\ type \in A2dpSoftwareTypes \cup { HearingAidType } => StartQueue(config, allocated) = provider.data_mq
         /\ type \in SoftwareTypes => StartQueue(config, allocated) # NoQueue
         /\ type \in OffloadTypes => StartQueue(config, allocated) = NoQueue
  <1> USE DEF ProvidersInv
  <1>1. type \in SoftwareTypes \cup OffloadTypes /\ provider.data_mq \in Queues
    BY DEF ProvidersTypeOK
  <1>2. CASE type \in LeSoftwareTypes
    <2>1. allocated /\ StartQueue(config, allocated) = LeQueueSize(config.fields)
      BY <1>1, <1>2, TypeKinds DEF StartQueue
    <2>2. LeQueueSize(config.fields) \in Queues
      BY DEF Queues
    <2> QED BY <1>1, <1>2, <2>1, <2>2, TypeKinds DEF ConfigQueue
  <1>3. CASE type \in HfpSoftwareTypes
    <2>1. allocated /\ StartQueue(config, allocated) = HfpQueueSize(config.fields)
      BY <1>1, <1>3, TypeKinds DEF StartQueue
    <2>2. HfpQueueSize(config.fields) \in Queues
      BY DEF Queues
    <2> QED BY <1>1, <1>3, <2>1, <2>2, TypeKinds DEF ConfigQueue
  <1>4. CASE type \in A2dpSoftwareTypes \cup { HearingAidType }
    <2>1. StartQueue(config, allocated) = provider.data_mq
      BY <1>1, <1>4, TypeKinds DEF StartQueue
    <2>2. provider.data_mq = ConstructedQueue(TRUE)
      BY <1>4 DEF OpenHasQueue
    <2>3. ConstructedQueue(TRUE) = ConfigQueue(NoAudioConfig) /\ ConstructedQueue(TRUE) # NoQueue
      BY <1>1, <1>4, ConstructedQueues
    <2>4. ConfigQueue(NoAudioConfig) = ConfigQueue(config)
      BY <1>1, <1>4, TypeKinds DEF ConfigQueue
    <2> QED BY <1>1, <1>4, <2>1, <2>2, <2>3, <2>4, TypeKinds
  <1>5. CASE type \in OffloadTypes
    <2>1. StartQueue(config, allocated) = provider.data_mq
      BY <1>1, <1>5, TypeKinds DEF StartQueue
    <2>2. provider.data_mq = NoQueue
      BY <1>5 DEF OffloadHasNoQueue
    <2>3. ConfigQueue(config) = NoQueue
      BY <1>1, <1>5, TypeKinds DEF ConfigQueue
    <2> QED BY <1>1, <1>5, <2>1, <2>2, <2>3, TypeKinds
  <1> QED BY <1>1, <1>2, <1>3, <1>4, <1>5, TypeKinds

-----------------------------------------------------------------------------
(* The steps.                                                              *)

LEMMA ProvidersStart == ProvidersInit => ProvidersInv
  BY DEF ProvidersInit, ProvidersInv, ProvidersTypeOK, OpenHasQueue, OffloadHasNoQueue, SessionConfigAccepted,
         QueueMatchesConfig, StartedSessionIsReady, NoProvider, EmptySession, Outcome, SessionReady, Queues

\* The parts that only speak of the session and the type hold on when neither changes.
LEMMA SessionKept ==
  ASSUME ProvidersInv, UNCHANGED << type, session >>
  PROVE  SessionConfigAccepted' /\ QueueMatchesConfig'
  <1>1. \A config : Accepts(config)' = Accepts(config)
    BY DEF Accepts, IsOffloadCodecConfigurationValid
  <1>2. SessionConfigAccepted'
    BY <1>1 DEF ProvidersInv, SessionConfigAccepted
  <1>3. QueueMatchesConfig'
    BY DEF ProvidersInv, QueueMatchesConfig, SessionReady, NeedsQueue
  <1> QED BY <1>2, <1>3

\* A session without a configuration is held to nothing.
LEMMA SessionEmptied ==
  ASSUME session'.audio_config = NoAudioConfig
  PROVE  SessionConfigAccepted' /\ QueueMatchesConfig'
  BY DEF SessionConfigAccepted, QueueMatchesConfig, SessionReady

LEMMA NotJustStarted ==
  ASSUME outcome'.call # "startSession" \/ outcome'.status # "OK"
  PROVE  StartedSessionIsReady'
  BY DEF StartedSessionIsReady, Outcome

LEMMA OpenProviderKeeps ==
  ASSUME ProvidersInv, NEW allocated \in BOOLEAN, OpenProvider(allocated)
  PROVE  ProvidersInv'
  <1> USE DEF ProvidersInv
  <1>1. type \in SoftwareTypes \cup OffloadTypes /\ type' = type /\ session' = session
    BY DEF ProvidersTypeOK, OpenProvider
  <1>2. SessionConfigAccepted' /\ QueueMatchesConfig'
    BY <1>1, SessionKept
  <1>3. outcome'.call = "openProvider"
    BY DEF OpenProvider, Outcome
  <1>4. StartedSessionIsReady'
    BY <1>3, NotJustStarted
  <1>5. ConstructedQueue(allocated) \in Queues /\ NoQueue \in Queues
    BY <1>1, ConstructedQueues DEF Queues
  <1>6. \/ provider' = provider
        \/ /\ isValid(ConstructedQueue(allocated))
           /\ provider' = [ open |-> TRUE, data_mq |-> ConstructedQueue(allocated),
                            audio_config |-> NoAudioConfig, has_stack |-> FALSE ]
    BY DEF OpenProvider, NoProvider
  <1>7. ProvidersTypeOK'
    <2>1. CASE provider' = provider
      BY <2>1, <1>1 DEF ProvidersTypeOK, Queues
    <2>2. CASE provider' = [ open |-> TRUE, data_mq |-> ConstructedQueue(allocated),
                             audio_config |-> NoAudioConfig, has_stack |-> FALSE ]
      <3>1. provider' \in [ open : BOOLEAN, data_mq : Queues, audio_config : AudioConfigs \cup { NoAudioConfig },
                            has_stack : BOOLEAN ]
        BY <2>2, <1>5
      <3> QED BY <3>1, <1>1 DEF ProvidersTypeOK, Queues
    <2> QED BY <2>1, <2>2, <1>6
  <1>8. ConstructedQueue(TRUE)' = ConstructedQueue(TRUE)
    BY <1>1 DEF ConstructedQueue
  <1>9. OpenHasQueue'
    <2>1. CASE provider' = provider
      BY <2>1, <1>1, <1>8 DEF OpenHasQueue
    <2>2. ASSUME isValid(ConstructedQueue(allocated)), type \in A2dpSoftwareTypes \cup { HearingAidType }
          PROVE  ConstructedQueue(allocated) = ConstructedQueue(TRUE)
      <3>1. allocated = TRUE
        BY <2>2, <1>1, ConstructedQueues DEF isValid
      <3> QED BY <3>1
    <2>3. CASE /\ isValid(ConstructedQueue(allocated))
               /\ provider' = [ open |-> TRUE, data_mq |-> ConstructedQueue(allocated),
                                audio_config |-> NoAudioConfig, has_stack |-> FALSE ]
      <3>1. provider'.data_mq = ConstructedQueue(allocated)
        BY <2>3
      <3>2. type \in A2dpSoftwareTypes \cup { HearingAidType } => ConstructedQueue(allocated) = ConstructedQueue(TRUE)
        BY <2>2, <2>3
      <3> QED BY <3>1, <3>2, <1>1, <1>8 DEF OpenHasQueue
    <2> QED BY <2>1, <2>3, <1>6
  <1>10. OffloadHasNoQueue'
    <2>1. type \in OffloadTypes => ConstructedQueue(allocated) = NoQueue
      BY <1>1, ConstructedQueues, TypeKinds
    <2> QED BY <2>1, <1>1, <1>6 DEF OffloadHasNoQueue
  <1> QED BY <1>2, <1>4, <1>7, <1>9, <1>10

\* OnSessionStarted of an accepted configuration, with the queue startSession has made.
LEMMA SessionStarted ==
  ASSUME ProvidersInv, provider.open, NEW config \in AudioConfigs, NEW allocated \in BOOLEAN,
         Accepts(config), type' = type,
         StartQueue(config, allocated) # NoQueue \/ type \notin LeSoftwareTypes \cup HfpSoftwareTypes,
         OnSessionStarted(config, StartQueue(config, allocated))
  PROVE  session' = [ data_mq |-> ConfigQueue(config), audio_config |-> config, has_stack |-> TRUE ]
  <1>1. type \in SoftwareTypes \cup OffloadTypes
    BY DEF ProvidersInv, ProvidersTypeOK
  <1>2. config.tag \in TagsOf(type)
    BY <1>1, AcceptedTag
  <1>3. /\ StartQueue(config, allocated) = ConfigQueue(config)
        /\ ~(NeedsQueue /\ StartQueue(config, allocated) = NoQueue)
    BY StartQueues DEF NeedsQueue
  <1> QED BY <1>2, <1>3 DEF OnSessionStarted

\* The provider after startSession has made its queue.
LEMMA ProviderStarted ==
  ASSUME ProvidersInv, provider.open, NEW config \in AudioConfigs, NEW allocated \in BOOLEAN, type' = type,
         StartQueue(config, allocated) # NoQueue \/ type \notin LeSoftwareTypes \cup HfpSoftwareTypes,
         \/ provider' = [ provider EXCEPT !.data_mq = StartQueue(config, allocated) ]
         \/ provider' = [ provider EXCEPT !.data_mq = StartQueue(config, allocated), !.audio_config = config,
                                          !.has_stack = TRUE ]
  PROVE  /\ provider' \in [ open : BOOLEAN, data_mq : Queues, audio_config : AudioConfigs \cup { NoAudioConfig },
                            has_stack : BOOLEAN ]
         /\ OpenHasQueue'
         /\ type \in OffloadTypes => provider'.data_mq = NoQueue
  <1> DEFINE queue == StartQueue(config, allocated)
  <1>1. /\ queue \in Queues
        /\ type \in A2dpSoftwareTypes \cup { HearingAidType } => queue = provider.data_mq
        /\ type \in OffloadTypes => queue = NoQueue
    BY StartQueues
  <1>2. provider \in [ open : BOOLEAN, data_mq : Queues, audio_config : AudioConfigs \cup { NoAudioConfig },
                       has_stack : BOOLEAN ]
    BY DEF ProvidersInv, ProvidersTypeOK
  <1> HIDE DEF queue
  <1>3. /\ provider' \in [ open : BOOLEAN, data_mq : Queues, audio_config : AudioConfigs \cup { NoAudioConfig },
                           has_stack : BOOLEAN ]
        /\ provider'.data_mq = queue
    <2>1. CASE provider' = [ provider EXCEPT !.data_mq = queue ]
      BY <2>1, <1>1, <1>2
    <2>2. CASE provider' = [ provider EXCEPT !.data_mq = queue, !.audio_config = config, !.has_stack = TRUE ]
      BY <2>2, <1>1, <1>2
    <2> QED BY <2>1, <2>2 DEF queue
  <1>4. ConstructedQueue(TRUE)' = ConstructedQueue(TRUE)
    BY DEF ConstructedQueue
  <1>5. OpenHasQueue'
    BY <1>1, <1>3, <1>4 DEF ProvidersInv, OpenHasQueue
  <1> QED BY <1>1, <1>3, <1>5

LEMMA StartSessionKeeps ==
  ASSUME ProvidersInv, NEW config \in AudioConfigs, NEW has_host \in BOOLEAN, NEW allocated \in BOOLEAN,
         StartSession(config, has_host, allocated)
  PROVE  ProvidersInv'
  <1> DEFINE queue == StartQueue(config, allocated)
             fails == Accepts(config) => type \in LeSoftwareTypes \cup HfpSoftwareTypes /\ queue = NoQueue
  <1>1. type \in SoftwareTypes \cup OffloadTypes /\ type' = type /\ provider.open
    BY DEF ProvidersInv, ProvidersTypeOK, StartSession
  <1>2. CASE fails
    <2>1. UNCHANGED << provider, session >> /\ outcome'.status = "EX_ILLEGAL_ARGUMENT"
      BY <1>2 DEF StartSession, Outcome
    <2>2. SessionConfigAccepted' /\ QueueMatchesConfig'
      BY <1>1, <2>1, SessionKept
    <2>3. StartedSessionIsReady'
      BY <2>1, NotJustStarted
    <2>4. ProvidersTypeOK' /\ OpenHasQueue' /\ OffloadHasNoQueue'
      BY <1>1, <2>1 DEF ProvidersInv, ProvidersTypeOK, OpenHasQueue, OffloadHasNoQueue, ConstructedQueue, Queues
    <2> QED BY <2>2, <2>3, <2>4 DEF ProvidersInv
  <1>3. CASE ~fails /\ ~has_host
    <2>1. /\ provider' = [ provider EXCEPT !.data_mq = queue ] /\ UNCHANGED session
          /\ outcome'.status = "EX_ILLEGAL_ARGUMENT"
      BY <1>3 DEF StartSession, Outcome
    <2>2. SessionConfigAccepted' /\ QueueMatchesConfig'
      BY <1>1, <2>1, SessionKept
    <2>3. StartedSessionIsReady'
      BY <2>1, NotJustStarted
    <2>4. /\ provider' \in [ open : BOOLEAN, data_mq : Queues, audio_config : AudioConfigs \cup { NoAudioConfig },
                             has_stack : BOOLEAN ]
          /\ OpenHasQueue'
          /\ type \in OffloadTypes => provider'.data_mq = NoQueue
      BY <1>1, <1>3, <2>1, ProviderStarted
    <2>5. ProvidersTypeOK' /\ OffloadHasNoQueue'
      BY <1>1, <2>1, <2>4 DEF ProvidersInv, ProvidersTypeOK, OffloadHasNoQueue, Queues
    <2> QED BY <2>2, <2>3, <2>4, <2>5 DEF ProvidersInv
  <1>4. CASE ~fails /\ has_host
    <2>1. /\ provider' = [ provider EXCEPT !.data_mq = queue, !.audio_config = config, !.has_stack = TRUE ]
          /\ OnSessionStarted(config, queue)
      BY <1>4 DEF StartSession
    <2>2. session' = [ data_mq |-> ConfigQueue(config), audio_config |-> config, has_stack |-> TRUE ]
      BY <1>1, <1>4, <2>1, SessionStarted
    <2>3. /\ provider' \in [ open : BOOLEAN, data_mq : Queues, audio_config : AudioConfigs \cup { NoAudioConfig },
                             has_stack : BOOLEAN ]
          /\ OpenHasQueue'
          /\ type \in OffloadTypes => provider'.data_mq = NoQueue
      BY <1>1, <1>4, <2>1, ProviderStarted
    <2>4. /\ ConfigQueue(config) = queue /\ queue \in Queues
          /\ type \in SoftwareTypes => queue # NoQueue
          /\ type \in OffloadTypes => queue = NoQueue
      BY <1>1, <1>4, StartQueues
    <2> HIDE DEF queue
    <2>5. config # NoAudioConfig
      BY NoAudioConfigIsNone
    <2>6. ProvidersTypeOK'
      <3>1. session' \in [ data_mq : Queues, audio_config : AudioConfigs \cup { NoAudioConfig }, has_stack : BOOLEAN ]
        BY <2>2, <2>4
      <3> QED BY <1>1, <2>3, <3>1 DEF ProvidersTypeOK, Queues
    <2>7. OffloadHasNoQueue'
      BY <1>1, <2>2, <2>3, <2>4 DEF OffloadHasNoQueue
    <2>8. SessionConfigAccepted'
      <3>1. \A c : Accepts(c)' = Accepts(c)
        BY <1>1 DEF Accepts, IsOffloadCodecConfigurationValid
      <3> QED BY <3>1, <2>2, <1>4 DEF SessionConfigAccepted
    <2>9. QueueMatchesConfig'
      BY <1>1, <2>2 DEF QueueMatchesConfig, ConfigQueue
    <2>10. StartedSessionIsReady'
      <3>1. SessionReady'
        BY <1>1, <2>2, <2>4, <2>5 DEF SessionReady, NeedsQueue
      <3>2. provider'.audio_config = config
        <4>1. provider \in [ open : BOOLEAN, data_mq : Queues, audio_config : AudioConfigs \cup { NoAudioConfig },
                             has_stack : BOOLEAN ]
          BY DEF ProvidersInv, ProvidersTypeOK
        <4> QED BY <4>1, <2>1
      <3>3. Reported(config)
        BY <1>1, <1>4, AcceptedIsReported
      <3>4. Reported(config)' = Reported(config)
        BY <1>1 DEF Reported, ProviderCapabilities
      <3>5. session'.audio_config = config
        BY <2>2
      <3> QED BY <3>1, <3>2, <3>3, <3>4, <3>5 DEF StartedSessionIsReady
    <2> QED BY <2>3, <2>6, <2>7, <2>8, <2>9, <2>10 DEF ProvidersInv
  <1> QED BY <1>2, <1>3, <1>4

LEMMA EndSessionKeeps ==
  ASSUME ProvidersInv, EndSession
  PROVE  ProvidersInv'
  <1>1. /\ type' = type /\ provider.open /\ outcome'.call = "endSession"
        /\ session' = IF provider.has_stack THEN EmptySession ELSE session
        /\ provider' = [ provider EXCEPT !.audio_config = NoAudioConfig, !.has_stack = FALSE ]
    BY DEF EndSession, Outcome
  <1>2. StartedSessionIsReady'
    BY <1>1, NotJustStarted
  <1>3. /\ provider' \in [ open : BOOLEAN, data_mq : Queues, audio_config : AudioConfigs \cup { NoAudioConfig },
                           has_stack : BOOLEAN ]
        /\ provider'.open = provider.open /\ provider'.data_mq = provider.data_mq
    BY <1>1 DEF ProvidersInv, ProvidersTypeOK
  <1>4. OpenHasQueue'
    BY <1>1, <1>3 DEF ProvidersInv, OpenHasQueue, ConstructedQueue
  <1>5. CASE provider.has_stack
    <2>1. session' = EmptySession
      BY <1>1, <1>5
    <2>2. SessionConfigAccepted' /\ QueueMatchesConfig'
      BY <2>1, SessionEmptied DEF EmptySession
    <2>3. ProvidersTypeOK'
      BY <1>1, <1>3, <2>1 DEF ProvidersInv, ProvidersTypeOK, EmptySession, Queues
    <2>4. OffloadHasNoQueue'
      BY <1>1, <1>3, <2>1 DEF ProvidersInv, OffloadHasNoQueue, EmptySession
    <2> QED BY <1>2, <1>4, <2>2, <2>3, <2>4 DEF ProvidersInv
  <1>6. CASE ~provider.has_stack
    <2>1. session' = session
      BY <1>1, <1>6
    <2>2. SessionConfigAccepted' /\ QueueMatchesConfig'
      BY <1>1, <2>1, SessionKept
    <2>3. ProvidersTypeOK'
      BY <1>1, <1>3, <2>1 DEF ProvidersInv, ProvidersTypeOK, Queues
    <2>4. OffloadHasNoQueue'
      BY <1>1, <1>3, <2>1 DEF ProvidersInv, OffloadHasNoQueue
    <2> QED BY <1>2, <1>4, <2>2, <2>3, <2>4 DEF ProvidersInv
  <1> QED BY <1>5, <1>6

\* An update reaches the session of the LE unicast types only, whose validation is the tag.
LEMMA UpdateKeeps ==
  ASSUME ProvidersInv, NEW config \in AudioConfigs, UpdateAudioConfiguration(config)
  PROVE  ProvidersInv'
  <1>1. type \in SoftwareTypes \cup OffloadTypes /\ type' = type /\ outcome'.call = "updateAudioConfiguration"
    BY DEF ProvidersInv, ProvidersTypeOK, UpdateAudioConfiguration, Outcome
  <1>2. StartedSessionIsReady'
    BY <1>1, NotJustStarted
  <1>3. CASE UNCHANGED << provider, session >>
    <2>1. SessionConfigAccepted' /\ QueueMatchesConfig'
      BY <1>1, <1>3, SessionKept
    <2>2. ProvidersTypeOK' /\ OpenHasQueue' /\ OffloadHasNoQueue'
      BY <1>1, <1>3 DEF ProvidersInv, ProvidersTypeOK, OpenHasQueue, OffloadHasNoQueue, ConstructedQueue, Queues
    <2> QED BY <1>2, <2>1, <2>2 DEF ProvidersInv
  <1>4. CASE provider' = [ provider EXCEPT !.audio_config = config ] /\ ReportAudioConfigChanged(config)
    <2>1. /\ provider' \in [ open : BOOLEAN, data_mq : Queues, audio_config : AudioConfigs \cup { NoAudioConfig },
                             has_stack : BOOLEAN ]
          /\ provider'.open = provider.open /\ provider'.data_mq = provider.data_mq
      BY <1>4 DEF ProvidersInv, ProvidersTypeOK
    <2>2. OpenHasQueue'
      BY <1>1, <2>1 DEF ProvidersInv, OpenHasQueue, ConstructedQueue
    <2>3. CASE session' = session
      <3>1. SessionConfigAccepted' /\ QueueMatchesConfig'
        BY <1>1, <2>3, SessionKept
      <3>2. ProvidersTypeOK' /\ OffloadHasNoQueue'
        BY <1>1, <2>1, <2>3 DEF ProvidersInv, ProvidersTypeOK, OffloadHasNoQueue, Queues
      <3> QED BY <1>2, <2>2, <3>1, <3>2 DEF ProvidersInv
    <2>4. CASE /\ type \in LeUnicastOffloadTypes /\ config.tag = "leAudioConfig"
               /\ session' = [ session EXCEPT !.audio_config = config ]
      <3>1. /\ session' \in [ data_mq : Queues, audio_config : AudioConfigs \cup { NoAudioConfig }, has_stack : BOOLEAN ]
            /\ session'.data_mq = session.data_mq /\ session'.audio_config = config
        BY <2>4 DEF ProvidersInv, ProvidersTypeOK
      <3>2. type \in OffloadTypes \ A2dpOffloadTypes
        BY <1>1, <2>4, TypeKinds
      <3>3. ProvidersTypeOK' /\ OffloadHasNoQueue'
        BY <1>1, <2>1, <3>1 DEF ProvidersInv, ProvidersTypeOK, OffloadHasNoQueue, Queues
      <3>4. SessionConfigAccepted'
        <4>1. config.tag \in TagsOf(type)
          BY <1>1, <2>4, TypeKinds DEF TagsOf
        <4>2. Accepts(config)
          BY <3>2, <4>1, AcceptedByOtherOffload
        <4>3. \A c : Accepts(c)' = Accepts(c)
          BY <1>1 DEF Accepts, IsOffloadCodecConfigurationValid
        <4> QED BY <3>1, <4>2, <4>3 DEF SessionConfigAccepted
      <3>5. QueueMatchesConfig'
        <4>1. session'.data_mq = NoQueue
          BY <3>1, <3>2 DEF ProvidersInv, OffloadHasNoQueue
        <4>2. ConfigQueue(config) = NoQueue
          BY <1>1, <2>4, TypeKinds DEF ConfigQueue
        <4> QED BY <1>1, <3>1, <4>1, <4>2 DEF QueueMatchesConfig, ConfigQueue
      <3> QED BY <1>2, <2>2, <3>3, <3>4, <3>5 DEF ProvidersInv
    <2> QED BY <1>4, <2>3, <2>4 DEF ReportAudioConfigChanged
  <1> QED BY <1>3, <1>4 DEF UpdateAudioConfiguration

LEMMA StackDiesKeeps ==
  ASSUME ProvidersInv, StackDies
  PROVE  ProvidersInv'
  <1>1. /\ type' = type /\ outcome'.call = "none"
        /\ session' = [ data_mq |-> NoQueue, audio_config |-> NoAudioConfig, has_stack |-> FALSE ]
        /\ provider' = [ open |-> FALSE, data_mq |-> NoQueue, audio_config |-> NoAudioConfig, has_stack |-> FALSE ]
    BY DEF StackDies, EmptySession, NoProvider, Outcome
  <1>2. StartedSessionIsReady'
    BY <1>1, NotJustStarted
  <1>3. SessionConfigAccepted' /\ QueueMatchesConfig'
    BY <1>1, SessionEmptied
  <1>4. ProvidersTypeOK'
    BY <1>1 DEF ProvidersInv, ProvidersTypeOK, Queues
  <1>5. OpenHasQueue' /\ OffloadHasNoQueue'
    BY <1>1 DEF OpenHasQueue, OffloadHasNoQueue
  <1> QED BY <1>2, <1>3, <1>4, <1>5 DEF ProvidersInv

LEMMA UnsupportedCallKeeps ==
  ASSUME ProvidersInv, UnsupportedCall
  PROVE  ProvidersInv'
  <1>1. UNCHANGED << type, provider, session >>
    BY DEF UnsupportedCall
  <1>5. outcome'.call # "startSession"
    <2>1. outcome' \in { [ call |-> "LE audio call", status |-> "EX_UNSUPPORTED_OPERATION" ],
                         [ call |-> "A2DP call", status |-> "EX_ILLEGAL_ARGUMENT" ] }
      BY DEF UnsupportedCall, Outcome
    <2>2. CASE outcome' = [ call |-> "LE audio call", status |-> "EX_UNSUPPORTED_OPERATION" ]
      BY <2>2
    <2>3. CASE outcome' = [ call |-> "A2DP call", status |-> "EX_ILLEGAL_ARGUMENT" ]
      BY <2>3
    <2> QED BY <2>1, <2>2, <2>3
  <1>2. StartedSessionIsReady'
    BY <1>5, NotJustStarted
  <1>3. SessionConfigAccepted' /\ QueueMatchesConfig'
    BY <1>1, SessionKept
  <1>4. ProvidersTypeOK' /\ OpenHasQueue' /\ OffloadHasNoQueue'
    BY <1>1 DEF ProvidersInv, ProvidersTypeOK, OpenHasQueue, OffloadHasNoQueue, ConstructedQueue, Queues
  <1> QED BY <1>2, <1>3, <1>4 DEF ProvidersInv

LEMMA ProvidersStutter ==
  ASSUME ProvidersInv, UNCHANGED providersVars
  PROVE  ProvidersInv'
  <1>1. UNCHANGED << type, provider, session, outcome >>
    BY DEF providersVars
  <1>2. SessionConfigAccepted' /\ QueueMatchesConfig'
    BY <1>1, SessionKept
  <1>3. ProvidersTypeOK' /\ OpenHasQueue' /\ OffloadHasNoQueue'
    BY <1>1 DEF ProvidersInv, ProvidersTypeOK, OpenHasQueue, OffloadHasNoQueue, ConstructedQueue, Queues
  <1>4. StartedSessionIsReady'
    BY <1>1 DEF ProvidersInv, StartedSessionIsReady, SessionReady, NeedsQueue, Reported, ProviderCapabilities
  <1> QED BY <1>2, <1>3, <1>4 DEF ProvidersInv

\* Whatever the stack opens, starts, updates, ends or dies in, and whatever allocation fails, the
\* providers keep their invariant.
THEOREM ProvidersInvariant == ProvidersSpec => []ProvidersInv
  <1>1. ProvidersInv /\ [ProvidersNext]_providersVars => ProvidersInv'
    <2> SUFFICES ASSUME ProvidersInv, [ProvidersNext]_providersVars
                 PROVE  ProvidersInv'
      OBVIOUS
    <2>1. CASE \E allocated \in BOOLEAN : OpenProvider(allocated)
      BY <2>1, OpenProviderKeeps
    <2>2. CASE \E config \in AudioConfigs, has_host, allocated \in BOOLEAN : StartSession(config, has_host, allocated)
      BY <2>2, StartSessionKeeps
    <2>3. CASE EndSession
      BY <2>3, EndSessionKeeps
    <2>4. CASE \E config \in AudioConfigs : UpdateAudioConfiguration(config)
      BY <2>4, UpdateKeeps
    <2>5. CASE StackDies
      BY <2>5, StackDiesKeeps
    <2>6. CASE UnsupportedCall
      BY <2>6, UnsupportedCallKeeps
    <2>7. CASE UNCHANGED providersVars
      BY <2>7, ProvidersStutter
    <2> QED BY <2>1, <2>2, <2>3, <2>4, <2>5, <2>6, <2>7 DEF ProvidersNext
  <1> QED BY ProvidersStart, <1>1, PTL DEF ProvidersSpec

\* A session startSession answered OK for is ready: it holds the provider's configuration, with the
\* queue a software session needs, and getProviderCapabilities had reported that configuration.
THEOREM ProvidersStartedSessionIsReady == ProvidersSpec => []StartedSessionIsReady
  BY ProvidersInvariant, PTL DEF ProvidersInv

\* The queue of a ready session is the one made for the configuration it holds.
THEOREM ProvidersQueueMatchesConfig == ProvidersSpec => []QueueMatchesConfig
  BY ProvidersInvariant, PTL DEF ProvidersInv

-----------------------------------------------------------------------------
(* What the HIDL clients are shown.                                        *)

\* The one entry of a table a value has is its flag.
LEMMA OneFlag ==
  ASSUME NEW entries, NEW value \in entries
  PROVE  Flag(entries, value) = { value }
  BY DEF Flag

LEMMA SingleBit ==
  ASSUME NEW bitfield, NEW flag \in bitfield
  PROVE  Hidl!IsSingleBit({ flag }, bitfield)
  <1>1. { flag } \cap bitfield = { flag }
    OBVIOUS
  <1> QED BY <1>1 DEF Hidl!IsSingleBit

LEMMA TheOne ==
  ASSUME NEW flag
  PROVE  The({ flag }) = flag
  BY DEF The

\* Every value of a software configuration that is accepted has its flag in version 2.1.
LEMMA PcmFlags ==
  ASSUME NEW pcm, IsSoftwarePcmConfigurationValid(pcm)
  PROVE  /\ pcm.rate \in { 8000, 16000, 24000, 32000, 44100, 48000, 88200, 96000 }
         /\ pcm.mode \in { "MONO", "STEREO" } /\ pcm.bits \in { 16, 24, 32 }
         /\ to_hidl_pcm_config_2_1(pcm) =
              [ rate |-> { pcm.rate }, mode |-> { pcm.mode }, bits |-> { pcm.bits }, interval |-> pcm.interval ]
  <1>1. pcm.rate \in { 8000, 16000, 24000, 32000, 44100, 48000, 88200, 96000 }
    BY DEF IsSoftwarePcmConfigurationValid, Within, SoftwarePcmCapabilities
  <1>2. pcm.mode \in { "MONO", "STEREO" }
    BY DEF IsSoftwarePcmConfigurationValid, Within, SoftwarePcmCapabilities
  <1>3. pcm.bits \in { 16, 24, 32 }
    BY DEF IsSoftwarePcmConfigurationValid, Within, SoftwarePcmCapabilities
  <1>4. pcm.rate \in Hidl!Rates_0xff \cup { 8000, 32000 }
    BY <1>1 DEF Hidl!Rates_0xff
  <1>5. to_hidl_sample_rate(pcm.rate) = { pcm.rate }
    BY <1>4, OneFlag DEF to_hidl_sample_rate
  <1>6. to_hidl_channel_mode(pcm.mode) = { pcm.mode }
    BY <1>2, OneFlag DEF to_hidl_channel_mode
  <1>7. to_hidl_bits_per_sample(pcm.bits) = { pcm.bits }
    BY <1>3, OneFlag DEF to_hidl_bits_per_sample
  <1> QED BY <1>1, <1>2, <1>3, <1>5, <1>6, <1>7 DEF to_hidl_pcm_config_2_1

\* A ready session of a software type is shown as it is.
LEMMA SoftwareShown ==
  ASSUME ProvidersInv, type \in SoftwareTypes, SessionReady
  PROVE  /\ session.audio_config.tag = "pcmConfig"
         /\ IsSoftwarePcmConfigurationValid(session.audio_config.fields)
         /\ \A bitrate : to_hidl_audio_config_2_1(session.audio_config, bitrate) =
              [ tag |-> "pcmConfig", pcm |-> to_hidl_pcm_config_2_1(session.audio_config.fields) ]
  <1>1. Accepts(session.audio_config)
    BY DEF ProvidersInv, SessionConfigAccepted, SessionReady
  <1>2. session.audio_config.tag = "pcmConfig" /\ IsSoftwarePcmConfigurationValid(session.audio_config.fields)
    BY <1>1, AcceptedBySoftware
  <1> QED BY <1>2 DEF to_hidl_audio_config_2_1

LEMMA PortsAgree ==
  ASSUME ProvidersInv
  PROVE  LegacyPortAgrees
  <1> SUFFICES ASSUME SessionReady, type \in StreamTypes
               PROVE  LET fields == session.audio_config.fields
                          aidl   == AidlLoadAudioConfig(type, session.audio_config)
                          hidl   == to_hidl_audio_config_2_1(session.audio_config, 0)
                          legacy == HidlLoadAudioConfig(hidl)
                      IN  /\ legacy = [ aidl EXCEPT !.format = IF fields.bits = 24 THEN "PCM_24_BIT_PACKED" ELSE @ ]
                          /\ hidl.pcm.interval = fields.interval
    BY DEF LegacyPortAgrees
  <1> DEFINE fields == session.audio_config.fields
             hidl   == to_hidl_audio_config_2_1(session.audio_config, 0)
             shown  == [ rate |-> { fields.rate }, mode |-> { fields.mode }, bits |-> { fields.bits },
                         interval |-> fields.interval ]
             format == BitsPerSampleToAudioFormat(fields.bits, type)
  <1>1. type \in SoftwareTypes
    BY DEF StreamTypes, SoftwareTypes
  <1>2. session.audio_config.tag = "pcmConfig" /\ IsSoftwarePcmConfigurationValid(fields)
    BY <1>1, SoftwareShown
  <1>3. fields.mode \in { "MONO", "STEREO" } /\ fields.bits \in { 16, 24, 32 }
    BY <1>2, PcmFlags
  <1>4. to_hidl_pcm_config_2_1(fields) = shown
    BY <1>2, PcmFlags
  <1>5. hidl = [ tag |-> "pcmConfig", pcm |-> shown ]
    BY <1>1, <1>4, SoftwareShown
  <1>6. AidlLoadAudioConfig(type, session.audio_config) = Told(fields.rate, fields.mode, format)
    BY <1>2, <1>3 DEF AidlLoadAudioConfig
  <1> HIDE DEF hidl, fields
  <1>7. HidlLoadAudioConfig(hidl) = Told(fields.rate, fields.mode, HidlFormat({ fields.bits }))
    <2>1. hidl.tag = "pcmConfig" /\ \A f \in { "rate", "mode", "bits" } : hidl.pcm[f] # {}
      BY <1>5
    <2>2. /\ The(hidl.pcm.rate) = fields.rate /\ The(hidl.pcm.mode) = fields.mode
          /\ hidl.pcm.bits = { fields.bits }
      BY <1>5, TheOne
    <2> QED BY <2>1, <2>2 DEF HidlLoadAudioConfig
  <1>8. HidlFormat({ fields.bits }) = IF fields.bits = 24 THEN "PCM_24_BIT_PACKED" ELSE format
    <2>1. { 16 } # { 24 } /\ { 16 } # { 32 } /\ { 24 } # { 32 }
      OBVIOUS
    <2>2. CASE fields.bits = 16
      BY <2>1, <2>2 DEF HidlFormat, BitsPerSampleToAudioFormat
    <2>3. CASE fields.bits = 24
      BY <2>1, <2>3 DEF HidlFormat
    <2>4. CASE fields.bits = 32
      BY <2>1, <2>4 DEF HidlFormat, BitsPerSampleToAudioFormat
    <2> QED BY <1>3, <2>2, <2>3, <2>4
  <1>9. HidlLoadAudioConfig(hidl)
          = [ AidlLoadAudioConfig(type, session.audio_config) EXCEPT
                !.format = IF fields.bits = 24 THEN "PCM_24_BIT_PACKED" ELSE @ ]
    BY <1>6, <1>7, <1>8 DEF Told
  <1>10. hidl.pcm.interval = fields.interval
    BY <1>5
  <1> QED BY <1>9, <1>10 DEF hidl, fields

\* Over a session in any state the providers can bring it to, the HIDL port tells the framework
\* what the AIDL port tells it, packing of 24 bits aside.
THEOREM ProvidersLegacyPortAgrees == ProvidersSpec => []LegacyPortAgrees
  BY ProvidersInvariant, PortsAgree, PTL

\* The software types.  Version 2.1 knows all but two of the rates.
LEMMA PcmShown ==
  ASSUME NEW pcm, IsSoftwarePcmConfigurationValid(pcm)
  PROVE  Hidl!IsSoftwarePcmConfigurationValid_2_1(to_hidl_pcm_config_2_1(pcm))
           <=> pcm.rate \notin { 8000, 32000 } /\ pcm.interval # 0
  <1> DEFINE shown == to_hidl_pcm_config_2_1(pcm)
  <1>1. shown = [ rate |-> { pcm.rate }, mode |-> { pcm.mode }, bits |-> { pcm.bits }, interval |-> pcm.interval ]
    BY PcmFlags
  <1>2. /\ pcm.rate \in { 8000, 16000, 24000, 32000, 44100, 48000, 88200, 96000 }
        /\ pcm.mode \in { "MONO", "STEREO" } /\ pcm.bits \in { 16, 24, 32 }
    BY PcmFlags
  <1> HIDE DEF shown
  <1>3. (\E flag \in Hidl!SoftwarePcmCapabilities["rate"] : shown["rate"] = { flag })
          <=> pcm.rate \notin { 8000, 32000 }
    <2>1. \A flag : shown["rate"] = { flag } <=> flag = pcm.rate
      BY <1>1
    <2>2. Hidl!SoftwarePcmCapabilities["rate"] = { 44100, 48000, 88200, 96000, 16000, 24000 }
      BY DEF Hidl!SoftwarePcmCapabilities, Hidl!Rates_0xff
    <2>3. (\E flag \in Hidl!SoftwarePcmCapabilities["rate"] : shown["rate"] = { flag })
            <=> pcm.rate \in Hidl!SoftwarePcmCapabilities["rate"]
      BY <2>1
    <2>4. pcm.rate \in Hidl!SoftwarePcmCapabilities["rate"] <=> pcm.rate \notin { 8000, 32000 }
      BY <1>2, <2>2
    <2> QED BY <2>3, <2>4
  <1>4. \E flag \in Hidl!SoftwarePcmCapabilities["mode"] : shown["mode"] = { flag }
    BY <1>1, <1>2 DEF Hidl!SoftwarePcmCapabilities, Hidl!Modes_0x03
  <1>5. \E flag \in Hidl!SoftwarePcmCapabilities["bits"] : shown["bits"] = { flag }
    BY <1>1, <1>2 DEF Hidl!SoftwarePcmCapabilities, Hidl!Bits_0x07
  <1>6. DOMAIN Hidl!SoftwarePcmCapabilities = { "rate", "mode", "bits" }
    BY DEF Hidl!SoftwarePcmCapabilities
  <1>7. shown.interval = pcm.interval
    BY <1>1
  <1> QED BY <1>3, <1>4, <1>5, <1>6, <1>7 DEF Hidl!IsSoftwarePcmConfigurationValid_2_1, shown

-----------------------------------------------------------------------------
(* The codecs.  A field that is supported has its flag, alone.             *)

LEMMA FieldsSupported ==
  ASSUME NEW cap, NEW shown, NEW fields,
         \A f \in DOMAIN cap :
           shown[f] = { fields[f] } /\ fields[f] \in cap[f].bitfield /\ fields[f] \in cap[f].supported
  PROVE  Hidl!Supports(cap, shown)
  <1> SUFFICES ASSUME NEW f \in DOMAIN cap
               PROVE  Hidl!IsSingleBit(shown[f], cap[f].bitfield) /\ shown[f] \cap cap[f].supported # {}
    BY DEF Hidl!Supports
  <1>1. Hidl!IsSingleBit({ fields[f] }, cap[f].bitfield)
    BY SingleBit
  <1> QED BY <1>1

LEMMA RateShown ==
  ASSUME NEW value \in { 44100, 48000, 88200, 96000 }
  PROVE  to_hidl_sample_rate(value) = { value } /\ value \in Hidl!Rates_0xff
  <1>1. value \in Hidl!Rates_0xff
    BY DEF Hidl!Rates_0xff
  <1> QED BY <1>1, OneFlag DEF to_hidl_sample_rate

LEMMA SbcShown ==
  ASSUME NEW config, IsOffloadSbcConfigurationValid(config)
  PROVE  LET sbc == to_hidl_sbc_config(config.fields)
         IN  /\ Hidl!Supports(Hidl!OffloadSbcCapability, sbc)
             /\ sbc.minBitpool <= sbc.maxBitpool
             /\ Hidl!SbcMinBitpool <= sbc.minBitpool /\ sbc.maxBitpool <= Hidl!SbcMaxBitpool
  <1> DEFINE fields == config.fields
             sbc    == to_hidl_sbc_config(fields)
             cap    == Hidl!OffloadSbcCapability
  <1>1. /\ fields.rate = 44100 /\ fields.bits = 16 /\ fields.mode \in { "MONO", "JOINT_STEREO" }
        /\ fields.blocks \in { 4, 8, 12, 16 } /\ fields.subbands = 8 /\ fields.alloc = "ALLOC_MD_L"
    BY DEF IsOffloadSbcConfigurationValid, Within, OffloadSbcCapability
  <1>2. /\ fields.minBitpool \in 2 .. 53 /\ fields.maxBitpool \in 2 .. 53
        /\ fields.minBitpool <= fields.maxBitpool
    BY DEF IsOffloadSbcConfigurationValid, Within, OffloadSbcCapability
  <1> HIDE DEF fields
  <1>3. /\ sbc.rate = { fields.rate } /\ fields.rate \in Hidl!Rates_0xff
    BY <1>1, RateShown DEF to_hidl_sbc_config
  <1>4. /\ sbc.bits = { fields.bits } /\ sbc.mode = { fields.mode } /\ sbc.blocks = { fields.blocks }
        /\ sbc.subbands = { fields.subbands } /\ sbc.alloc = { fields.alloc }
        /\ sbc.minBitpool = fields.minBitpool /\ sbc.maxBitpool = fields.maxBitpool
    BY <1>1 DEF to_hidl_sbc_config, to_hidl_bits_per_sample, Flag
  <1> HIDE DEF sbc
  <1>5. /\ DOMAIN cap = { "rate", "mode", "blocks", "subbands", "alloc", "bits" }
        /\ fields.rate \in cap.rate.bitfield /\ fields.rate \in cap.rate.supported
        /\ fields.bits \in cap.bits.bitfield /\ fields.bits \in cap.bits.supported
        /\ fields.mode \in cap.mode.bitfield /\ fields.mode \in cap.mode.supported
        /\ fields.blocks \in cap.blocks.bitfield /\ fields.blocks \in cap.blocks.supported
        /\ fields.subbands \in cap.subbands.bitfield /\ fields.subbands \in cap.subbands.supported
        /\ fields.alloc \in cap.alloc.bitfield /\ fields.alloc \in cap.alloc.supported
    BY <1>1, <1>3 DEF Hidl!OffloadSbcCapability, Hidl!Field, Hidl!Bits_0x07
  <1> HIDE DEF cap
  <1>6. \A f \in DOMAIN cap :
          sbc[f] = { fields[f] } /\ fields[f] \in cap[f].bitfield /\ fields[f] \in cap[f].supported
    BY <1>3, <1>4, <1>5
  <1>7. Hidl!Supports(cap, sbc)
    BY <1>6, FieldsSupported
  <1>8. /\ sbc.minBitpool <= sbc.maxBitpool
        /\ Hidl!SbcMinBitpool <= sbc.minBitpool /\ sbc.maxBitpool <= Hidl!SbcMaxBitpool
    BY <1>2, <1>4 DEF Hidl!SbcMinBitpool, Hidl!SbcMaxBitpool
  <1> QED BY <1>7, <1>8 DEF sbc, fields, cap

LEMMA AacShown ==
  ASSUME NEW config, IsOffloadAacConfigurationValid(config)
  PROVE  Hidl!Supports(Hidl!OffloadAacCapability, to_hidl_aac_config(config.fields))
  <1> DEFINE fields == config.fields
             aac    == to_hidl_aac_config(fields)
             cap    == Hidl!OffloadAacCapability
  <1>1. fields.object = "MPEG2_LC" /\ fields.rate = 44100 /\ fields.mode = "STEREO" /\ fields.bits = 16
    BY DEF IsOffloadAacConfigurationValid, Within, OffloadAacCapability
  <1> HIDE DEF fields
  <1>2. aac.rate = { fields.rate } /\ fields.rate \in Hidl!Rates_0xff
    BY <1>1, RateShown DEF to_hidl_aac_config
  <1>3. aac.object = { fields.object } /\ aac.mode = { fields.mode } /\ aac.bits = { fields.bits }
    BY <1>1 DEF to_hidl_aac_config, to_hidl_bits_per_sample, to_hidl_channel_mode, Flag
  <1> HIDE DEF aac
  <1>4. /\ DOMAIN cap = { "object", "rate", "mode", "bits" }
        /\ fields.object \in cap.object.bitfield /\ fields.object \in cap.object.supported
        /\ fields.rate \in cap.rate.bitfield /\ fields.rate \in cap.rate.supported
        /\ fields.mode \in cap.mode.bitfield /\ fields.mode \in cap.mode.supported
        /\ fields.bits \in cap.bits.bitfield /\ fields.bits \in cap.bits.supported
    BY <1>1, <1>2 DEF Hidl!OffloadAacCapability, Hidl!Field, Hidl!Bits_0x07, Hidl!Modes_0x03
  <1> HIDE DEF cap
  <1>5. \A f \in DOMAIN cap :
          aac[f] = { fields[f] } /\ fields[f] \in cap[f].bitfield /\ fields[f] \in cap[f].supported
    BY <1>2, <1>3, <1>4
  <1>6. Hidl!Supports(cap, aac)
    BY <1>5, FieldsSupported
  <1> QED BY <1>6 DEF aac, fields, cap

LEMMA LdacShown ==
  ASSUME NEW config, IsOffloadLdacConfigurationValid(config)
  PROVE  /\ Hidl!Supports(Hidl!OffloadLdacCapability, to_hidl_ldac_config(config.fields))
         /\ to_hidl_ldac_config(config.fields).quality = "QUALITY_HIGH"
  <1> DEFINE fields == config.fields
             ldac   == to_hidl_ldac_config(fields)
             cap    == Hidl!OffloadLdacCapability
  <1>1. /\ fields.rate \in { 44100, 48000, 88200, 96000 } /\ fields.mode \in { "DUAL", "STEREO" }
        /\ fields.bits \in { 16, 24, 32 } /\ fields.quality = "HIGH"
    BY DEF IsOffloadLdacConfigurationValid, Within, OffloadLdacCapability
  <1> HIDE DEF fields
  <1>2. ldac.rate = { fields.rate } /\ fields.rate \in Hidl!Rates_0xff
    BY <1>1, RateShown DEF to_hidl_ldac_config
  <1>3. ldac.mode = { fields.mode } /\ ldac.bits = { fields.bits } /\ ldac.quality = "QUALITY_HIGH"
    BY <1>1 DEF to_hidl_ldac_config, to_hidl_bits_per_sample, ldac_qindex_to_hidl_map, Flag
  <1> HIDE DEF ldac
  <1>4. /\ DOMAIN cap = { "rate", "mode", "bits" }
        /\ fields.rate \in cap.rate.bitfield /\ fields.rate \in cap.rate.supported
        /\ fields.mode \in cap.mode.bitfield /\ fields.mode \in cap.mode.supported
        /\ fields.bits \in cap.bits.bitfield /\ fields.bits \in cap.bits.supported
    BY <1>1, <1>2 DEF Hidl!OffloadLdacCapability, Hidl!Field, Hidl!Bits_0x07
  <1> HIDE DEF cap
  <1>5. \A f \in DOMAIN cap :
          ldac[f] = { fields[f] } /\ fields[f] \in cap[f].bitfield /\ fields[f] \in cap[f].supported
    BY <1>2, <1>3, <1>4
  <1>6. Hidl!Supports(cap, ldac)
    BY <1>5, FieldsSupported
  <1> QED BY <1>6, <1>3 DEF ldac, fields, cap

LEMMA AptxShown ==
  ASSUME NEW config, IsOffloadAptxConfigurationValid(config)
  PROVE  Hidl!Supports(Hidl!OffloadAptxCapability, to_hidl_aptx_config(config.fields))
  <1> DEFINE fields == config.fields
             aptx   == to_hidl_aptx_config(fields)
             cap    == Hidl!OffloadAptxCapability
  <1>1. fields.rate \in { 44100, 48000 } /\ fields.mode = "STEREO" /\ fields.bits = 16
    BY DEF IsOffloadAptxConfigurationValid, Within, OffloadAptxCapability
  <1> HIDE DEF fields
  <1>2. aptx.rate = { fields.rate } /\ fields.rate \in Hidl!Rates_0xff
    BY <1>1, RateShown DEF to_hidl_aptx_config
  <1>3. aptx.mode = { fields.mode } /\ aptx.bits = { fields.bits }
    BY <1>1 DEF to_hidl_aptx_config, to_hidl_bits_per_sample, to_hidl_channel_mode, Flag
  <1> HIDE DEF aptx
  <1>4. /\ DOMAIN cap = { "rate", "mode", "bits" }
        /\ fields.rate \in cap.rate.bitfield /\ fields.rate \in cap.rate.supported
        /\ fields.mode \in cap.mode.bitfield /\ fields.mode \in cap.mode.supported
        /\ fields.bits \in cap.bits.bitfield /\ fields.bits \in cap.bits.supported
    BY <1>1, <1>2 DEF Hidl!OffloadAptxCapability, Hidl!Field, Hidl!Bits_0x07, Hidl!Modes_0x03
  <1> HIDE DEF cap
  <1>5. \A f \in DOMAIN cap :
          aptx[f] = { fields[f] } /\ fields[f] \in cap[f].bitfield /\ fields[f] \in cap[f].supported
    BY <1>2, <1>3, <1>4
  <1>6. Hidl!Supports(cap, aptx)
    BY <1>5, FieldsSupported
  <1> QED BY <1>6 DEF aptx, fields, cap

LEMMA AptxHdShown ==
  ASSUME NEW config, IsOffloadAptxHdConfigurationValid(config)
  PROVE  Hidl!Supports(Hidl!OffloadAptxHdCapability, to_hidl_aptx_config(config.fields))
  <1> DEFINE fields == config.fields
             aptx   == to_hidl_aptx_config(fields)
             cap    == Hidl!OffloadAptxHdCapability
  <1>1. fields.rate \in { 44100, 48000 } /\ fields.mode = "STEREO" /\ fields.bits = 24
    BY DEF IsOffloadAptxHdConfigurationValid, Within, OffloadAptxHdCapability
  <1> HIDE DEF fields
  <1>2. aptx.rate = { fields.rate } /\ fields.rate \in Hidl!Rates_0xff
    BY <1>1, RateShown DEF to_hidl_aptx_config
  <1>3. aptx.mode = { fields.mode } /\ aptx.bits = { fields.bits }
    BY <1>1 DEF to_hidl_aptx_config, to_hidl_bits_per_sample, to_hidl_channel_mode, Flag
  <1> HIDE DEF aptx
  <1>4. /\ DOMAIN cap = { "rate", "mode", "bits" }
        /\ fields.rate \in cap.rate.bitfield /\ fields.rate \in cap.rate.supported
        /\ fields.mode \in cap.mode.bitfield /\ fields.mode \in cap.mode.supported
        /\ fields.bits \in cap.bits.bitfield /\ fields.bits \in cap.bits.supported
    BY <1>1, <1>2 DEF Hidl!OffloadAptxHdCapability, Hidl!Field, Hidl!Bits_0x07, Hidl!Modes_0x03,
       Hidl!OffloadAptxCapability
  <1> HIDE DEF cap
  <1>5. \A f \in DOMAIN cap :
          aptx[f] = { fields[f] } /\ fields[f] \in cap[f].bitfield /\ fields[f] \in cap[f].supported
    BY <1>2, <1>3, <1>4
  <1>6. Hidl!Supports(cap, aptx)
    BY <1>5, FieldsSupported
  <1> QED BY <1>6 DEF aptx, fields, cap
LEMMA ExtremesPass ==
  ASSUME NEW rate \in ExtremeBitrates
  PROVE  Hidl!IsBitrate(rate)
  BY SMT DEF ExtremeBitrates, Hidl!IsBitrate

\* How the legacy library checks a codec configuration.
LEMMA LegacyCheck ==
  ASSUME NEW hidl, Hidl!IsBitrate(hidl.bitrate)
  PROVE  LET valid == Hidl!IsOffloadCodecConfigurationValid("A2DP_HARDWARE_OFFLOAD_DATAPATH", hidl)
         IN  /\ hidl.codec = "SBC" /\ Hidl!IsOffloadSbcConfigurationValid(hidl) => valid
             /\ hidl.codec = "AAC" /\ Hidl!IsOffloadAacConfigurationValid(hidl) => valid
             /\ hidl.codec = "LDAC" /\ Hidl!IsOffloadLdacConfigurationValid(hidl) => valid
             /\ hidl.codec = "APTX" /\ Hidl!IsOffloadAptxConfigurationValid(hidl) => valid
             /\ hidl.codec = "APTX_HD" /\ Hidl!IsOffloadAptxHdConfigurationValid(hidl) => valid
             /\ hidl.codec = "UNKNOWN" => ~ valid
  <1> DEFINE valid == Hidl!IsOffloadCodecConfigurationValid("A2DP_HARDWARE_OFFLOAD_DATAPATH", hidl)
  <1>1. Hidl!is_2_0_session_type("A2DP_HARDWARE_OFFLOAD_DATAPATH")
    BY DEF Hidl!is_2_0_session_type, Hidl!Types_2_0
  <1>2. ASSUME hidl.codec = "SBC", Hidl!IsOffloadSbcConfigurationValid(hidl)
       PROVE  valid
    BY <1>1, <1>2 DEF Hidl!IsOffloadCodecConfigurationValid
  <1>3. ASSUME hidl.codec = "AAC", Hidl!IsOffloadAacConfigurationValid(hidl)
       PROVE  valid
    BY <1>1, <1>3 DEF Hidl!IsOffloadCodecConfigurationValid
  <1>4. ASSUME hidl.codec = "LDAC", Hidl!IsOffloadLdacConfigurationValid(hidl)
       PROVE  valid
    BY <1>1, <1>4 DEF Hidl!IsOffloadCodecConfigurationValid
  <1>5. ASSUME hidl.codec = "APTX", Hidl!IsOffloadAptxConfigurationValid(hidl)
       PROVE  valid
    BY <1>1, <1>5 DEF Hidl!IsOffloadCodecConfigurationValid
  <1>6. ASSUME hidl.codec = "APTX_HD", Hidl!IsOffloadAptxHdConfigurationValid(hidl)
       PROVE  valid
    BY <1>1, <1>6 DEF Hidl!IsOffloadCodecConfigurationValid
  <1>7. ASSUME hidl.codec = "UNKNOWN"
       PROVE  ~ valid
    BY <1>7 DEF Hidl!IsOffloadCodecConfigurationValid
  <1> QED BY <1>2, <1>3, <1>4, <1>5, <1>6, <1>7

\* A codec configuration that is accepted passes the checks of the legacy library, Opus aside.
LEMMA CodecShown ==
  ASSUME NEW t, IsOffloadCodecConfigurationValid(t, session.audio_config), NEW bitrate, Hidl!IsBitrate(bitrate)
  PROVE  LET config == session.audio_config
         IN  Hidl!IsOffloadCodecConfigurationValid("A2DP_HARDWARE_OFFLOAD_DATAPATH", to_hidl_codec_config_2_0(config, bitrate))
               <=> config.codec # "OPUS"
  <1> DEFINE config == session.audio_config
             hidl   == to_hidl_codec_config_2_0(config, bitrate)
             valid  == Hidl!IsOffloadCodecConfigurationValid("A2DP_HARDWARE_OFFLOAD_DATAPATH", hidl)
  <1>1. config.codec \in { "SBC", "AAC", "LDAC", "APTX", "APTX_HD", "OPUS" }
    BY DEF IsOffloadCodecConfigurationValid
  <1>2. /\ hidl.specific = config.specific /\ hidl.bitrate = bitrate
        /\ hidl.codec = IF config.codec = "OPUS" THEN "UNKNOWN" ELSE config.codec
    BY <1>1 DEF to_hidl_codec_config_2_0, to_hidl_codec_type_2_0
  <1>3. Hidl!IsBitrate(hidl.bitrate)
    BY <1>2
  <1>4. CASE config.codec = "SBC"
    <2>1. IsOffloadSbcConfigurationValid(config)
      BY <1>4 DEF IsOffloadCodecConfigurationValid
    <2>2. config.specific = "sbcConfig"
      BY <2>1 DEF IsOffloadSbcConfigurationValid
    <2>3. hidl.fields = to_hidl_sbc_config(config.fields)
      BY <2>2 DEF to_hidl_codec_config_2_0
    <2>4. Hidl!IsOffloadSbcConfigurationValid(hidl)
      BY <1>2, <2>1, <2>2, <2>3, SbcShown DEF Hidl!IsOffloadSbcConfigurationValid
    <2> QED BY <1>2, <1>3, <1>4, <2>4, LegacyCheck
  <1>5. CASE config.codec = "AAC"
    <2>1. IsOffloadAacConfigurationValid(config)
      BY <1>5 DEF IsOffloadCodecConfigurationValid
    <2>2. config.specific = "aacConfig"
      BY <2>1 DEF IsOffloadAacConfigurationValid
    <2>3. hidl.fields = to_hidl_aac_config(config.fields)
      BY <2>2 DEF to_hidl_codec_config_2_0
    <2>4. Hidl!IsOffloadAacConfigurationValid(hidl)
      BY <1>2, <2>1, <2>2, <2>3, AacShown DEF Hidl!IsOffloadAacConfigurationValid
    <2> QED BY <1>2, <1>3, <1>5, <2>4, LegacyCheck
  <1>6. CASE config.codec = "LDAC"
    <2>1. IsOffloadLdacConfigurationValid(config)
      BY <1>6 DEF IsOffloadCodecConfigurationValid
    <2>2. config.specific = "ldacConfig"
      BY <2>1 DEF IsOffloadLdacConfigurationValid
    <2>3. hidl.fields = to_hidl_ldac_config(config.fields)
      BY <2>2 DEF to_hidl_codec_config_2_0
    <2>4. Hidl!IsOffloadLdacConfigurationValid(hidl)
      BY <1>2, <2>1, <2>2, <2>3, LdacShown DEF Hidl!IsOffloadLdacConfigurationValid
    <2> QED BY <1>2, <1>3, <1>6, <2>4, LegacyCheck
  <1>7. CASE config.codec = "APTX"
    <2>1. IsOffloadAptxConfigurationValid(config)
      BY <1>7 DEF IsOffloadCodecConfigurationValid
    <2>2. config.specific = "aptxConfig"
      BY <2>1 DEF IsOffloadAptxConfigurationValid
    <2>3. hidl.fields = to_hidl_aptx_config(config.fields)
      BY <2>2 DEF to_hidl_codec_config_2_0
    <2>4. Hidl!IsOffloadAptxConfigurationValid(hidl)
      BY <1>2, <2>1, <2>2, <2>3, AptxShown DEF Hidl!IsOffloadAptxConfigurationValid
    <2> QED BY <1>2, <1>3, <1>7, <2>4, LegacyCheck
  <1>8. CASE config.codec = "APTX_HD"
    <2>1. IsOffloadAptxHdConfigurationValid(config)
      BY <1>8 DEF IsOffloadCodecConfigurationValid
    <2>2. config.specific = "aptxConfig"
      BY <2>1 DEF IsOffloadAptxHdConfigurationValid
    <2>3. hidl.fields = to_hidl_aptx_config(config.fields)
      BY <2>2 DEF to_hidl_codec_config_2_0
    <2>4. Hidl!IsOffloadAptxHdConfigurationValid(hidl)
      BY <1>2, <2>1, <2>2, <2>3, AptxHdShown DEF Hidl!IsOffloadAptxHdConfigurationValid
    <2> QED BY <1>2, <1>3, <1>8, <2>4, LegacyCheck
  <1>9. CASE config.codec = "OPUS"
    <2>1. hidl.codec = "UNKNOWN"
      BY <1>2, <1>9
    <2>2. ~ valid
      BY <1>3, <2>1, LegacyCheck
    <2> QED BY <1>9, <2>2
  <1> QED BY <1>1, <1>4, <1>5, <1>6, <1>7, <1>8, <1>9

\* The one legacy name of an A2DP offload type.
LEMMA LegacyA2dpOffload ==
  ASSUME type \in A2dpOffloadTypes, NEW t \in LegacyTypes
  PROVE  t = "A2DP_HARDWARE_OFFLOAD_DATAPATH"
  <1>1. t \in Hidl!Types_2_1 /\ from_session_type_2_1(t) = type
    BY DEF LegacyTypes
  <1>2. CASE t = "LE_AUDIO_SOFTWARE_DECODED_DATAPATH"
    BY <1>1, <1>2 DEF from_session_type_2_1, A2dpOffloadTypes
  <1>3. CASE t \notin { "A2DP_HARDWARE_OFFLOAD_DATAPATH", "LE_AUDIO_SOFTWARE_DECODED_DATAPATH" }
    <2>1. from_session_type_2_1(t) = t
      BY <1>3 DEF from_session_type_2_1
    <2> QED BY <1>1, <1>3, <2>1 DEF A2dpOffloadTypes, Hidl!Types_2_1, Hidl!Types_2_0, Hidl!LeOffloadTypes_2_1
  <1> QED BY <1>2, <1>3

LEMMA ConfigShownIsValid ==
  ASSUME ProvidersInv
  PROVE  LegacyConfigIsValid
  <1> SUFFICES ASSUME SessionReady, NEW t \in LegacyTypes, NEW bitrate \in ExtremeBitrates
               PROVE  LET config == session.audio_config
                          hidl   == to_hidl_audio_config_2_1(config, bitrate)
                      IN  /\ config.tag = "a2dpConfig" =>
                               (Hidl!IsOffloadCodecConfigurationValid(t, hidl) <=> config.codec # "OPUS")
                          /\ config.tag = "pcmConfig" =>
                               (Hidl!IsSoftwarePcmConfigurationValid_2_1(hidl.pcm)
                                  <=> config.fields.rate \notin { 8000, 32000 } /\ config.fields.interval # 0)
    BY DEF LegacyConfigIsValid
  <1> DEFINE config == session.audio_config
             hidl   == to_hidl_audio_config_2_1(config, bitrate)
  <1>1. type \in SoftwareTypes \cup OffloadTypes /\ Accepts(config)
    BY DEF ProvidersInv, ProvidersTypeOK, SessionConfigAccepted, SessionReady
  <1>2. CASE type \in SoftwareTypes
    <2>1. /\ config.tag = "pcmConfig" /\ IsSoftwarePcmConfigurationValid(config.fields)
          /\ hidl = [ tag |-> "pcmConfig", pcm |-> to_hidl_pcm_config_2_1(config.fields) ]
      BY <1>2, SoftwareShown
    <2>2. hidl.pcm = to_hidl_pcm_config_2_1(config.fields)
      BY <2>1
    <2> QED BY <2>1, <2>2, PcmShown
  <1>3. CASE type \in A2dpOffloadTypes
    <2>1. config.tag \in { "a2dp", "a2dpConfig" }
      BY <1>1, <1>3, AcceptedByA2dpOffload
    <2>2. CASE config.tag = "a2dpConfig"
      <3>1. t = "A2DP_HARDWARE_OFFLOAD_DATAPATH"
        BY <1>3, LegacyA2dpOffload
      <3>2. hidl = to_hidl_codec_config_2_0(config, bitrate)
        BY <2>2 DEF to_hidl_audio_config_2_1
      <3>3. IsOffloadCodecConfigurationValid(type, config)
        BY <1>1, <1>3, <2>2, AcceptedByA2dpOffload
      <3>4. Hidl!IsBitrate(bitrate)
        BY ExtremesPass
      <3> QED BY <2>2, <3>1, <3>2, <3>3, <3>4, CodecShown
    <2> QED BY <2>1, <2>2
  <1>4. CASE type \in OffloadTypes \ A2dpOffloadTypes
    <2>1. config.tag \in TagsOf(type)
      BY <1>1, AcceptedTag
    <2>2. TagsOf(type) \cap { "pcmConfig", "a2dpConfig" } = {}
      BY <1>4, TypeKinds DEF TagsOf
    <2> QED BY <2>1, <2>2
  <1> QED BY <1>1, <1>2, <1>3, <1>4

\* Whatever configuration a session was brought to hold, a legacy client that reads it finds a valid
\* one, Opus, two rates and a zero interval aside.
THEOREM ProvidersLegacyConfigIsValid == ProvidersSpec => []LegacyConfigIsValid
  BY ProvidersInvariant, ConfigShownIsValid, PTL

-----------------------------------------------------------------------------
(* The codecs of LE audio offload: what the statics remember is what the   *)
(* file says, whichever query filled them.                                 *)

\* The capabilities of the file.
FileCapabilities ==
  IF file # NoFile /\ Usable(Loaded(file)) THEN Compose(Loaded(file)) ELSE << >>

\* The flag of an invalid file keeps it from being read again: it may only be up when the file has
\* nothing to say or what it says is remembered.
CodecsInv ==
  /\ leAudioCodecCapabilities \in { << >>, FileCapabilities }
  /\ defaultCapabilities \in { << >>, FileCapabilities }
  /\ isInvalidFileContent => FileCapabilities = << >> \/ leAudioCodecCapabilities # << >>
  /\ CapabilitiesAreTheFiles

LEMMA NothingIsNotUsable == ~ Usable(NothingLoaded)
  BY DEF Usable, NothingLoaded

\* What a load of the file gives, through the flag that may withhold it.
LEMMA ParsedCapabilities ==
  ASSUME CodecsInv, leAudioCodecCapabilities = << >>,
         NEW maps, maps = IF Parsed = NoFile THEN NothingLoaded ELSE LoadConfigurationToMap(Parsed)
  PROVE  (IF Usable(maps) THEN Compose(maps) ELSE << >>) = FileCapabilities
  <1>1. CASE isInvalidFileContent
    <2>1. Parsed = NoFile
      BY <1>1 DEF Parsed
    <2>2. ~ Usable(maps)
      BY <2>1, NothingIsNotUsable
    <2> QED BY <1>1, <2>2 DEF CodecsInv
  <1>2. CASE ~ isInvalidFileContent
    <2>1. Parsed = file
      BY <1>2 DEF Parsed
    <2>2. CASE file # NoFile /\ Usable(Loaded(file))
      BY <2>1, <2>2 DEF LoadConfigurationToMap, FileCapabilities
    <2>3. CASE file = NoFile \/ ~ Usable(Loaded(file))
      <3>1. maps = NothingLoaded
        BY <2>1, <2>3 DEF LoadConfigurationToMap
      <3> QED BY <2>3, <3>1, NothingIsNotUsable DEF FileCapabilities
    <2> QED BY <2>2, <2>3
  <1> QED BY <1>1, <1>2

LEMMA CapabilitiesQueryKeeps ==
  ASSUME CodecsInv, GetLeAudioOffloadCodecCapabilities
  PROVE  CodecsInv'
  <1>1. /\ file' = file
        /\ told'.query = "capabilities" /\ told'.answer = defaultCapabilities'
    BY DEF GetLeAudioOffloadCodecCapabilities
  <1>2. FileCapabilities' = FileCapabilities
    BY <1>1 DEF FileCapabilities
  <1>3. /\ leAudioCodecCapabilities' \in { << >>, FileCapabilities }
        /\ defaultCapabilities' = FileCapabilities
        /\ isInvalidFileContent' => FileCapabilities = << >> \/ leAudioCodecCapabilities' # << >>
    <2>1. CASE defaultCapabilities # << >>
      BY <2>1 DEF GetLeAudioOffloadCodecCapabilities, CodecsInv
    <2>2. CASE defaultCapabilities = << >> /\ leAudioCodecCapabilities # << >>
      BY <2>2 DEF GetLeAudioOffloadCodecCapabilities, LoadCapabilities, CodecsInv
    <2>3. CASE defaultCapabilities = << >> /\ leAudioCodecCapabilities = << >>
      <3> DEFINE maps == IF Parsed = NoFile THEN NothingLoaded ELSE LoadConfigurationToMap(Parsed)
                 caps == IF Usable(maps) THEN Compose(maps) ELSE << >>
      <3>1. /\ leAudioCodecCapabilities' = caps /\ defaultCapabilities' = caps
            /\ isInvalidFileContent' = (caps = << >>)
        BY <2>3 DEF GetLeAudioOffloadCodecCapabilities, LoadCapabilities
      <3>2. caps = FileCapabilities
        BY <2>3, ParsedCapabilities
      <3> QED BY <3>1, <3>2
    <2> QED BY <2>1, <2>2, <2>3
  <1>4. CapabilitiesAreTheFiles'
    BY <1>1, <1>2, <1>3 DEF CapabilitiesAreTheFiles, FileCapabilities
  <1> QED BY <1>2, <1>3, <1>4 DEF CodecsInv

\* A query of codec information may clear what was loaded, and raises the flag only over a file that
\* is empty or remembered.
LEMMA InfoQueryKeeps ==
  ASSUME CodecsInv, NEW t \in LeOffloadTypes, GetLeAudioOffloadCodecInfo(t)
  PROVE  CodecsInv'
  <1>1. file' = file /\ defaultCapabilities' = defaultCapabilities /\ told'.query = t
    BY DEF GetLeAudioOffloadCodecInfo
  <1>2. FileCapabilities' = FileCapabilities
    BY <1>1 DEF FileCapabilities
  <1>3. t # "capabilities"
    BY DEF LeOffloadTypes, LeUnicastOffloadTypes, LeBroadcastOffloadType
  <1>4. CapabilitiesAreTheFiles'
    BY <1>1, <1>3 DEF CapabilitiesAreTheFiles
  <1>5. /\ leAudioCodecCapabilities' \in { << >>, FileCapabilities }
        /\ isInvalidFileContent' => FileCapabilities = << >> \/ leAudioCodecCapabilities' # << >>
    <2>1. CASE UNCHANGED << leAudioCodecCapabilities, isInvalidFileContent, session_codecs >>
      BY <2>1 DEF CodecsInv
    <2>2. CASE LoadInfo(Parsed) /\ session_codecs = << >>
      <3> DEFINE maps == IF Parsed = NoFile THEN NothingLoaded ELSE LoadConfigurationToMap(Parsed)
      <3>1. /\ isInvalidFileContent' = ~ Usable(maps)
            /\ leAudioCodecCapabilities' = IF Parsed = NoFile THEN leAudioCodecCapabilities ELSE << >>
        BY <2>2 DEF LoadInfo
      <3>2. CASE Parsed = NoFile
        <4>1. leAudioCodecCapabilities' = leAudioCodecCapabilities
          BY <3>1, <3>2
        <4>2. \/ leAudioCodecCapabilities # << >> \/ isInvalidFileContent
              \/ file = NoFile
          BY <3>2 DEF Parsed
        <4>3. file = NoFile => FileCapabilities = << >>
          BY DEF FileCapabilities
        <4> QED BY <4>1, <4>2, <4>3 DEF CodecsInv
      <3>3. CASE Parsed # NoFile
        <4>1. Parsed = file /\ file # NoFile
          BY <3>3 DEF Parsed
        <4>2. ~ Usable(maps) => FileCapabilities = << >>
          BY <3>3, <4>1 DEF LoadConfigurationToMap, FileCapabilities
        <4> QED BY <3>1, <3>3, <4>2
      <3> QED BY <3>2, <3>3
    <2> QED BY <2>1, <2>2 DEF GetLeAudioOffloadCodecInfo, LoadInfo
  <1> QED BY <1>1, <1>2, <1>4, <1>5 DEF CodecsInv

\* The capabilities the factory tells are those of the file, whatever was queried before.
THEOREM CodecsCapabilitiesAreTheFiles == CodecsSpec => []CapabilitiesAreTheFiles
  <1>1. CodecsInit => CodecsInv
    BY DEF CodecsInit, CodecsInv, CapabilitiesAreTheFiles, NothingTold
  <1>2. CodecsInv /\ [CodecsNext]_codecsVars => CodecsInv'
    <2> SUFFICES ASSUME CodecsInv, [CodecsNext]_codecsVars
                 PROVE  CodecsInv'
      OBVIOUS
    <2>1. CASE GetLeAudioOffloadCodecCapabilities
      BY <2>1, CapabilitiesQueryKeeps
    <2>2. CASE \E t \in LeOffloadTypes : GetLeAudioOffloadCodecInfo(t)
      BY <2>2, InfoQueryKeeps
    <2>3. CASE UNCHANGED codecsVars
      BY <2>3 DEF codecsVars, CodecsInv, FileCapabilities, CapabilitiesAreTheFiles
    <2> QED BY <2>1, <2>2, <2>3 DEF CodecsNext
  <1>3. CodecsInv => CapabilitiesAreTheFiles
    BY DEF CodecsInv
  <1> QED BY <1>1, <1>2, <1>3, PTL DEF CodecsSpec

\* The calls of the LE audio provider reach the statics through the same two queries.
THEOREM LeAudioUsesTheCodecs == LeSpec => CodecsSpec
  <1>1. LeInit => CodecsInit
    BY DEF LeInit
  <1>2. [LeNext]_leVars => [CodecsNext]_codecsVars
    <2> SUFFICES ASSUME [LeNext]_leVars
                 PROVE  CodecsNext \/ UNCHANGED codecsVars
      OBVIOUS
    <2>1. CASE FactoryQuery
      BY <2>1 DEF FactoryQuery
    <2>2. ASSUME NEW ask \in AseAsks, NEW configsRead \in BOOLEAN, NEW scenariosRead \in BOOLEAN,
                 GetLeAudioAseConfiguration(ask, configsRead, scenariosRead)
          PROVE  UNCHANGED codecsVars
      BY <2>2 DEF GetLeAudioAseConfiguration, codecsVars
    <2>3. ASSUME NEW context, NEW direction, NEW req, NEW configsRead, NEW scenariosRead,
                 GetLeAudioAseQosConfiguration(context, direction, req, configsRead, scenariosRead)
          PROVE  UNCHANGED codecsVars
      BY <2>3 DEF GetLeAudioAseQosConfiguration, codecsVars
    <2>4. ASSUME NEW codec, NEW disabled, SetCodecPriority(codec, disabled)
          PROVE  UNCHANGED codecsVars
      BY <2>4 DEF SetCodecPriority, codecsVars
    <2>5. ASSUME NEW cap, NEW bisNum, GetLeAudioBroadcastConfiguration(cap, bisNum)
          PROVE  CodecsNext \/ UNCHANGED codecsVars
      <3>1. LeBroadcastOffloadType \in LeOffloadTypes
        BY DEF LeOffloadTypes
      <3>2. GetLeAudioOffloadCodecInfo(LeBroadcastOffloadType) \/ UNCHANGED codecsVars
        BY <2>5 DEF GetLeAudioBroadcastConfiguration, codecsVars
      <3> QED BY <3>1, <3>2 DEF CodecsNext
    <2>6. CASE UNCHANGED leVars
      BY <2>6 DEF leVars, codecsVars
    <2> QED BY <2>1, <2>2, <2>3, <2>4, <2>5, <2>6 DEF LeNext
  <1> QED BY <1>1, <1>2, PTL DEF LeSpec, CodecsSpec

\* Nor can a call of the LE audio provider that comes between change what the factory tells.
THEOREM LeAudioCapabilitiesAreTheFiles == LeSpec => []CapabilitiesAreTheFiles
  BY LeAudioUsesTheCodecs, CodecsCapabilitiesAreTheFiles, PTL

-----------------------------------------------------------------------------
(* The ASE configurations of an LE audio offload session.                  *)

\* A place of a set of places of a list that none of the others lies before.
LEMMA FirstPlace ==
  ASSUME NEW places \in SUBSET Nat, places # {}
  PROVE  \E i \in places : \A j \in places : i <= j
  <1>1. IsWellFoundedOn(OpToRel(<, Nat), Nat)
    BY NatLessThanWellFounded
  <1>2. PICK i \in places : \A j \in places : ~ (<< j, i >> \in OpToRel(<, Nat))
    BY <1>1, WFMin
  <1>3. ASSUME NEW j \in places
        PROVE  i <= j
    <2>1. j \in Nat /\ i \in Nat
      OBVIOUS
    <2>2. ~ (j < i)
      <3>1. ~ (<< j, i >> \in OpToRel(<, Nat))
        BY <1>2
      <3>2. << j, i >> \in Nat \X Nat /\ << j, i >>[1] = j /\ << j, i >>[2] = i
        BY <2>1
      <3> QED BY <3>1, <3>2 DEF OpToRel
    <2> QED BY <2>1, <2>2
  <1> QED BY <1>3

\* The first entry of a name is one of that name.
LEMMA FindsNamed ==
  ASSUME NEW entries, NEW name, DOMAIN entries \subseteq Nat, Named(entries, name) # {}
  PROVE  \E i \in DOMAIN entries : Find(entries, name) = entries[i]
  <1>1. \E i \in Named(entries, name) : \A j \in Named(entries, name) : i <= j
    BY FirstPlace DEF Named
  <1> QED BY <1>1 DEF Find, Named

\* A direction configuration as the files can give one.
ShapedEntry(d) ==
  /\ DOMAIN d.ase.ltv \subseteq { "freq", "duration", "alloc", "octets", "blocks" }
  /\ "freq" \in DOMAIN d.ase.ltv => d.ase.ltv["freq"] \in SettingFreqs
  /\ "duration" \in DOMAIN d.ase.ltv => d.ase.ltv["duration"] \in { 7500, 10000 }
  /\ "octets" \in DOMAIN d.ase.ltv => d.ase.ltv["octets"] \in Nat
  /\ d.qos.maxLatency \in Nat
  /\ d.qos # NoQos

LEMMA DataIsShaped ==
  ASSUME NEW sub, { sub.octets, sub.blocks } \subseteq Nat \cup { Missing }
  PROVE  LET ltv == ConfigurationData(sub)
         IN  /\ DOMAIN ltv \subseteq { "freq", "duration", "alloc", "octets", "blocks" }
             /\ "freq" \in DOMAIN ltv => ltv["freq"] \in SettingFreqs
             /\ "duration" \in DOMAIN ltv => ltv["duration"] \in { 7500, 10000 }
             /\ "octets" \in DOMAIN ltv => ltv["octets"] \in Nat
  <1> DEFINE ltv == ConfigurationData(sub)
             tags == { "alloc", "octets", "blocks" }
                       \cup (IF sub.freq \in SettingFreqs THEN { "freq" } ELSE {})
                       \cup (IF sub.duration \in { Missing, 7500, 10000 } THEN { "duration" } ELSE {})
  <1>1. DOMAIN ltv = tags
    BY DEF ConfigurationData
  <1>2. tags \subseteq { "freq", "duration", "alloc", "octets", "blocks" }
    OBVIOUS
  <1>3. "freq" \in tags => sub.freq \in SettingFreqs /\ ltv["freq"] = sub.freq
    BY DEF ConfigurationData
  <1>4. "duration" \in tags => /\ sub.duration \in { Missing, 7500, 10000 }
                               /\ ltv["duration"] = IF sub.duration = Missing THEN 7500 ELSE sub.duration
    BY DEF ConfigurationData
  <1>5. ltv["octets"] = IF sub.octets = Missing THEN 0 ELSE sub.octets
    BY DEF ConfigurationData
  <1> HIDE DEF ltv, tags
  <1> QED BY <1>1, <1>2, <1>3, <1>4, <1>5 DEF ltv

LEMMA DirectedIsShaped ==
  ASSUME NEW i \in DOMAIN Content.configurations, NEW direction \in { 1, 2 },
         NEW k \in DOMAIN Directed(Content.configurations[i], direction)
  PROVE  k \in Nat /\ ShapedEntry(Directed(Content.configurations[i], direction)[k])
  <1> DEFINE c == Content.configurations[i]
             subs == IF Named(Content.codecs, c.codec) = {} THEN << >> ELSE Find(Content.codecs, c.codec).subs
             qos == Find(Content.qos, IF direction = 1 THEN SinkQos(c) ELSE SourceQos(c))
  <1>1. k \in DOMAIN subs /\ Directed(c, direction)[k] = DirectionConfiguration(subs[k], qos)
    BY DEF Directed
  <1>2. PICK j \in DOMAIN Content.codecs : subs = Content.codecs[j].subs
    <2>1. Named(Content.codecs, c.codec) # {}
      BY <1>1
    <2> QED BY <2>1, FindsNamed, ContentAssumption
  <1>3. k \in Nat /\ { subs[k].octets, subs[k].blocks } \subseteq Nat \cup { Missing }
    BY <1>1, <1>2, ContentAssumption
  <1>4. PICK q \in DOMAIN Content.qos : qos = Content.qos[q]
    BY FindsNamed, ContentAssumption, QosIsNamed
  <1> HIDE DEF c, subs, qos
  <1>5. qos.maxLatency \in Nat /\ NoQos # [ retransmissions |-> qos.retransmissions, maxLatency |-> qos.maxLatency ]
    BY <1>4, ContentAssumption
  <1>6. ShapedEntry(DirectionConfiguration(subs[k], qos))
    BY <1>3, <1>5, DataIsShaped DEF ShapedEntry, DirectionConfiguration
  <1> QED BY <1>1, <1>3, <1>6 DEF c

\* Every entry of every setting is one the files can give, at a place of its own.
LEMMA SettingsAreShaped ==
  ASSUME NEW place \in DOMAIN AllSettings, NEW direction,
         NEW k \in DOMAIN DirectionList(AllSettings[place], direction)
  PROVE  /\ place \in Nat \X Nat /\ k \in Nat
         /\ ShapedEntry(DirectionList(AllSettings[place], direction)[k])
  <1>1. PICK n \in DOMAIN Content.scenarios : \E m \in KnownNames(Content.scenarios[n]) : place = << n, m >>
    BY DEF AllSettings, SettingPlaces
  <1>2. PICK m \in KnownNames(Content.scenarios[n]) : place = << n, m >>
    BY <1>1
  <1> DEFINE s == Content.scenarios[n]
             i == CHOOSE x \in Configurations : Content.configurations[x].name = s.configurations[m]
  <1>3. m \in DOMAIN s.configurations
    BY DEF KnownNames
  <1>4. i \in Configurations
    BY DEF KnownNames
  <1>5. i \in DOMAIN Content.configurations
    BY <1>4 DEF Configurations
  <1>6. AllSettings[place] = SettingFor(s.name, s.configurations[m])
    BY <1>2 DEF AllSettings
  <1>7. /\ AllSettings[place].sink = Directed(Content.configurations[i], 1)
        /\ AllSettings[place].source = Directed(Content.configurations[i], 2)
    BY <1>6 DEF SettingFor
  <1>8. n \in Nat /\ m \in Nat
    BY <1>3, ContentAssumption
  <1> HIDE DEF i
  <1>9. \E d \in { 1, 2 } : DirectionList(AllSettings[place], direction) = Directed(Content.configurations[i], d)
    BY <1>7 DEF DirectionList
  <1> QED BY <1>2, <1>5, <1>8, <1>9, DirectedIsShaped

\* On entries of the files the code covers what a capability covers.
LEMMA CapabilitiesCover ==
  ASSUME NEW d, ShapedEntry(d), NEW ask \in AseAsks, NEW cap \in ask.capabilities, NEW setting
  PROVE  (/\ isCapabilitiesMatchedContext(setting.context, cap)
          /\ isMatchedValidCodec(d.ase.codec, cap.codec)
          /\ isCapabilitiesMatchedCodecConfiguration(d.ase.ltv, cap.ltv))
         <=> d.ase.codec \notin codec_disabled /\ Covers(cap, setting, d, UnmappedFreqs)
  <1> DEFINE tags == { "freq", "duration", "alloc", "octets", "blocks" }
             cfg == d.ase.ltv
             caps == cap.ltv
  <1>1. ASSUME NEW tag \in DOMAIN caps, tag \in DOMAIN cfg
        PROVE  MatchesLtv(tag, cfg[tag], caps[tag]) <=>
                 /\ tag = "freq" => cfg["freq"] \in caps["freq"] \ UnmappedFreqs
                 /\ tag = "duration" => cfg["duration"] \in caps["duration"]
                 /\ tag = "octets" => cfg["octets"] \in caps["octets"][1] .. caps["octets"][2]
                 /\ tag = "blocks" => cfg["blocks"] <= caps["blocks"]
    <2>1. tag \in tags
      BY <1>1 DEF ShapedEntry
    <2>2. CASE tag = "freq"
      <3>1. cfg["freq"] \in SettingFreqs
        BY <1>1, <2>2 DEF ShapedEntry
      <3> HIDE DEF cfg, caps
      <3> QED BY <2>2, <3>1 DEF MatchesLtv, SettingFreqs, MatchableFreqs, UnmappedFreqs
    <2>3. CASE tag = "duration"
      <3>1. cfg["duration"] \in { 7500, 10000 }
        BY <1>1, <2>3 DEF ShapedEntry
      <3> HIDE DEF cfg, caps
      <3> QED BY <2>3, <3>1 DEF MatchesLtv
    <2>4. CASE tag = "octets"
      <3>1. cfg["octets"] \in Nat /\ caps["octets"] \in Nat \X Nat
        BY <1>1, <2>4, AsksAssumption DEF ShapedEntry
      <3>2. caps["octets"][1] \in Nat /\ caps["octets"][2] \in Nat
        BY <3>1
      <3> HIDE DEF cfg, caps
      <3> QED BY <2>4, <3>1, <3>2 DEF MatchesLtv
    <2>5. CASE tag = "blocks"
      BY <2>5 DEF MatchesLtv
    <2>6. CASE tag = "alloc"
      BY <2>6 DEF MatchesLtv
    <2> QED BY <2>1, <2>2, <2>3, <2>4, <2>5, <2>6
  <1>2. isCapabilitiesMatchedCodecConfiguration(cfg, caps) <=>
          /\ DOMAIN caps \subseteq DOMAIN cfg
          /\ "freq" \in DOMAIN caps => cfg["freq"] \in caps["freq"] \ UnmappedFreqs
          /\ "duration" \in DOMAIN caps => cfg["duration"] \in caps["duration"]
          /\ "octets" \in DOMAIN caps => cfg["octets"] \in caps["octets"][1] .. caps["octets"][2]
          /\ "blocks" \in DOMAIN caps => cfg["blocks"] <= caps["blocks"]
    <2> HIDE DEF cfg, caps
    <2> QED BY <1>1 DEF isCapabilitiesMatchedCodecConfiguration
  <1> QED BY <1>2 DEF Covers, isMatchedValidCodec, isCapabilitiesMatchedContext

\* Of the entries of codecs that are not disabled the code takes what a requirement wants.
LEMMA RequirementsWant ==
  ASSUME NEW d, NEW req, NEW setting, NEW direction, d.ase.codec \notin codec_disabled
  PROVE  (/\ setting.context = req.context
          /\ \/ DirectionList(req, direction) = NoList
             \/ \E k \in DOMAIN DirectionList(req, direction) :
                  isMatchedAseConfiguration(d.ase, DirectionList(req, direction)[k]))
         <=> Wants(req, setting, direction, d)
  <1>1. ASSUME NEW w
        PROVE  isMatchedAseConfiguration(d.ase, w) <=>
                 /\ w.codec \in { Missing, d.ase.codec }
                 /\ w.latency = d.ase.latency
                 /\ \A tag \in DOMAIN w.ltv : << tag, w.ltv[tag] >> \in { << t, d.ase.ltv[t] >> : t \in DOMAIN d.ase.ltv }
    <2>1. \A tag \in DOMAIN w.ltv : (tag \in DOMAIN d.ase.ltv /\ d.ase.ltv[tag] = w.ltv[tag])
            <=> << tag, w.ltv[tag] >> \in { << t, d.ase.ltv[t] >> : t \in DOMAIN d.ase.ltv }
      OBVIOUS
    <2> QED BY <2>1 DEF isMatchedAseConfiguration, isMatchedValidCodec
  <1> QED BY <1>1 DEF Wants

\* What the two filters leave of a list, and what they should.
Left(setting, ask, cap, req) ==
  FitRequirement(setting.context, FitCapability(setting, cap, ask.direction), req, ask.direction)

Suits(d, setting, ask, cap, req) ==
  d.ase.codec \notin codec_disabled /\ Covers(cap, setting, d, UnmappedFreqs) /\ Wants(req, setting, ask.direction, d)

\* The filters leave the entries that suit, at their places.
LEMMA FiltersLeave ==
  ASSUME NEW setting, NEW ask \in AseAsks, NEW cap \in ask.capabilities, NEW req, NEW list, NEW left,
         list = DirectionList(setting, ask.direction), left = Left(setting, ask, cap, req),
         \A i \in DOMAIN list : ShapedEntry(list[i])
  PROVE  /\ DOMAIN left \subseteq DOMAIN list
         /\ \A i \in DOMAIN list : i \in DOMAIN left <=> Suits(list[i], setting, ask, cap, req)
         /\ \A i \in DOMAIN left : left[i] = list[i]
  <1> DEFINE able == FitCapability(setting, cap, ask.direction)
             wanted == DirectionList(req, ask.direction)
  <1>1. /\ DOMAIN able = { i \in DOMAIN list : list[i].ase.codec \notin codec_disabled /\ Covers(cap, setting, list[i], UnmappedFreqs) }
        /\ \A i \in DOMAIN able : able[i] = list[i]
    <2>1. /\ DOMAIN able = { i \in DOMAIN list : /\ isCapabilitiesMatchedContext(setting.context, cap)
                                                /\ isMatchedValidCodec(list[i].ase.codec, cap.codec)
                                                /\ isCapabilitiesMatchedCodecConfiguration(list[i].ase.ltv, cap.ltv) }
          /\ \A i \in DOMAIN able : able[i] = list[i]
      BY DEF FitCapability, At
    <2> HIDE DEF able
    <2> QED BY <2>1, CapabilitiesCover
  <1>2. /\ DOMAIN left = { i \in DOMAIN able : /\ setting.context = req.context
                                              /\ \/ wanted = NoList
                                                 \/ \E k \in DOMAIN wanted : isMatchedAseConfiguration(able[i].ase, wanted[k]) }
        /\ \A i \in DOMAIN left : left[i] = able[i]
    <2> HIDE DEF able
    <2> QED BY DEF Left, FitRequirement, At, able
  <1>3. \A i \in DOMAIN able : i \in DOMAIN left <=> Wants(req, setting, ask.direction, list[i])
    <2> HIDE DEF able
    <2> QED BY <1>1, <1>2, RequirementsWant DEF wanted
  <1> HIDE DEF able, wanted
  <1>4. DOMAIN left \subseteq DOMAIN able
    BY <1>2
  <1>5. \A i \in DOMAIN list : i \in DOMAIN left <=> Suits(list[i], setting, ask, cap, req)
    BY <1>1, <1>3, <1>4 DEF Suits
  <1> QED BY <1>1, <1>2, <1>4, <1>5

-----------------------------------------------------------------------------
\* The entries of an answer are entries of the settings at hand, of codecs that are not disabled.
AnswerIsListed ==
  ase_reply.call = "configuration" =>
    /\ ase_reply.disabled = codec_disabled
    /\ \A m \in ase_reply.answer : \A i \in DOMAIN m.list :
         \E p \in DOMAIN ase_configuration_settings :
           LET list == DirectionList(ase_configuration_settings[p], m.direction)
           IN  /\ ase_configuration_settings[p].context = m.context
               /\ i \in DOMAIN list /\ m.list[i] = list[i] /\ list[i].ase.codec \notin codec_disabled

\* The inductive invariant of the LE audio provider.
LeInv ==
  /\ ase_configuration_settings \in { << >>, AllSettings }
  /\ DOMAIN ase_configuration_settings # {} => configurations_loaded
  /\ AnswerIsListed
  /\ AnswerIsWhatFits

LEMMA SettingsStay ==
  ASSUME LeInv, NEW configsRead \in BOOLEAN, NEW scenariosRead \in BOOLEAN, LoadSettings(configsRead, scenariosRead)
  PROVE  /\ ase_configuration_settings' \in { << >>, AllSettings }
         /\ DOMAIN ase_configuration_settings' # {} => configurations_loaded'
         /\ DOMAIN ase_configuration_settings # {} => UNCHANGED ase_configuration_settings
  <1>1. DOMAIN AllSettings # {} => Configurations # {}
    BY DEF AllSettings, SettingPlaces, KnownNames
  <1>2. DOMAIN << >> = {}
    OBVIOUS
  <1> QED BY <1>1, <1>2 DEF LeInv, LoadSettings, settingsVars

\* What is answered is what fits.
LEMMA ConfigurationAnswers ==
  ASSUME LeInv, NEW ask \in AseAsks, NEW configsRead \in BOOLEAN, NEW scenariosRead \in BOOLEAN,
         GetLeAudioAseConfiguration(ask, configsRead, scenariosRead)
  PROVE  LeInv'
  <1> DEFINE settings == ase_configuration_settings'
             left(p, cap, req) == Left(settings[p], ask, cap, req)
             list(p) == DirectionList(settings[p], ask.direction)
             fits(p, cap, req, i) == Suits(list(p)[i], settings[p], ask, cap, req)
  <1>1. /\ settings \in { << >>, AllSettings }
        /\ DOMAIN settings # {} => configurations_loaded'
    BY SettingsStay DEF GetLeAudioAseConfiguration
  <1>2. /\ ase_reply'.call = "configuration" /\ ase_reply'.ask = ask /\ ase_reply'.disabled = codec_disabled
        /\ ase_reply'.answer = { m \in Matched(ask) : DOMAIN m.list # {} }
        /\ codec_disabled' = codec_disabled
    BY DEF GetLeAudioAseConfiguration
  <1>3. ASSUME NEW p \in DOMAIN settings, NEW cap \in ask.capabilities, NEW req
        PROVE  /\ DOMAIN left(p, cap, req) = { i \in DOMAIN list(p) : fits(p, cap, req, i) }
               /\ \A i \in DOMAIN left(p, cap, req) : left(p, cap, req)[i] = list(p)[i]
    <2>1. settings = AllSettings
      BY <1>1
    <2>2. \A i \in DOMAIN list(p) : ShapedEntry(list(p)[i])
      BY <2>1, SettingsAreShaped
    <2>3. list(p) = DirectionList(settings[p], ask.direction) /\ left(p, cap, req) = Left(settings[p], ask, cap, req)
      OBVIOUS
    <2> HIDE DEF settings, list, left, fits
    <2>4. /\ DOMAIN left(p, cap, req) \subseteq DOMAIN list(p)
          /\ \A i \in DOMAIN list(p) : i \in DOMAIN left(p, cap, req) <=> Suits(list(p)[i], settings[p], ask, cap, req)
          /\ \A i \in DOMAIN left(p, cap, req) : left(p, cap, req)[i] = list(p)[i]
      BY <2>2, <2>3, FiltersLeave
    <2> QED BY <2>4 DEF fits
  <1>4. Matched(ask) =
          { [ context |-> settings[p].context, direction |-> ask.direction, list |-> left(p, cap, req) ] :
              p \in DOMAIN settings, cap \in ask.capabilities, req \in ask.requirements }
    BY DEF Matched, Left
  <1> HIDE DEF settings, left, list
  <1>5. ASSUME NEW m \in ase_reply'.answer
        PROVE  \E p \in DOMAIN settings, cap \in ask.capabilities, req \in ask.requirements :
                 /\ m.context = settings[p].context /\ m.direction = ask.direction
                 /\ DOMAIN m.list = { i \in DOMAIN list(p) : fits(p, cap, req, i) }
                 /\ \A i \in DOMAIN m.list : m.list[i] = list(p)[i]
    <2>1. PICK p \in DOMAIN settings, cap \in ask.capabilities, req \in ask.requirements :
            m = [ context |-> settings[p].context, direction |-> ask.direction, list |-> left(p, cap, req) ]
      BY <1>2, <1>4
    <2>2. m.list = left(p, cap, req) /\ m.context = settings[p].context /\ m.direction = ask.direction
      BY <2>1
    <2>3. /\ DOMAIN left(p, cap, req) = { i \in DOMAIN list(p) : fits(p, cap, req, i) }
          /\ \A i \in DOMAIN left(p, cap, req) : left(p, cap, req)[i] = list(p)[i]
      BY <1>3
    <2> HIDE DEF fits
    <2> QED BY <2>2, <2>3
  <1>6. ASSUME NEW p \in DOMAIN settings, NEW cap \in ask.capabilities, NEW req \in ask.requirements,
               NEW i \in DOMAIN list(p), fits(p, cap, req, i)
        PROVE  \E m \in ase_reply'.answer : /\ m.context = settings[p].context
                                            /\ i \in DOMAIN m.list /\ m.list[i] = list(p)[i]
    <2> DEFINE m == [ context |-> settings[p].context, direction |-> ask.direction, list |-> left(p, cap, req) ]
    <2>1. m \in Matched(ask)
      BY <1>4
    <2>2. /\ DOMAIN left(p, cap, req) = { k \in DOMAIN list(p) : fits(p, cap, req, k) }
          /\ \A k \in DOMAIN left(p, cap, req) : left(p, cap, req)[k] = list(p)[k]
      BY <1>3
    <2>3. i \in DOMAIN m.list /\ m.list[i] = list(p)[i]
      BY <2>2, <1>6
    <2> QED BY <2>1, <2>3, <1>2
  <1> DEFINE fitting(p) == { << settings[p].context, list(p)[i] >> : i \in { k \in DOMAIN list(p) :
                               /\ list(p)[k].ase.codec \notin codec_disabled
                               /\ \E cap \in ask.capabilities : Covers(cap, settings[p], list(p)[k], UnmappedFreqs)
                               /\ \E req \in ask.requirements : Wants(req, settings[p], ask.direction, list(p)[k]) } }
  <1>7. \A p \in DOMAIN settings : fitting(p) = Fitting(ase_reply.ask, ase_configuration_settings[p], UnmappedFreqs)'
    BY <1>2 DEF Fitting, list, settings
  <1>8. Answered' = UNION { { << m.context, m.list[i] >> : i \in DOMAIN m.list } : m \in ase_reply'.answer }
    BY DEF Answered
  <1>9. Answered' = UNION { fitting(p) : p \in DOMAIN settings }
    <2>1. ASSUME NEW m \in ase_reply'.answer, NEW i \in DOMAIN m.list
          PROVE  << m.context, m.list[i] >> \in UNION { fitting(p) : p \in DOMAIN settings }
      <3>1. PICK p \in DOMAIN settings, cap \in ask.capabilities, req \in ask.requirements :
              /\ m.context = settings[p].context
              /\ DOMAIN m.list = { k \in DOMAIN list(p) : fits(p, cap, req, k) }
              /\ \A k \in DOMAIN m.list : m.list[k] = list(p)[k]
        BY <1>5
      <3>2. i \in DOMAIN list(p) /\ fits(p, cap, req, i) /\ m.list[i] = list(p)[i]
        BY <3>1
      <3>3. << settings[p].context, list(p)[i] >> \in fitting(p)
        BY <3>2 DEF Suits
      <3> QED BY <3>1, <3>2, <3>3
    <2>2. ASSUME NEW p \in DOMAIN settings, NEW x \in fitting(p)
          PROVE  x \in Answered'
      <3>1. PICK i \in DOMAIN list(p) :
              /\ x = << settings[p].context, list(p)[i] >>
              /\ \E cap \in ask.capabilities, req \in ask.requirements : fits(p, cap, req, i)
        BY DEF Suits
      <3>2. PICK m \in ase_reply'.answer :
              m.context = settings[p].context /\ i \in DOMAIN m.list /\ m.list[i] = list(p)[i]
        BY <3>1, <1>6
      <3> QED BY <3>1, <3>2, <1>8
    <2> HIDE DEF fitting
    <2> QED BY <2>1, <2>2, <1>8
  <1>10. AnswerIsWhatFits'
    <2>1. UNION { fitting(p) : p \in DOMAIN settings }
            = UNION { Fitting(ase_reply.ask, ase_configuration_settings[p], UnmappedFreqs)' : p \in DOMAIN settings }
      <3> HIDE DEF fitting
      <3> QED BY <1>7
    <2>2. Answered' = UNION { Fitting(ase_reply.ask, ase_configuration_settings[p], UnmappedFreqs)' : p \in DOMAIN ase_configuration_settings' }
      BY <1>9, <2>1 DEF settings
    <2> QED BY <1>2, <2>2 DEF AnswerIsWhatFits, AllFitting
  <1>11. AnswerIsListed'
    <2>1. ASSUME NEW m \in ase_reply'.answer, NEW i \in DOMAIN m.list
          PROVE  \E p \in DOMAIN settings :
                   LET l == DirectionList(settings[p], m.direction)
                   IN  /\ settings[p].context = m.context
                       /\ i \in DOMAIN l /\ m.list[i] = l[i] /\ l[i].ase.codec \notin codec_disabled
      <3>1. PICK p \in DOMAIN settings, cap \in ask.capabilities, req \in ask.requirements :
              /\ m.context = settings[p].context /\ m.direction = ask.direction
              /\ DOMAIN m.list = { k \in DOMAIN list(p) : fits(p, cap, req, k) }
              /\ \A k \in DOMAIN m.list : m.list[k] = list(p)[k]
        BY <1>5
      <3> QED BY <3>1 DEF list, Suits
    <2> QED BY <1>2, <2>1 DEF AnswerIsListed, settings
  <1> QED BY <1>1, <1>10, <1>11 DEF LeInv, settings

\* Some place comes first.
LEMMA FirstOfPlaces ==
  ASSUME NEW hits \in SUBSET (Nat \X Nat \X Nat), hits # {}
  PROVE  \E p \in hits : \A q \in hits : ~ Before(q, p)
  <1>1. \A p \in hits : p[1] \in Nat /\ p[2] \in Nat /\ p[3] \in Nat
    OBVIOUS
  <1>2. PICK a \in { p[1] : p \in hits } : \A x \in { p[1] : p \in hits } : a <= x
    <2>1. { p[1] : p \in hits } \in SUBSET Nat /\ { p[1] : p \in hits } # {}
      BY <1>1
    <2> QED BY <2>1, FirstPlace
  <1> DEFINE ofA == { p \in hits : p[1] = a }
  <1>3. ofA # {}
    OBVIOUS
  <1>4. PICK b \in { p[2] : p \in ofA } : \A x \in { p[2] : p \in ofA } : b <= x
    <2>1. { p[2] : p \in ofA } \in SUBSET Nat /\ { p[2] : p \in ofA } # {}
      BY <1>1, <1>3
    <2> HIDE DEF ofA
    <2> QED BY <2>1, FirstPlace
  <1> DEFINE ofB == { p \in ofA : p[2] = b }
  <1>5. ofB # {}
    OBVIOUS
  <1>6. PICK c \in { p[3] : p \in ofB } : \A x \in { p[3] : p \in ofB } : c <= x
    <2>1. { p[3] : p \in ofB } \in SUBSET Nat /\ { p[3] : p \in ofB } # {}
      BY <1>1, <1>5
    <2> HIDE DEF ofB
    <2> QED BY <2>1, FirstPlace
  <1>7. PICK p \in hits : p[1] = a /\ p[2] = b /\ p[3] = c
    OBVIOUS
  <1>8. ASSUME NEW q \in hits PROVE ~ Before(q, p)
    <2>1. p[1] <= q[1]
      BY <1>2, <1>7
    <2>2. q[1] = p[1] => p[2] <= q[2]
      BY <1>4, <1>7
    <2>3. q[1] = p[1] /\ q[2] = p[2] => p[3] <= q[3]
      BY <1>6, <1>7
    <2> QED BY <1>1, <2>1, <2>2, <2>3 DEF Before
  <1> QED BY <1>8

\* A QoS asked for right after a configuration was answered is found.
LEMMA QosAnswers ==
  ASSUME LeInv, ase_reply.call = "configuration", NEW m \in ase_reply.answer, NEW i \in DOMAIN m.list,
         NEW read \in BOOLEAN,
         GetLeAudioAseQosConfiguration(m.context, m.direction, QosAsk(m, i), read, read)
  PROVE  LeInv'
  <1> DEFINE settings == ase_configuration_settings'
             req == QosAsk(m, i)
             places == QosPlaces(m.context, m.direction)
             at(p) == QosAt(p, m.direction)
             suits(p) == isMatchedAseConfiguration(at(p).ase, req.ase) /\ isMatchedQosRequirement(at(p).qos, req)
             hits == { p \in places : req = NoQos \/ suits(p) }
             first == CHOOSE p \in hits : \A q \in hits : ~ Before(q, p)
  <1>1. PICK p \in DOMAIN ase_configuration_settings :
          LET list == DirectionList(ase_configuration_settings[p], m.direction)
          IN  /\ ase_configuration_settings[p].context = m.context
              /\ i \in DOMAIN list /\ m.list[i] = list[i] /\ list[i].ase.codec \notin codec_disabled
    BY DEF LeInv, AnswerIsListed
  <1>2. settings = ase_configuration_settings /\ settings = AllSettings
    BY <1>1, SettingsStay DEF GetLeAudioAseQosConfiguration, LeInv
  <1>3. /\ ase_reply' = [ call |-> "qos", req |-> req, disabled |-> codec_disabled,
                          answer |-> FirstQos(m.context, m.direction, req) ]
        /\ codec_disabled' = codec_disabled
        /\ DOMAIN settings # {} => configurations_loaded'
    BY SettingsStay DEF GetLeAudioAseQosConfiguration
  <1> DEFINE list == DirectionList(settings[p], m.direction)
             d == list[i]
             here == << p[1], p[2], i >>
  <1>4. /\ p \in DOMAIN settings /\ settings[p].context = m.context /\ i \in DOMAIN list
        /\ m.list[i] = d /\ d.ase.codec \notin codec_disabled
    BY <1>1, <1>2
  <1>5. p \in Nat \X Nat /\ i \in Nat /\ ShapedEntry(d)
    BY <1>2, <1>4, SettingsAreShaped
  <1>6. p = << p[1], p[2] >>
    BY <1>5
  <1>7. here \in places
    <2>1. here \in { << p[1], p[2], k >> : k \in DOMAIN list }
      BY <1>4
    <2> QED BY <2>1, <1>4 DEF QosPlaces
  <1>8. at(here) = d
    <2>1. << here[1], here[2] >> = p /\ here[3] = i
      BY <1>6
    <2> QED BY <2>1 DEF QosAt
  <1>9. suits(here)
    <2>1. req.ase = d.ase /\ req.retransmissions = d.qos.retransmissions /\ req.maxLatency = d.qos.maxLatency
      BY <1>4 DEF QosAsk
    <2>2. isMatchedAseConfiguration(d.ase, d.ase)
      BY <1>4 DEF isMatchedAseConfiguration, isMatchedValidCodec
    <2>3. d.qos.maxLatency \in Nat
      BY <1>5 DEF ShapedEntry
    <2>4. isMatchedQosRequirement(d.qos, req)
      BY <2>1, <2>3 DEF isMatchedQosRequirement
    <2> QED BY <1>8, <2>1, <2>2, <2>4
  <1>10. ASSUME NEW q \in places
         PROVE  q \in Nat \X Nat \X Nat /\ ShapedEntry(at(q))
    <2>1. PICK s \in DOMAIN settings : \E k \in DOMAIN DirectionList(settings[s], m.direction) : q = << s[1], s[2], k >>
      BY DEF QosPlaces
    <2>2. PICK k \in DOMAIN DirectionList(settings[s], m.direction) : q = << s[1], s[2], k >>
      BY <2>1
    <2>3. /\ s \in Nat \X Nat /\ k \in Nat
          /\ ShapedEntry(DirectionList(settings[s], m.direction)[k])
      BY <1>2, SettingsAreShaped
    <2>4. s = << s[1], s[2] >> /\ s[1] \in Nat /\ s[2] \in Nat
      BY <2>3
    <2>5. at(q) = DirectionList(settings[s], m.direction)[k]
      BY <2>2, <2>4 DEF QosAt
    <2> QED BY <2>2, <2>3, <2>4, <2>5
  <1>11. FirstQos(m.context, m.direction, req) = IF hits = {} THEN NoQos ELSE at(first).qos
    BY DEF FirstQos
  <1>12. first \in hits /\ hits # {}
    <2>1. hits \in SUBSET (Nat \X Nat \X Nat) /\ hits # {}
      BY <1>7, <1>9, <1>10
    <2> HIDE DEF hits
    <2> QED BY <2>1, FirstOfPlaces
  <1>13. ShapedEntry(at(first)) /\ (req # NoQos => suits(first))
    BY <1>10, <1>12
  <1> HIDE DEF first, hits, places, at, req
  <1>14. AnswerIsWhatFits'
    <2>1. ase_reply'.answer = at(first).qos
      BY <1>3, <1>11, <1>12
    <2>2. at(first).qos # NoQos
      BY <1>13 DEF ShapedEntry
    <2> QED BY <1>3, <1>13, <2>1, <2>2 DEF AnswerIsWhatFits, isMatchedQosRequirement
  <1>15. AnswerIsListed'
    BY <1>3 DEF AnswerIsListed
  <1> QED BY <1>2, <1>3, <1>14, <1>15 DEF LeInv

\* The invariant of the LE audio provider.
LEMMA LeInvariant == LeSpec => []LeInv
  <1>1. LeInit => LeInv
    BY DEF LeInit, LeInv, AnswerIsListed, AnswerIsWhatFits
  <1>2. LeInv /\ [LeNext]_leVars => LeInv'
    <2> SUFFICES ASSUME LeInv, [LeNext]_leVars
                 PROVE  LeInv'
      OBVIOUS
    <2> USE DEF settingsVars
    <2>1. ASSUME UNCHANGED << settingsVars, codec_disabled, ase_reply >> PROVE LeInv'
      BY <2>1 DEF LeInv, AnswerIsListed, AnswerIsWhatFits, Answered, AllFitting, Fitting
    <2>2. CASE FactoryQuery
      BY <2>1, <2>2 DEF FactoryQuery
    <2>3. ASSUME NEW ask \in AseAsks, NEW configsRead \in BOOLEAN, NEW scenariosRead \in BOOLEAN,
                 GetLeAudioAseConfiguration(ask, configsRead, scenariosRead) PROVE LeInv'
      BY <2>3, ConfigurationAnswers
    <2>4. ASSUME ase_reply.call = "configuration", NEW m \in ase_reply.answer, NEW i \in DOMAIN m.list, NEW read \in BOOLEAN,
                 GetLeAudioAseQosConfiguration(m.context, m.direction, QosAsk(m, i), read, read) PROVE LeInv'
      BY <2>4, QosAnswers
    <2>5. ASSUME NEW context, NEW read \in BOOLEAN,
                 GetLeAudioAseQosConfiguration(context, "none", NoQos, read, read) PROVE LeInv'
      <3>1. ase_reply'.call = "qos" /\ ase_reply'.req = NoQos
        BY <2>5 DEF GetLeAudioAseQosConfiguration
      <3>2. /\ ase_configuration_settings' \in { << >>, AllSettings }
            /\ DOMAIN ase_configuration_settings' # {} => configurations_loaded'
        BY <2>5, SettingsStay DEF GetLeAudioAseQosConfiguration
      <3> QED BY <3>1, <3>2 DEF LeInv, AnswerIsListed, AnswerIsWhatFits
    <2>6. ASSUME NEW codec, NEW disabled \in BOOLEAN, SetCodecPriority(codec, disabled) PROVE LeInv'
      BY <2>6 DEF SetCodecPriority, LeInv, AnswerIsListed, AnswerIsWhatFits
    <2>7. ASSUME NEW cap, NEW bisNum, GetLeAudioBroadcastConfiguration(cap, bisNum) PROVE LeInv'
      BY <2>7 DEF GetLeAudioBroadcastConfiguration, LeInv, AnswerIsListed, AnswerIsWhatFits
    <2>8. CASE UNCHANGED leVars
      BY <2>1, <2>8 DEF leVars
    <2> QED BY <2>2, <2>3, <2>4, <2>5, <2>6, <2>7, <2>8 DEF LeNext
  <1> QED BY <1>1, <1>2, PTL DEF LeSpec

\* The configurations answered are those that fit, but for those of 44100 Hz where the capability
\* names its rates (UnmappedFreqs), for any files, capabilities, requirements and disabled codecs;
\* and the QoS of one of them is found.
THEOREM LeAudioAnswerIsWhatFits == LeSpec => []AnswerIsWhatFits
  BY LeInvariant, PTL DEF LeInv

-----------------------------------------------------------------------------
(* The negotiation of an A2DP offload session.                             *)

\* What an order lists of a set is found, whatever else it lists.
LEMMA FirstFound ==
  ASSUME NEW order, NEW bits, DOMAIN order \subseteq Nat,
         \E i \in DOMAIN order : order[i] \in bits
  PROVE  FirstOf(order, bits) \in bits
  <1> DEFINE found == { i \in DOMAIN order : order[i] \in bits }
  <1>1. found \in SUBSET Nat /\ found # {}
    OBVIOUS
  <1>2. \E i \in found : \A j \in found : i <= j
    BY <1>1, FirstPlace
  <1>3. (CHOOSE i \in found : \A j \in found : i <= j) \in found
    BY <1>2
  <1> QED BY <1>1, <1>3 DEF FirstOf

\* The orders list every bit the codecs support.
LEMMA OrdersCover ==
  ASSUME NEW c \in CodecSet, NEW f \in FieldsOf(c)
  PROVE  /\ DOMAIN OrderOf(c)[f] \subseteq Nat
         /\ \A b \in Local(c)[f] : \E i \in DOMAIN OrderOf(c)[f] : OrderOf(c)[f][i] = b
  <1>1. CASE c = "SBC"
    <2>1. f \in { "sf", "cm", "bl", "sb", "am" }
      BY <1>1 DEF FieldsOf
    <2>2. CASE f = "sf"
      <3>1. OrderOf(c)[f] = << 44100, 48000 >> /\ Local(c)[f] = { 44100, 48000 }
        BY <1>1, <2>2 DEF OrderOf, SbcOrder, Local, SbcLocal
      <3> QED BY <3>1
    <2>3. CASE f = "cm"
      <3>1. /\ OrderOf(c)[f] = << "JOINT", "STEREO", "DUAL", "MONO" >>
            /\ Local(c)[f] = { "MONO", "DUAL", "STEREO", "JOINT" }
        BY <1>1, <2>3 DEF OrderOf, SbcOrder, Local, SbcLocal
      <3> QED BY <3>1
    <2>4. CASE f = "bl"
      <3>1. OrderOf(c)[f] = << 16, 12, 8, 4 >> /\ Local(c)[f] = { 4, 8, 12, 16 }
        BY <1>1, <2>4 DEF OrderOf, SbcOrder, Local, SbcLocal
      <3> QED BY <3>1
    <2>5. CASE f = "sb"
      <3>1. OrderOf(c)[f] = << 8, 4 >> /\ Local(c)[f] = { 4, 8 }
        BY <1>1, <2>5 DEF OrderOf, SbcOrder, Local, SbcLocal
      <3> QED BY <3>1
    <2>6. CASE f = "am"
      <3>1. OrderOf(c)[f] = << "LOUDNESS", "SNR" >> /\ Local(c)[f] = { "SNR", "LOUDNESS" }
        BY <1>1, <2>6 DEF OrderOf, SbcOrder, Local, SbcLocal
      <3> QED BY <3>1
    <2> QED BY <2>1, <2>2, <2>3, <2>4, <2>5, <2>6
  <1>2. CASE c = "AAC"
    <2>1. f \in { "ot", "sf", "ch" }
      BY <1>2 DEF FieldsOf
    <2>2. CASE f = "ot"
      <3>1. OrderOf(c)[f] = << "MPEG2_LC", "MPEG4_LC" >> /\ Local(c)[f] = { "MPEG2_LC", "MPEG4_LC" }
        BY <1>2, <2>2 DEF OrderOf, AacOrder, Local, AacLocal
      <3> QED BY <3>1
    <2>3. CASE f = "sf"
      <3>1. OrderOf(c)[f] = << 96000, 88200, 48000, 44100 >> /\ Local(c)[f] = { 44100, 48000 }
        BY <1>2, <2>3 DEF OrderOf, AacOrder, Local, AacLocal
      <3> QED BY <3>1
    <2>4. CASE f = "ch"
      <3>1. OrderOf(c)[f] = << "2", "1" >> /\ Local(c)[f] = { "1", "2" }
        BY <1>2, <2>4 DEF OrderOf, AacOrder, Local, AacLocal
      <3> QED BY <3>1
    <2> QED BY <2>1, <2>2, <2>3, <2>4
  <1> QED BY <1>1, <1>2 DEF CodecSet

\* A field gets a bit exactly when the headset and the codec have one in common, and it is one of
\* those.
LEMMA Selected ==
  ASSUME NEW c \in CodecSet, NEW f \in FieldsOf(c), NEW remote, NEW hint
  PROVE  IF Local(c)[f] \cap remote.bits[f] = {} THEN Select(c, f, remote, hint) = NoBit
         ELSE Select(c, f, remote, hint) \in Local(c)[f] \cap remote.bits[f]
  <1> DEFINE both == Local(c)[f] \cap remote.bits[f]
  <1>1. CASE both = {}
    <2>1. HintedBit(c, f, hint) \notin both
      BY <1>1
    <2>2. FirstOf(OrderOf(c)[f], both) = NoBit
      BY <1>1 DEF FirstOf
    <2> QED BY <1>1, <2>1, <2>2 DEF Select
  <1>2. CASE both # {}
    <2>1. PICK b \in Local(c)[f] : b \in both
      BY <1>2
    <2>2. \E i \in DOMAIN OrderOf(c)[f] : OrderOf(c)[f][i] = b
      BY OrdersCover
    <2>3. DOMAIN OrderOf(c)[f] \subseteq Nat
      BY OrdersCover
    <2>4. \E i \in DOMAIN OrderOf(c)[f] : OrderOf(c)[f][i] \in both
      BY <2>1, <2>2
    <2>5. FirstOf(OrderOf(c)[f], both) \in both
      BY <2>3, <2>4, FirstFound
    <2>6. Select(c, f, remote, hint) \in both
      BY <2>5 DEF Select
    <2> QED BY <1>2, <2>6
  <1> QED BY <1>1, <1>2

\* A field gets a bit when there is one in common, and never another than the codec supports.
LEMMA SelectedBit ==
  ASSUME NEW c \in CodecSet, NEW f \in FieldsOf(c), NEW remote, NEW hint
  PROVE  /\ Select(c, f, remote, hint) # NoBit <=> Local(c)[f] \cap remote.bits[f] # {}
         /\ Select(c, f, remote, hint) # NoBit => Select(c, f, remote, hint) \in Local(c)[f]
  <1>1. NoBit \notin Local(c)[f]
    BY NoBitIsNone
  <1> QED BY <1>1, Selected

\* A codec works for the factory when it is compatible with the headset.
LEMMA WorksIsCompatible ==
  ASSUME NEW remotes, NEW c \in CodecSet, NEW hint
  PROVE  Works(remotes, c, hint) = Compatible(remotes, c)
  <1> DEFINE remote == RemoteOf(remotes, c)
  <1> HIDE DEF remote
  <1>1. (\A f \in FieldsOf(c) : Select(c, f, remote, hint) # NoBit)
          <=> \A f \in FieldsOf(c) : Local(c)[f] \cap remote.bits[f] # {}
    BY SelectedBit
  <1> QED BY <1>1 DEF Works, Builds, Compatible, remote

\* The first of two places.
LEMMA FirstOfTwo ==
  ASSUME NEW places \in SUBSET { 1, 2 }, places # {}
  PROVE  (CHOOSE i \in places : \A j \in places : i <= j) = IF 1 \in places THEN 1 ELSE 2
  <1>1. CASE 1 \in places
    <2>1. \A i \in places : (\A j \in places : i <= j) <=> i = 1
      BY <1>1
    <2> QED BY <1>1, <2>1
  <1>2. CASE 1 \notin places
    <2>1. places = { 2 }
      BY <1>2
    <2> QED BY <2>1
  <1> QED BY <1>1, <1>2

\* The codecs that are tried, in their order.
LEMMA TriedInOrder ==
  ASSUME NEW hinted, NEW skipped
  PROVE  Tries(hinted, skipped) =
           IF hinted = "SBC" THEN << "SBC", "AAC" >>
           ELSE IF hinted = "AAC" THEN << "AAC", "SBC" >>
           ELSE IF skipped = "AAC" THEN << "SBC" >>
           ELSE IF skipped = "SBC" THEN << "AAC" >> ELSE << "AAC", "SBC" >>
  <1>1. /\ Without("AAC") = << "SBC" >> /\ Without("SBC") = << "AAC" >>
        /\ skipped \notin CodecSet => Without(skipped) = << "AAC", "SBC" >>
    BY DEF Without, Codecs, CodecSet
  <1>2. CASE hinted = "SBC"
    <2>1. Tries(hinted, skipped) = << "SBC" >> \o << "AAC" >>
      BY <1>1, <1>2 DEF Tries, CodecSet
    <2> QED BY <1>2, <2>1
  <1>3. CASE hinted = "AAC"
    <2>1. Tries(hinted, skipped) = << "AAC" >> \o << "SBC" >>
      BY <1>1, <1>3 DEF Tries, CodecSet
    <2> QED BY <1>3, <2>1
  <1>4. CASE hinted \notin CodecSet
    <2>1. Tries(hinted, skipped) = Without(skipped)
      BY <1>4 DEF Tries
    <2> QED BY <1>1, <1>4, <2>1 DEF CodecSet
  <1> QED BY <1>2, <1>3, <1>4 DEF CodecSet

\* The first of two codecs that works is answered for.
LEMMA FirstOfTwoTries ==
  ASSUME NEW remotes, NEW hint, NEW skipped, NEW x \in CodecSet, NEW y \in CodecSet,
         Tries(hint.codec, skipped) = << x, y >>
  PROVE  GetConfiguration(remotes, hint, skipped) =
           IF Compatible(remotes, x) THEN Answer(remotes, x, hint)
           ELSE IF Compatible(remotes, y) THEN Answer(remotes, y, hint) ELSE NoAnswer
  <1> DEFINE tries == << x, y >>
             works == { i \in DOMAIN tries : Works(remotes, tries[i], hint) }
             place == CHOOSE i \in works : \A j \in works : i <= j
  <1>1. DOMAIN tries = { 1, 2 } /\ tries[1] = x /\ tries[2] = y
    OBVIOUS
  <1>2. /\ 1 \in works <=> Compatible(remotes, x)
        /\ 2 \in works <=> Compatible(remotes, y)
        /\ works \in SUBSET { 1, 2 }
    BY <1>1, WorksIsCompatible
  <1>3. GetConfiguration(remotes, hint, skipped) =
          IF works = {} THEN NoAnswer ELSE Answer(remotes, tries[place], hint)
    BY DEF GetConfiguration
  <1> HIDE DEF works, tries
  <1>4. works # {} => place = IF 1 \in works THEN 1 ELSE 2
    BY <1>2, FirstOfTwo
  <1> HIDE DEF place
  <1>5. CASE Compatible(remotes, x)
    <2>1. works # {} /\ place = 1
      BY <1>2, <1>4, <1>5
    <2> QED BY <1>1, <1>3, <1>5, <2>1
  <1>6. CASE ~Compatible(remotes, x) /\ Compatible(remotes, y)
    <2>1. works # {} /\ place = 2
      BY <1>2, <1>4, <1>6
    <2> QED BY <1>1, <1>3, <1>6, <2>1
  <1>7. CASE ~Compatible(remotes, x) /\ ~Compatible(remotes, y)
    <2>1. works = {}
      BY <1>2, <1>7
    <2> QED BY <1>3, <1>7, <2>1
  <1> QED BY <1>5, <1>6, <1>7

\* With one codec left to try, that one is answered for if it works.
LEMMA OneTry ==
  ASSUME NEW remotes, NEW hint, NEW skipped, NEW x \in CodecSet, Tries(hint.codec, skipped) = << x >>
  PROVE  GetConfiguration(remotes, hint, skipped) =
           IF Compatible(remotes, x) THEN Answer(remotes, x, hint) ELSE NoAnswer
  <1> DEFINE tries == << x >>
             works == { i \in DOMAIN tries : Works(remotes, tries[i], hint) }
             place == CHOOSE i \in works : \A j \in works : i <= j
  <1>1. DOMAIN tries = { 1 } /\ tries[1] = x
    OBVIOUS
  <1>2. (1 \in works <=> Compatible(remotes, x)) /\ works \in SUBSET { 1, 2 } /\ 2 \notin works
    BY <1>1, WorksIsCompatible
  <1>3. GetConfiguration(remotes, hint, skipped) =
          IF works = {} THEN NoAnswer ELSE Answer(remotes, tries[place], hint)
    BY DEF GetConfiguration
  <1> HIDE DEF works, tries
  <1>4. works # {} => place = IF 1 \in works THEN 1 ELSE 2
    BY <1>2, FirstOfTwo
  <1> HIDE DEF place
  <1>5. CASE Compatible(remotes, x)
    <2>1. works # {} /\ place = 1
      BY <1>2, <1>4, <1>5
    <2> QED BY <1>1, <1>3, <1>5, <2>1
  <1>6. CASE ~Compatible(remotes, x)
    <2>1. works = {}
      BY <1>2, <1>6
    <2> QED BY <1>3, <1>6, <2>1
  <1> QED BY <1>5, <1>6

\* The codecs headset and phone can agree on, and the one the property asks for.
Possible(remotes, skipped) == { c \in CodecSet \ { skipped } : Compatible(remotes, c) }
Best(remotes, hint, skipped) ==
  IF hint.codec \in Possible(remotes, skipped) THEN hint.codec
  ELSE IF "AAC" \in Possible(remotes, skipped) THEN "AAC" ELSE "SBC"

\* The negotiation, whatever the headset offers: the hinted codec when it can be, then AAC, then SBC.
LEMMA BestIsAnswered ==
  ASSUME NEW remotes, NEW hint, NEW skipped, hint.codec \in CodecSet => skipped = "none"
  PROVE  IF Possible(remotes, skipped) = {} THEN GetConfiguration(remotes, hint, skipped) = NoAnswer
         ELSE /\ Best(remotes, hint, skipped) \in Possible(remotes, skipped)
              /\ GetConfiguration(remotes, hint, skipped)
                   = Answer(remotes, Best(remotes, hint, skipped), hint)
  <1> DEFINE got == GetConfiguration(remotes, hint, skipped)
             aac == Compatible(remotes, "AAC")
             sbc == Compatible(remotes, "SBC")
  <1>1. /\ "AAC" \in Possible(remotes, skipped) <=> (skipped # "AAC" /\ aac)
        /\ "SBC" \in Possible(remotes, skipped) <=> (skipped # "SBC" /\ sbc)
        /\ Possible(remotes, skipped) \subseteq { "AAC", "SBC" }
    BY DEF Possible, CodecSet
  <1>2. CASE hint.codec = "SBC"
    <2>1. skipped = "none" /\ Tries(hint.codec, skipped) = << "SBC", "AAC" >>
      BY <1>2, TriedInOrder DEF CodecSet
    <2>2. got = IF sbc THEN Answer(remotes, "SBC", hint)
                ELSE IF aac THEN Answer(remotes, "AAC", hint) ELSE NoAnswer
      BY <2>1, FirstOfTwoTries DEF CodecSet
    <2> HIDE DEF got, aac, sbc
    <2> QED BY <1>1, <1>2, <2>1, <2>2 DEF Best, got
  <1>3. CASE hint.codec = "AAC"
    <2>1. skipped = "none" /\ Tries(hint.codec, skipped) = << "AAC", "SBC" >>
      BY <1>3, TriedInOrder DEF CodecSet
    <2>2. got = IF aac THEN Answer(remotes, "AAC", hint)
                ELSE IF sbc THEN Answer(remotes, "SBC", hint) ELSE NoAnswer
      BY <2>1, FirstOfTwoTries DEF CodecSet
    <2> HIDE DEF got, aac, sbc
    <2> QED BY <1>1, <1>3, <2>1, <2>2 DEF Best, got
  <1>4. CASE hint.codec \notin CodecSet
    <2>1. hint.codec \notin Possible(remotes, skipped)
      BY <1>4 DEF Possible
    <2>2. CASE skipped = "AAC"
      <3>1. Tries(hint.codec, skipped) = << "SBC" >>
        BY <1>4, <2>2, TriedInOrder DEF CodecSet
      <3>2. got = IF sbc THEN Answer(remotes, "SBC", hint) ELSE NoAnswer
        BY <3>1, OneTry DEF CodecSet
      <3> HIDE DEF got, aac, sbc
      <3> QED BY <1>1, <2>1, <2>2, <3>2 DEF Best, got
    <2>3. CASE skipped = "SBC"
      <3>1. Tries(hint.codec, skipped) = << "AAC" >>
        BY <1>4, <2>3, TriedInOrder DEF CodecSet
      <3>2. got = IF aac THEN Answer(remotes, "AAC", hint) ELSE NoAnswer
        BY <3>1, OneTry DEF CodecSet
      <3> HIDE DEF got, aac, sbc
      <3> QED BY <1>1, <2>1, <2>3, <3>2 DEF Best, got
    <2>4. CASE skipped \notin CodecSet
      <3>1. Tries(hint.codec, skipped) = << "AAC", "SBC" >>
        BY <1>4, <2>4, TriedInOrder DEF CodecSet
      <3>2. got = IF aac THEN Answer(remotes, "AAC", hint)
                  ELSE IF sbc THEN Answer(remotes, "SBC", hint) ELSE NoAnswer
        BY <3>1, FirstOfTwoTries DEF CodecSet
      <3> HIDE DEF got, aac, sbc
      <3> QED BY <1>1, <2>1, <2>4, <3>2 DEF Best, got, CodecSet
    <2> QED BY <2>2, <2>3, <2>4 DEF CodecSet
  <1> QED BY <1>2, <1>3, <1>4 DEF CodecSet

\* An answer names its codec and holds what that codec builds.
LEMMA AnswerNames ==
  ASSUME NEW remotes, NEW c \in CodecSet, NEW hint
  PROVE  /\ Answer(remotes, c, hint) # NoAnswer
         /\ Answer(remotes, c, hint).id = c
         /\ Answer(remotes, c, hint).blob = Build(c, RemoteOf(remotes, c), hint)
  <1>1. Answer(remotes, c, hint).id = c /\ NoAnswer.id = "none" /\ c # "none"
    BY DEF Answer, NoAnswer, CodecSet
  <1>2. Answer(remotes, c, hint).blob = Build(c, RemoteOf(remotes, c), hint)
    BY DEF Answer
  <1> QED BY <1>1, <1>2

-----------------------------------------------------------------------------
\* What the answer of the provider is, given what it was asked.
Asks ==
  { ask \in [ remotes : RemoteLists, hint : Hints, skipped : CodecSet \cup { "none" } ] :
      ask.hint.codec \in CodecSet => ask.skipped = "none" }

\* The inductive invariant of the A2DP offload provider.
AnswerOfTheAsk ==
  /\ asked \in Asks \cup { NoAsk }
  /\ negotiated = GetConfiguration(asked.remotes, asked.hint, asked.skipped)

\* Before the first call there is no answer, as for a headset that offers nothing.
LEMMA NothingOffered == GetConfiguration(NoAsk.remotes, NoAsk.hint, NoAsk.skipped) = NoAnswer
  <1>1. NoAsk.remotes = << >> /\ NoAsk.skipped = "none"
    BY DEF NoAsk
  <1>2. \A c : Offers(NoAsk.remotes, c) = {}
    BY <1>1 DEF Offers
  <1>3. Possible(NoAsk.remotes, NoAsk.skipped) = {}
    BY <1>2 DEF Possible, Compatible
  <1> QED BY <1>1, <1>3, BestIsAnswered

\* The answer getA2dpConfiguration gave is at any time the one the codec factory computes for the
\* capabilities and the hint it was given, of a headset and a stack that keep to the interface.
THEOREM NegotiationInvariant == A2dpSpec => []AnswerOfTheAsk
  <1>1. A2dpInit => AnswerOfTheAsk
    BY NothingOffered DEF A2dpInit, AnswerOfTheAsk
  <1>2. AnswerOfTheAsk /\ [A2dpNext]_a2dpVars => AnswerOfTheAsk'
    <2> SUFFICES ASSUME AnswerOfTheAsk, [A2dpNext]_a2dpVars
                 PROVE  AnswerOfTheAsk'
      OBVIOUS
    <2>1. ASSUME NEW remotes \in RemoteLists, NEW hint \in Hints,
                 NEW skipped \in IF hint.codec \in CodecSet THEN { "none" } ELSE CodecSet \cup { "none" },
                 GetA2dpConfiguration(remotes, hint, skipped)
          PROVE  AnswerOfTheAsk'
      <3>1. /\ asked' = [ remotes |-> remotes, hint |-> hint, skipped |-> skipped ]
            /\ negotiated' = GetConfiguration(remotes, hint, skipped)
        BY <2>1 DEF GetA2dpConfiguration
      <3>2. asked' \in Asks
        BY <3>1 DEF Asks
      <3>3. negotiated' = GetConfiguration(asked'.remotes, asked'.hint, asked'.skipped)
        BY <3>1
      <3> QED BY <3>2, <3>3 DEF AnswerOfTheAsk
    <2>2. ASSUME UNCHANGED << asked, negotiated >>
          PROVE  AnswerOfTheAsk'
      BY <2>2 DEF AnswerOfTheAsk
    <2>3. CASE UnknownTransaction
      BY <2>2, <2>3 DEF UnknownTransaction
    <2>4. CASE \E i \in DOMAIN asked.remotes : ParseA2dpConfiguration(asked.remotes[i])
      BY <2>2, <2>4 DEF ParseA2dpConfiguration
    <2>5. CASE StartNegotiated
      BY <2>2, <2>5 DEF StartNegotiated
    <2>6. CASE UNCHANGED a2dpVars
      BY <2>2, <2>6 DEF a2dpVars
    <2> QED BY <2>1, <2>3, <2>4, <2>5, <2>6 DEF A2dpNext
  <1> QED BY <1>1, <1>2, PTL DEF A2dpSpec

\* The codec of the hint is negotiated whenever headset and phone agree on it, then AAC, then SBC,
\* for any list of capabilities: a codec the factory tries and cannot build for ends no search.
\* If the hint names no codec of the phone, one of the two may not be tried at all (asked.skipped);
\* then this is said of the other.
THEOREM NegotiationBestCodecChosen == A2dpSpec => []BestCodecChosen
  <1>1. AnswerOfTheAsk => BestCodecChosen
    <2> SUFFICES ASSUME AnswerOfTheAsk, asked # NoAsk
                 PROVE  LET possible == { c \in CodecSet \ { asked.skipped } : Compatible(asked.remotes, c) }
                        IN  IF possible = {} THEN negotiated = NoAnswer
                            ELSE /\ negotiated # NoAnswer
                                 /\ negotiated.id = IF asked.hint.codec \in possible THEN asked.hint.codec
                                                    ELSE IF "AAC" \in possible THEN "AAC" ELSE "SBC"
      BY DEF BestCodecChosen
    <2> DEFINE possible == Possible(asked.remotes, asked.skipped)
               best == Best(asked.remotes, asked.hint, asked.skipped)
    <2>1. asked.hint.codec \in CodecSet => asked.skipped = "none"
      BY DEF AnswerOfTheAsk, Asks
    <2>2. IF possible = {} THEN negotiated = NoAnswer
          ELSE best \in possible /\ negotiated = Answer(asked.remotes, best, asked.hint)
      BY <2>1, BestIsAnswered DEF AnswerOfTheAsk
    <2>3. possible # {} => best \in CodecSet
      BY <2>2 DEF Possible
    <2>4. ASSUME possible # {}
          PROVE  negotiated # NoAnswer /\ negotiated.id = best
      <3>1. best \in CodecSet /\ negotiated = Answer(asked.remotes, best, asked.hint)
        BY <2>2, <2>3, <2>4
      <3> HIDE DEF best
      <3> QED BY <3>1, AnswerNames
    <2>5. possible = { c \in CodecSet \ { asked.skipped } : Compatible(asked.remotes, c) }
      BY DEF Possible
    <2> QED BY <2>2, <2>4, <2>5 DEF Best
  <1> QED BY <1>1, NegotiationInvariant, PTL

\* The headset's capabilities looked at are some it offered.
LEMMA RemoteIsOffered ==
  ASSUME NEW remotes \in RemoteLists, NEW c, Offers(remotes, c) # {}
  PROVE  /\ RemoteOf(remotes, c).id = c
         /\ RemoteOf(remotes, c).lo \in 0 .. 255 /\ RemoteOf(remotes, c).hi \in 0 .. 255
  <1> DEFINE offers == Offers(remotes, c)
  <1>1. Len(remotes) \in Nat
    BY RemoteListsAreOnTheAir
  <1>2. offers \in SUBSET Nat
    BY <1>1 DEF Offers
  <1>3. \E i \in offers : \A j \in offers : i <= j
    BY <1>2, FirstPlace
  <1>4. PICK k \in offers : k = CHOOSE i \in offers : \A j \in offers : i <= j
    BY <1>3
  <1>5. RemoteOf(remotes, c) = remotes[k]
    BY <1>4 DEF RemoteOf
  <1>6. k \in 1 .. Len(remotes) /\ remotes[k].id = c
    BY DEF Offers
  <1>7. remotes[k].lo \in 0 .. 255 /\ remotes[k].hi \in 0 .. 255
    BY <1>6, RemoteListsAreOnTheAir
  <1> QED BY <1>5, <1>6, <1>7

\* find_active_bit gives back the one bit of a field that was written.
LEMMA ActiveIsTheBit ==
  ASSUME NEW bits, NEW x, bits = { x }
  PROVE  ActiveBit(bits) = x
  <1>1. Cardinality({ x }) = 1
    BY FS_Singleton
  <1>2. (CHOOSE b \in { x } : TRUE) = x
    OBVIOUS
  <1> QED BY <1>1, <1>2 DEF ActiveBit

\* The fields of an SBC configuration that was built, but for the allocation method.
SbcBuilt(bits) ==
  \E sf \in { 44100, 48000 }, cm \in { "MONO", "DUAL", "STEREO", "JOINT" }, bl \in { 4, 8, 12, 16 }, sb \in { 4, 8 } :
    bits["sf"] = { sf } /\ bits["cm"] = { cm } /\ bits["bl"] = { bl } /\ bits["sb"] = { sb }

\* The part of a frame that grows with the bitpool grows with it.
LEMMA Scaled ==
  ASSUME NEW a \in Nat, NEW b \in Nat, a <= b,
         NEW bl \in { 4, 8, 12, 16 }, NEW d \in { 1, 2 }
  PROVE  bl * a * d \in Nat /\ bl * b * d \in Nat /\ bl * a * d <= bl * b * d
  <1>1. d = 1 \/ d = 2
    OBVIOUS
  <1>2. CASE bl = 4
    BY <1>1, <1>2
  <1>3. CASE bl = 8
    BY <1>1, <1>3
  <1>4. CASE bl = 12
    BY <1>1, <1>4
  <1>5. CASE bl = 16
    BY <1>1, <1>5
  <1> QED BY <1>2, <1>3, <1>4, <1>5

\* A division by the samples of a frame keeps the order of two rates.
LEMMA Divided ==
  ASSUME NEW a \in Nat, NEW b \in Nat, a <= b,
         NEW bl \in { 4, 8, 12, 16 }, NEW sb \in { 4, 8 }
  PROVE  a \div (bl * sb) \in Int /\ b \div (bl * sb) \in Int /\ a \div (bl * sb) <= b \div (bl * sb)
  <1>1. bl * sb \in { 16, 32, 48, 64, 96, 128 }
    <2>1. CASE sb = 4
      BY <2>1
    <2>2. CASE sb = 8
      BY <2>2
    <2> QED BY <2>1, <2>2
  <1> DEFINE n == bl * sb
  <1> HIDE DEF n
  <1>2. n \in { 16, 32, 48, 64, 96, 128 }
    BY <1>1 DEF n
  <1>3. CASE n = 16
    BY <1>3 DEF n
  <1>4. CASE n = 32
    BY <1>4 DEF n
  <1>5. CASE n = 48
    BY <1>5 DEF n
  <1>6. CASE n = 64
    BY <1>6 DEF n
  <1>7. CASE n = 96
    BY <1>7 DEF n
  <1>8. CASE n = 128
    BY <1>8 DEF n
  <1> QED BY <1>2, <1>3, <1>4, <1>5, <1>6, <1>7, <1>8 DEF n

\* A larger bitpool gives no smaller bit rate.
LEMMA RateGrows ==
  ASSUME NEW bits, SbcBuilt(bits), NEW p \in Nat, NEW q \in Nat, p <= q
  PROVE  /\ GetBitrate(bits, p) \in Int /\ GetBitrate(bits, q) \in Int
         /\ GetBitrate(bits, p) <= GetBitrate(bits, q)
  <1>1. PICK sf \in { 44100, 48000 }, cm \in { "MONO", "DUAL", "STEREO", "JOINT" },
             bl \in { 4, 8, 12, 16 }, sb \in { 4, 8 } :
               bits["sf"] = { sf } /\ bits["cm"] = { cm } /\ bits["bl"] = { bl } /\ bits["sb"] = { sb }
    BY DEF SbcBuilt
  <1>2. /\ ActiveBit(bits["sf"]) = sf /\ ActiveBit(bits["bl"]) = bl /\ ActiveBit(bits["sb"]) = sb
    <2>1. \A x : bits["sf"] = { x } => ActiveBit(bits["sf"]) = x
      BY ActiveIsTheBit
    <2>2. \A x : bits["bl"] = { x } => ActiveBit(bits["bl"]) = x
      BY ActiveIsTheBit
    <2>3. \A x : bits["sb"] = { x } => ActiveBit(bits["sb"]) = x
      BY ActiveIsTheBit
    <2>4. bits["sf"] = { sf } /\ bits["bl"] = { bl } /\ bits["sb"] = { sb }
      BY <1>1
    <2> HIDE <1>1
    <2> QED BY <2>1, <2>2, <2>3, <2>4
  <1> DEFINE channels == IF "MONO" \in bits["cm"] THEN 1 ELSE 2
             duals == IF "DUAL" \in bits["cm"] THEN 2 ELSE 1
             joint == IF "JOINT" \in bits["cm"] THEN sb ELSE 0
             payload(n) == 4 * sb * channels + bl * n * duals + joint
             frame(n) == 4 + (payload(n) + 7) \div 8
             rate(n) == 8 * frame(n) * sf
  <1>3. channels \in { 1, 2 } /\ duals \in { 1, 2 } /\ joint \in { 0, 4, 8 }
    OBVIOUS
  <1>4. \A n : GetBitrate(bits, n) = rate(n) \div (bl * sb)
    BY <1>2 DEF GetBitrate, GetFrameSize
  <1> HIDE DEF channels, duals, joint
  <1>5. bl * p * duals \in Nat /\ bl * q * duals \in Nat /\ bl * p * duals <= bl * q * duals
    BY <1>3, Scaled
  <1>6. 4 * sb * channels \in Nat
    BY <1>3
  <1>7. payload(p) \in Nat /\ payload(q) \in Nat /\ payload(p) <= payload(q)
    BY <1>3, <1>5, <1>6
  <1> HIDE DEF payload
  <1>8. frame(p) \in Nat /\ frame(q) \in Nat /\ frame(p) <= frame(q)
    BY <1>7
  <1> HIDE DEF frame
  <1>9. rate(p) \in Nat /\ rate(q) \in Nat /\ rate(p) <= rate(q)
    <2>1. CASE sf = 44100
      BY <1>8, <2>1
    <2>2. CASE sf = 48000
      BY <1>8, <2>2
    <2> QED BY <2>1, <2>2
  <1> HIDE DEF rate
  <1> QED BY <1>4, <1>9, Divided

\* What is left of the search after some bits: the bitpool lies in pool .. pool + left - 1, the
\* rate of pool is below the one searched for and that of pool + left is not.
Narrowed(bits, bitrate, pool, left) ==
  /\ pool \in Nat /\ pool + left <= 256
  /\ pool = 0 \/ GetBitrate(bits, pool) < bitrate
  /\ pool + left = 256 \/ GetBitrate(bits, pool + left) >= bitrate

\* Trying one bit halves what is left of the search.
LEMMA TryBitNarrows ==
  ASSUME NEW bits, SbcBuilt(bits), NEW bitrate \in Int, NEW pool, NEW left \in Nat, NEW bit \in Nat,
         left = bit + bit, Narrowed(bits, bitrate, pool, left)
  PROVE  Narrowed(bits, bitrate, TryBit(bits, bitrate, pool, bit), bit)
  <1>1. pool \in Nat /\ pool + bit \in Nat /\ GetBitrate(bits, pool + bit) \in Int
    BY RateGrows DEF Narrowed
  <1>2. CASE bitrate > GetBitrate(bits, pool + bit)
    <2>1. TryBit(bits, bitrate, pool, bit) = pool + bit
      BY <1>2 DEF TryBit
    <2>2. (pool + bit) + bit = pool + left
      BY <1>1
    <2> QED BY <1>1, <1>2, <2>1, <2>2 DEF Narrowed
  <1>3. CASE ~(bitrate > GetBitrate(bits, pool + bit))
    <2>1. TryBit(bits, bitrate, pool, bit) = pool
      BY <1>3 DEF TryBit
    <2> QED BY <1>1, <1>3, <2>1 DEF Narrowed
  <1> QED BY <1>2, <1>3

\* After the eight bits one bitpool is left.
LEMMA SearchEnds ==
  ASSUME NEW bits, SbcBuilt(bits), NEW bitrate \in Int
  PROVE  Narrowed(bits, bitrate, Tried(bits, bitrate), 1)
  <1> DEFINE p1 == TryBit(bits, bitrate, 0, 128)
             p2 == TryBit(bits, bitrate, p1, 64)
             p3 == TryBit(bits, bitrate, p2, 32)
             p4 == TryBit(bits, bitrate, p3, 16)
             p5 == TryBit(bits, bitrate, p4, 8)
             p6 == TryBit(bits, bitrate, p5, 4)
             p7 == TryBit(bits, bitrate, p6, 2)
             p8 == TryBit(bits, bitrate, p7, 1)
  <1>1. Tried(bits, bitrate) = p8
    BY DEF Tried
  <1>2. Narrowed(bits, bitrate, 0, 256)
    BY DEF Narrowed
  <1>3. Narrowed(bits, bitrate, p1, 128)
    BY <1>2, TryBitNarrows
  <1> HIDE DEF p1
  <1>4. Narrowed(bits, bitrate, p2, 64)
    BY <1>3, TryBitNarrows
  <1> HIDE DEF p2
  <1>5. Narrowed(bits, bitrate, p3, 32)
    BY <1>4, TryBitNarrows
  <1> HIDE DEF p3
  <1>6. Narrowed(bits, bitrate, p4, 16)
    BY <1>5, TryBitNarrows
  <1> HIDE DEF p4
  <1>7. Narrowed(bits, bitrate, p5, 8)
    BY <1>6, TryBitNarrows
  <1> HIDE DEF p5
  <1>8. Narrowed(bits, bitrate, p6, 4)
    BY <1>7, TryBitNarrows
  <1> HIDE DEF p6
  <1>9. Narrowed(bits, bitrate, p7, 2)
    BY <1>8, TryBitNarrows
  <1> HIDE DEF p7
  <1>10. Narrowed(bits, bitrate, p8, 1)
    BY <1>9, TryBitNarrows
  <1> QED BY <1>1, <1>10

\* The bitpool of a bit rate is the largest that keeps below it, within 2 .. 250.
LEMMA BitpoolOfRate ==
  ASSUME NEW bits, SbcBuilt(bits), NEW bitrate \in Int
  PROVE  LET pool == GetBitpool(bits, bitrate)
         IN  /\ pool \in 2 .. 250
             /\ pool = 2 \/ GetBitrate(bits, pool) < bitrate
             /\ pool = 250 \/ GetBitrate(bits, pool + 1) >= bitrate
  <1> DEFINE t == Tried(bits, bitrate)
             pool == GetBitpool(bits, bitrate)
  <1>1. /\ t \in 0 .. 255
        /\ t = 0 \/ GetBitrate(bits, t) < bitrate
        /\ t = 255 \/ GetBitrate(bits, t + 1) >= bitrate
    <2>1. Narrowed(bits, bitrate, t, 1)
      BY SearchEnds
    <2> HIDE DEF t
    <2>2. t \in Nat /\ t + 1 <= 256
      BY <2>1 DEF Narrowed
    <2>3. t + 1 = 256 <=> t = 255
      BY <2>2
    <2> QED BY <2>1, <2>2, <2>3 DEF Narrowed
  <1>2. pool = Clamp(t, 2, 250)
    BY DEF GetBitpool
  <1> HIDE DEF t, pool
  <1>3. CASE t <= 2
    <2>1. pool = 2
      BY <1>1, <1>2, <1>3 DEF Clamp, Larger, Smaller
    <2>2. t + 1 \in Nat /\ t + 1 <= 3
      BY <1>1, <1>3
    <2>3. GetBitrate(bits, t + 1) >= bitrate
      BY <1>1, <1>3
    <2>4. GetBitrate(bits, t + 1) <= GetBitrate(bits, 3) /\ GetBitrate(bits, t + 1) \in Int /\ GetBitrate(bits, 3) \in Int
      BY <2>2, RateGrows
    <2>5. GetBitrate(bits, 3) >= bitrate
      BY <2>3, <2>4
    <2> QED BY <2>1, <2>5 DEF pool
  <1>4. CASE t \in 3 .. 250
    <2>1. pool = t
      BY <1>2, <1>4 DEF Clamp, Larger, Smaller
    <2>2. t # 0 /\ t # 255
      BY <1>4
    <2> QED BY <1>1, <1>4, <2>1, <2>2 DEF pool
  <1>5. CASE t > 250
    <2>1. pool = 250
      BY <1>1, <1>2, <1>5 DEF Clamp, Larger, Smaller
    <2>2. GetBitrate(bits, t) < bitrate
      BY <1>1, <1>5
    <2>3. GetBitrate(bits, 250) <= GetBitrate(bits, t) /\ GetBitrate(bits, 250) \in Int /\ GetBitrate(bits, t) \in Int
      BY <1>1, <1>5, RateGrows
    <2>4. GetBitrate(bits, 250) < bitrate
      BY <2>2, <2>3
    <2> QED BY <2>1, <2>4 DEF pool
  <1> QED BY <1>1, <1>3, <1>4, <1>5

\* A codec that builds gives each field one bit, of those it supports.
LEMMA BuiltBits ==
  ASSUME NEW c \in CodecSet, NEW remote, NEW hint, Builds(c, remote, hint)
  PROVE  \A f \in FieldsOf(c) : \E x \in Local(c)[f] : Build(c, remote, hint).bits[f] = { x }
  <1> SUFFICES ASSUME NEW f \in FieldsOf(c)
               PROVE  \E x \in Local(c)[f] : Build(c, remote, hint).bits[f] = { x }
    OBVIOUS
  <1>1. Select(c, f, remote, hint) # NoBit
    BY DEF Builds
  <1>2. Select(c, f, remote, hint) \in Local(c)[f]
    BY <1>1, SelectedBit
  <1>3. Build(c, remote, hint).bits = [ g \in FieldsOf(c) |-> { Select(c, g, remote, hint) } ]
    BY DEF Build
  <1>4. Build(c, remote, hint).bits[f] = { Select(c, f, remote, hint) }
    BY <1>3
  <1> QED BY <1>2, <1>4

\* The SBC configuration that is built has one bit in each field its bit rate depends on.
LEMMA SbcIsBuilt ==
  ASSUME NEW remote, NEW hint, Builds("SBC", remote, hint)
  PROVE  SbcBuilt(Build("SBC", remote, hint).bits)
  <1> DEFINE bits == Build("SBC", remote, hint).bits
  <1>1. \A f \in FieldsOf("SBC") : \E x \in Local("SBC")[f] : bits[f] = { x }
    BY BuiltBits DEF CodecSet
  <1>2. /\ FieldsOf("SBC") = { "sf", "cm", "bl", "sb", "am" }
        /\ Local("SBC")["sf"] = { 44100, 48000 } /\ Local("SBC")["cm"] = { "MONO", "DUAL", "STEREO", "JOINT" }
        /\ Local("SBC")["bl"] = { 4, 8, 12, 16 } /\ Local("SBC")["sb"] = { 4, 8 }
    BY DEF FieldsOf, Local, SbcLocal
  <1> HIDE DEF bits
  <1>3. PICK sf \in { 44100, 48000 } : bits["sf"] = { sf }
    BY <1>1, <1>2
  <1>4. PICK cm \in { "MONO", "DUAL", "STEREO", "JOINT" } : bits["cm"] = { cm }
    BY <1>1, <1>2
  <1>5. PICK bl \in { 4, 8, 12, 16 } : bits["bl"] = { bl }
    BY <1>1, <1>2
  <1>6. PICK sb \in { 4, 8 } : bits["sb"] = { sb }
    BY <1>1, <1>2
  <1> QED BY <1>3, <1>4, <1>5, <1>6 DEF SbcBuilt, bits

\* The bitpools that are built lie in the range of the interface, and a hinted maximum decides the
\* larger one alone.
LEMMA BuiltBitpools ==
  ASSUME NEW bits, SbcBuilt(bits), NEW hint \in Hints,
         NEW remote, remote.lo \in 0 .. 255, remote.hi \in 0 .. 255
  PROVE  LET pool == Bitpools(bits, remote, hint)
         IN  /\ pool.lo \in 2 .. 250 /\ pool.hi \in 2 .. 250
             /\ hint.given /\ hint.max > 0 /\ hint.max >= hint.min => pool.hi = GetBitpool(bits, hint.max)
  <1> DEFINE in(p)  == p >= 2 /\ p <= 250
             usable == in(remote.lo) /\ in(remote.hi) /\ remote.lo <= remote.hi
             lo     == Larger(IF usable THEN remote.lo ELSE 2, LocalMinBitpool)
             hi     == Larger(IF usable THEN remote.hi ELSE 250, LocalMaxBitpool)
             capped == hint.given /\ hint.max # 0 /\ hint.max >= hint.min
             pool   == Bitpools(bits, remote, hint)
  <1>1. lo \in 2 .. 250 /\ hi = 250
    BY DEF Larger, LocalMinBitpool, LocalMaxBitpool
  <1>2. /\ pool.lo = IF hint.given THEN Larger(lo, GetBitpool(bits, hint.min)) ELSE lo
        /\ pool.hi = IF capped THEN Smaller(hi, GetBitpool(bits, hint.max)) ELSE hi
    BY DEF Bitpools
  <1>3. hint.given => GetBitpool(bits, hint.min) \in 2 .. 250 /\ GetBitpool(bits, hint.max) \in 2 .. 250
    <2>1. hint.given => hint.min \in Int /\ hint.max \in Int
      BY HintsAreNumbers
    <2> QED BY <2>1, BitpoolOfRate
  <1> HIDE DEF lo, hi, pool
  <1>4. pool.lo \in 2 .. 250
    BY <1>1, <1>2, <1>3 DEF Larger
  <1>5. capped => pool.hi = GetBitpool(bits, hint.max)
    BY <1>1, <1>2, <1>3 DEF Smaller
  <1>6. ~capped => pool.hi = 250
    BY <1>1, <1>2
  <1>7. pool.hi \in 2 .. 250
    BY <1>3, <1>5, <1>6
  <1>8. hint.given /\ hint.max > 0 /\ hint.max >= hint.min => capped
    BY HintsAreNumbers
  <1> QED BY <1>4, <1>5, <1>7, <1>8 DEF pool

-----------------------------------------------------------------------------
\* The checks of a list all hold.
AllOk(checks) == \A i \in DOMAIN checks : checks[i].ok

\* Two lists of checks that hold make one.
LEMMA BothOk ==
  ASSUME NEW S, NEW s \in Seq(S), NEW t \in Seq(S), AllOk(s), AllOk(t)
  PROVE  AllOk(s \o t)
  <1> SUFFICES ASSUME NEW i \in DOMAIN (s \o t)
               PROVE  (s \o t)[i].ok
    BY DEF AllOk
  <1>1. i \in 1 .. Len(s) + Len(t)
    OBVIOUS
  <1>2. CASE i <= Len(s)
    <2>1. (s \o t)[i] = s[i] /\ i \in DOMAIN s
      BY <1>1, <1>2
    <2> QED BY <2>1 DEF AllOk
  <1>3. CASE i > Len(s)
    <2>1. (s \o t)[i] = t[i - Len(s)] /\ i - Len(s) \in DOMAIN t
      BY <1>1, <1>3
    <2> QED BY <2>1 DEF AllOk
  <1> QED BY <1>1, <1>2, <1>3

\* The fields of a configuration that was built pass their checks.
LEMMA FieldsPass ==
  ASSUME NEW c \in CodecSet, NEW n \in Nat, NEW fields, Len(fields) = n,
         \A k \in 1 .. n : fields[k] \in FieldsOf(c),
         NEW unchecked, NEW blob,
         \A f \in FieldsOf(c) : \E x \in Local(c)[f] : blob.bits[f] = { x }
  PROVE  AllOk(FieldChecks(c, fields, unchecked, blob))
  <1> DEFINE checks == FieldChecks(c, fields, unchecked, blob)
             field(i) == fields[(i + 1) \div 2]
             active(i) == ActiveBit(blob.bits[field(i)])
  <1>1. /\ DOMAIN checks = 1 .. 2 * n
        /\ \A i \in 1 .. 2 * n : checks[i].ok = IF i % 2 = 1 THEN active(i) # NoBit
                                                ELSE field(i) \in unchecked \/ active(i) \in Local(c)[field(i)]
    BY DEF FieldChecks
  <1>2. ASSUME NEW i \in 1 .. 2 * n
        PROVE  active(i) \in Local(c)[field(i)] /\ active(i) # NoBit
    <2>1. (i + 1) \div 2 \in 1 .. n
      OBVIOUS
    <2>2. field(i) \in FieldsOf(c)
      BY <2>1
    <2> HIDE DEF field
    <2>3. PICK x \in Local(c)[field(i)] : blob.bits[field(i)] = { x }
      BY <2>2
    <2>4. \A y : blob.bits[field(i)] = { y } => active(i) = y
      BY ActiveIsTheBit
    <2>5. active(i) = x
      BY <2>3, <2>4
    <2>6. x # NoBit
      BY <2>2, NoBitIsNone
    <2> QED BY <2>5, <2>6
  <1> HIDE DEF checks, field, active
  <1>3. AllOk(checks)
    BY <1>1, <1>2 DEF AllOk
  <1> QED BY <1>3 DEF checks

\* What a built configuration has to pass: its fields, between the check of the length and the last ones.
LEMMA ThreeParts ==
  ASSUME NEW n \in Nat, NEW fields, DOMAIN fields = 1 .. n, fields = [ i \in 1 .. n |-> fields[i] ],
         NEW first, first.ok, NEW S, NEW last \in Seq(S), AllOk(fields), AllOk(last)
  PROVE  AllOk((<< first >> \o fields) \o last)
  <1> DEFINE U == ({ first } \cup { fields[i] : i \in 1 .. n }) \cup S
  <1>1. \A i \in 1 .. n : fields[i] \in U
    OBVIOUS
  <1> first \in U /\ S \subseteq U
    OBVIOUS
  <1> HIDE DEF U
  <1>2. fields \in Seq(U) /\ << first >> \in Seq(U)
    BY <1>1
  <1>3. last \in Seq(U)
    OBVIOUS
  <1>4. AllOk(<< first >>)
    BY DEF AllOk
  <1>5. (<< first >> \o fields) \in Seq(U) /\ AllOk(<< first >> \o fields)
    <2> DEFINE one == << first >>
    <2>1. one \in Seq(U) /\ AllOk(one)
      BY <1>2, <1>4
    <2> HIDE DEF one
    <2>2. AllOk(one \o fields)
      BY <1>2, <2>1, BothOk
    <2>3. (one \o fields) \in Seq(U)
      BY <1>2, <2>1
    <2> QED BY <2>2, <2>3 DEF one
  <1> QED BY <1>3, <1>5, BothOk

\* A configuration all of whose checks hold is parsed.
LEMMA AllOkParses ==
  ASSUME NEW c \in CodecSet, NEW blob, AllOk(IF c = "SBC" THEN SbcChecks(blob) ELSE AacChecks(blob))
  PROVE  ParseStatus(c, blob) = OK
  BY DEF ParseStatus, AllOk

\* What SBC builds passes the fifteen checks of ParseConfiguration.
LEMMA SbcPasses ==
  ASSUME NEW blob, blob.sized, blob.lo \in 2 .. 250, blob.hi \in 2 .. 250,
         \A f \in FieldsOf("SBC") : \E x \in Local("SBC")[f] : blob.bits[f] = { x }
  PROVE  ParseStatus("SBC", blob) = OK
  <1> DEFINE fields == FieldChecks("SBC", SbcFields, {"bl"}, blob)
             first == [ ok |-> blob.sized, status |-> << "BAD_LENGTH" >> ]
             b1 == [ ok |-> blob.lo >= 2 /\ blob.lo <= 250, status |-> << "INVALID", "minimum bitpool" >> ]
             b2 == [ ok |-> blob.lo >= LocalMinBitpool, status |-> << "NOT_SUPPORTED", "minimum bitpool" >> ]
             b3 == [ ok |-> blob.hi >= 2 /\ blob.hi <= 250, status |-> << "INVALID", "maximum bitpool" >> ]
             b4 == [ ok |-> blob.hi <= LocalMaxBitpool, status |-> << "NOT_SUPPORTED", "maximum bitpool" >> ]
  <1>1. /\ Len(SbcFields) = 5
        /\ \A k \in 1 .. 5 : SbcFields[k] \in FieldsOf("SBC")
    BY DEF SbcFields, FieldsOf
  <1>2. AllOk(fields) /\ DOMAIN fields = 1 .. 2 * 5
    <2> DEFINE Passes(unchecked) == /\ AllOk(FieldChecks("SBC", SbcFields, unchecked, blob))
                                    /\ DOMAIN FieldChecks("SBC", SbcFields, unchecked, blob) = 1 .. 2 * 5
    <2>1. PICK c \in CodecSet, n \in Nat : c = "SBC" /\ n = 5
      BY DEF CodecSet
    <2>2. \A unchecked : Passes(unchecked)
      <3> TAKE unchecked
      <3>1. Len(SbcFields) = n /\ \A k \in 1 .. n : SbcFields[k] \in FieldsOf(c)
        BY <1>1, <2>1
      <3>2. \A f \in FieldsOf(c) : \E x \in Local(c)[f] : blob.bits[f] = { x }
        BY <2>1
      <3>3. /\ AllOk(FieldChecks(c, SbcFields, unchecked, blob))
            /\ DOMAIN FieldChecks(c, SbcFields, unchecked, blob) = 1 .. 2 * n
        <4>1. AllOk(FieldChecks(c, SbcFields, unchecked, blob))
          BY <3>1, <3>2, FieldsPass
        <4>2. DOMAIN FieldChecks(c, SbcFields, unchecked, blob) = 1 .. 2 * n
          BY <3>1 DEF FieldChecks
        <4> QED BY <4>1, <4>2
      <3> QED BY <2>1, <3>3
    <2> QED BY <2>2
  <1>3. fields = [ i \in 1 .. 2 * 5 |-> fields[i] ]
    BY <1>1 DEF FieldChecks
  <1>4. first.ok /\ b1.ok /\ b2.ok /\ b3.ok /\ b4.ok
    <2>1. first.ok
      OBVIOUS
    <2>2. /\ blob.lo >= 2 /\ blob.lo <= 250 /\ blob.lo >= LocalMinBitpool
          /\ blob.hi >= 2 /\ blob.hi <= 250 /\ blob.hi <= LocalMaxBitpool
      BY DEF LocalMinBitpool, LocalMaxBitpool
    <2> QED BY <2>1, <2>2, Zenon
  <1>5. SbcChecks(blob) = (<< first >> \o fields) \o << b1, b2, b3, b4 >>
    BY DEF SbcChecks
  <1> HIDE DEF fields, first, b1, b2, b3, b4
  <1>6. AllOk(<< b1, b2, b3, b4 >>) /\ << b1, b2, b3, b4 >> \in Seq({ b1, b2, b3, b4 })
    BY <1>4 DEF AllOk
  <1>7. AllOk((<< first >> \o fields) \o << b1, b2, b3, b4 >>)
    <2> DEFINE last == << b1, b2, b3, b4 >>
               S == { b1, b2, b3, b4 }
    <2>1. AllOk(last) /\ last \in Seq(S) /\ 2 * 5 \in Nat
      BY <1>6
    <2> HIDE DEF last, S
    <2>2. AllOk((<< first >> \o fields) \o last)
      BY <1>2, <1>3, <1>4, <2>1, ThreeParts
    <2> QED BY <2>2 DEF last
  <1> QED BY <1>5, <1>7, AllOkParses DEF CodecSet

\* What AAC builds passes the nine checks of ParseConfiguration.
LEMMA AacPasses ==
  ASSUME NEW blob, blob.sized,
         \A f \in FieldsOf("AAC") : \E x \in Local("AAC")[f] : blob.bits[f] = { x }
  PROVE  ParseStatus("AAC", blob) = OK
  <1> DEFINE fields == FieldChecks("AAC", AacFields, {}, blob)
             first == [ ok |-> blob.sized, status |-> << "BAD_LENGTH" >> ]
             b1 == [ ok |-> blob.vbr => LocalVbr, status |-> << "NOT_SUPPORTED", "vbr" >> ]
             b2 == [ ok |-> blob.vbr /\ LocalBitrate # 0 => blob.rate <= LocalBitrate,
                     status |-> << "NOT_SUPPORTED", "bit rate" >> ]
  <1>1. /\ Len(AacFields) = 3
        /\ \A k \in 1 .. 3 : AacFields[k] \in FieldsOf("AAC")
    BY DEF AacFields, FieldsOf
  <1>2. AllOk(fields) /\ DOMAIN fields = 1 .. 2 * 3
    <2> DEFINE Passes(unchecked) == /\ AllOk(FieldChecks("AAC", AacFields, unchecked, blob))
                                    /\ DOMAIN FieldChecks("AAC", AacFields, unchecked, blob) = 1 .. 2 * 3
    <2>1. PICK c \in CodecSet, n \in Nat : c = "AAC" /\ n = 3
      BY DEF CodecSet
    <2>2. \A unchecked : Passes(unchecked)
      <3> TAKE unchecked
      <3>1. Len(AacFields) = n /\ \A k \in 1 .. n : AacFields[k] \in FieldsOf(c)
        BY <1>1, <2>1
      <3>2. \A f \in FieldsOf(c) : \E x \in Local(c)[f] : blob.bits[f] = { x }
        BY <2>1
      <3>3. /\ AllOk(FieldChecks(c, AacFields, unchecked, blob))
            /\ DOMAIN FieldChecks(c, AacFields, unchecked, blob) = 1 .. 2 * n
        <4>1. AllOk(FieldChecks(c, AacFields, unchecked, blob))
          BY <3>1, <3>2, FieldsPass
        <4>2. DOMAIN FieldChecks(c, AacFields, unchecked, blob) = 1 .. 2 * n
          BY <3>1 DEF FieldChecks
        <4> QED BY <4>1, <4>2
      <3> QED BY <2>1, <3>3
    <2> QED BY <2>2
  <1>3. fields = [ i \in 1 .. 2 * 3 |-> fields[i] ]
    BY <1>1 DEF FieldChecks
  <1>4. first.ok /\ b1.ok /\ b2.ok
    BY DEF LocalVbr, LocalBitrate
  <1>5. AacChecks(blob) = (<< first >> \o fields) \o << b1, b2 >>
    BY DEF AacChecks
  <1> HIDE DEF fields, first, b1, b2
  <1>6. AllOk(<< b1, b2 >>) /\ << b1, b2 >> \in Seq({ b1, b2 })
    BY <1>4 DEF AllOk
  <1>7. AllOk((<< first >> \o fields) \o << b1, b2 >>)
    <2> DEFINE last == << b1, b2 >>
               S == { b1, b2 }
    <2>1. AllOk(last) /\ last \in Seq(S) /\ 2 * 3 \in Nat
      BY <1>6
    <2> HIDE DEF last, S
    <2>2. AllOk((<< first >> \o fields) \o last)
      BY <1>2, <1>3, <1>4, <2>1, ThreeParts
    <2> QED BY <2>2 DEF last
  <1> QED BY <1>5, <1>7, AllOkParses DEF CodecSet

\* What is built is parsed.
LEMMA BuiltIsParsed ==
  ASSUME NEW c \in CodecSet, NEW hint \in Hints, NEW remote,
         remote.lo \in 0 .. 255, remote.hi \in 0 .. 255, Builds(c, remote, hint)
  PROVE  ParseStatus(c, Build(c, remote, hint)) = OK
  <1> DEFINE blob == Build(c, remote, hint)
  <1>1. blob.sized /\ \A f \in FieldsOf(c) : \E x \in Local(c)[f] : blob.bits[f] = { x }
    <2>1. blob.sized
      BY DEF Build
    <2> QED BY <2>1, BuiltBits
  <1>2. CASE c = "SBC"
    <2>1. SbcBuilt(blob.bits)
      BY <1>2, SbcIsBuilt
    <2>2. /\ blob.lo = Bitpools(blob.bits, remote, hint).lo
          /\ blob.hi = Bitpools(blob.bits, remote, hint).hi
      BY <1>2 DEF Build
    <2>3. blob.lo \in 2 .. 250 /\ blob.hi \in 2 .. 250
      BY <2>1, <2>2, BuiltBitpools
    <2> HIDE DEF blob
    <2>4. ParseStatus("SBC", blob) = OK
      BY <1>1, <1>2, <2>3, SbcPasses
    <2> QED BY <1>2, <2>4 DEF blob
  <1>3. CASE c = "AAC"
    <2> HIDE DEF blob
    <2>1. ParseStatus("AAC", blob) = OK
      BY <1>1, <1>3, AacPasses
    <2> QED BY <1>3, <2>1 DEF blob
  <1> QED BY <1>2, <1>3 DEF CodecSet

\* What was negotiated was built, from capabilities of the headset.
LEMMA NegotiatedWasBuilt ==
  ASSUME AnswerOfTheAsk, negotiated # NoAnswer
  PROVE  \E c \in CodecSet : LET remote == RemoteOf(asked.remotes, c) IN
           /\ negotiated.id = c /\ negotiated.blob = Build(c, remote, asked.hint)
           /\ Builds(c, remote, asked.hint) /\ asked.hint \in Hints
           /\ remote.lo \in 0 .. 255 /\ remote.hi \in 0 .. 255
  <1> DEFINE remotes == asked.remotes
             hint == asked.hint
             best == Best(remotes, hint, asked.skipped)
             remote == RemoteOf(remotes, best)
  <1>1. asked # NoAsk
    BY NothingOffered DEF AnswerOfTheAsk
  <1>2. asked \in Asks
    BY <1>1 DEF AnswerOfTheAsk
  <1>3. hint \in Hints /\ remotes \in RemoteLists /\ (hint.codec \in CodecSet => asked.skipped = "none")
    BY <1>2 DEF Asks
  <1>4. best \in Possible(remotes, asked.skipped) /\ negotiated = Answer(remotes, best, hint)
    BY <1>3, BestIsAnswered DEF AnswerOfTheAsk
  <1>5. best \in CodecSet /\ Compatible(remotes, best)
    BY <1>4 DEF Possible
  <1> HIDE DEF best
  <1>6. negotiated.id = best /\ negotiated.blob = Build(best, remote, hint)
    BY <1>4, <1>5, AnswerNames
  <1>7. Works(remotes, best, hint)
    BY <1>5, WorksIsCompatible
  <1>8. Offers(remotes, best) # {} /\ Builds(best, remote, hint)
    BY <1>7 DEF Works
  <1>9. remote.lo \in 0 .. 255 /\ remote.hi \in 0 .. 255
    BY <1>3, <1>8, RemoteIsOffered
  <1> QED BY <1>3, <1>5, <1>6, <1>8, <1>9

\* The codec parses whatever it has built, as the factory asserts, and startSession takes it back: for
\* any capabilities on the air, any hint and either codec.
THEOREM NegotiatedConfigurationIsAccepted == A2dpSpec => []NegotiatedIsAccepted
  <1>1. AnswerOfTheAsk => NegotiatedIsAccepted
    <2> SUFFICES ASSUME AnswerOfTheAsk, negotiated # NoAnswer
                 PROVE  /\ ParseStatus(negotiated.id, negotiated.blob) = OK
                        /\ StartReply(negotiated.id, negotiated.blob) = OK
      BY DEF NegotiatedIsAccepted
    <2>1. PICK c \in CodecSet : LET remote == RemoteOf(asked.remotes, c) IN
            /\ negotiated.id = c /\ negotiated.blob = Build(c, remote, asked.hint)
            /\ Builds(c, remote, asked.hint) /\ asked.hint \in Hints
            /\ remote.lo \in 0 .. 255 /\ remote.hi \in 0 .. 255
      BY NegotiatedWasBuilt
    <2>2. ParseStatus(negotiated.id, negotiated.blob) = OK
      BY <2>1, BuiltIsParsed
    <2>3. negotiated.id \in CodecSet
      BY <2>1
    <2> QED BY <2>2, <2>3 DEF StartReply
  <1> QED BY <1>1, NegotiationInvariant, PTL

\* The binary search over the bitpools ends at the last one below the bit rate hinted, for every
\* combination of frequency, blocks, subbands and channel mode, and any bit rate.
THEOREM NegotiationKeepsTheHintedRate == A2dpSpec => []HintedRateKept
  <1>1. AnswerOfTheAsk => HintedRateKept
    <2> DEFINE hint == asked.hint
               bits == negotiated.blob.bits
               hi == negotiated.blob.hi
    <2> SUFFICES ASSUME AnswerOfTheAsk, negotiated # NoAnswer, negotiated.id = "SBC",
                        hint.given, hint.max > 0, hint.max >= hint.min
                 PROVE  /\ hi = 2 \/ GetBitrate(bits, hi) < hint.max
                        /\ hi = 250 \/ GetBitrate(bits, hi + 1) >= hint.max
      BY DEF HintedRateKept
    <2>1. PICK c \in CodecSet : LET remote == RemoteOf(asked.remotes, c) IN
            /\ negotiated.id = c /\ negotiated.blob = Build(c, remote, asked.hint)
            /\ Builds(c, remote, asked.hint) /\ asked.hint \in Hints
            /\ remote.lo \in 0 .. 255 /\ remote.hi \in 0 .. 255
      BY NegotiatedWasBuilt
    <2> DEFINE remote == RemoteOf(asked.remotes, "SBC")
    <2>2. negotiated.blob = Build("SBC", remote, hint) /\ Builds("SBC", remote, hint)
      BY <2>1
    <2>3. SbcBuilt(bits)
      BY <2>2, SbcIsBuilt
    <2>4. hi = Bitpools(bits, remote, hint).hi
      BY <2>2 DEF Build
    <2>5. hi = GetBitpool(bits, hint.max)
      BY <2>1, <2>3, <2>4, BuiltBitpools
    <2>6. hint.max \in Int
      BY <2>1, HintsAreNumbers
    <2> HIDE DEF hi, bits, hint
    <2> QED BY <2>3, <2>5, <2>6, BitpoolOfRate
  <1> QED BY <1>1, NegotiationInvariant, PTL
=============================================================================
