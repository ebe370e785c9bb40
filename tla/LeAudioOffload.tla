---------------------------- MODULE LeAudioOffload ----------------------------
(***************************************************************************)
(* The LE audio offload provider: the ASE configuration settings loaded    *)
(* from two JSON files, the matching of those settings with the            *)
(* capabilities of a headset and the requirements of the stack, the QoS    *)
(* that goes with a configuration, and the broadcast configuration.        *)
(*                                                                         *)
(* The codec configuration of an ASE is a function from the tags of its    *)
(* LTV entries to their values; bit masks are sets.  A list that is        *)
(* filtered keeps its places: what is left is a function of the places in  *)
(* the files the entries came from, and their order is that of the places. *)
(***************************************************************************)
EXTENDS LeAudioCodecs, FiniteSets

CONSTANTS
  Content,        \* the two JSON files: [ qos, codecs, configurations, scenarios ]
  AseAsks,        \* arguments of getLeAudioAseConfiguration
  BroadcastCaps,  \* capabilities of a broadcast sink
  CodecIds,       \* the codecs the stack gives priorities to
  NoList,         \* an optional list without value
  NoQos           \* an optional QoS without value

-----------------------------------------------------------------------------
(* AudioSetConfigurationProviderJson: the settings of the two files.       *)

\* The contexts a scenario stands for; a scenario of another name has none.
ContextOf(scenario) ==
  CASE scenario = "Media" ->
         { "ALERTS", "INSTRUCTIONAL", "NOTIFICATIONS", "EMERGENCY_ALARM", "UNSPECIFIED", "MEDIA" }
    [] scenario = "Conversational"  -> { "RINGTONE_ALERTS", "CONVERSATIONAL" }
    [] scenario = "Live"            -> { "LIVE_AUDIO" }
    [] scenario = "Game"            -> { "GAME" }
    [] scenario = "VoiceAssistants" -> { "VOICE_ASSISTANTS" }
    [] OTHER                        -> {}

\* populateConfigurationData: a frequency or a duration of no known notation is left out, and what
\* the file does not say reads as 0, which is 7.5 ms for a frame duration.
SettingFreqs == { 8000, 16000, 24000, 32000, 44100, 48000 }
ConfigurationData(sub) ==
  [ tag \in { "alloc", "octets", "blocks" }
              \cup (IF sub.freq \in SettingFreqs THEN { "freq" } ELSE {})
              \cup (IF sub.duration \in { Missing, 7500, 10000 } THEN { "duration" } ELSE {}) |->
      CASE tag = "freq"     -> sub.freq
        [] tag = "duration" -> IF sub.duration = Missing THEN 7500 ELSE sub.duration
        [] tag = "alloc"    -> IF sub.alloc = Missing THEN {} ELSE sub.alloc
        [] tag = "octets"   -> IF sub.octets = Missing THEN 0 ELSE sub.octets
        [] tag = "blocks"   -> IF sub.blocks = Missing THEN 0 ELSE sub.blocks ]

\* SetConfigurationFromFlatSubconfig
TargetLatencies == { "BALANCED", "HIGH", "LOW" }
DirectionConfiguration(sub, qos) ==
  [ ase |-> [ codec   |-> sub.codec,
              latency |-> IF qos.latency \in TargetLatencies THEN qos.latency ELSE "UNDEFINED",
              ltv     |-> ConfigurationData(sub) ],
    qos |-> [ retransmissions |-> qos.retransmissions, maxLatency |-> qos.maxLatency ] ]

\* The QoS names of a configuration: the first for the sink, the second for the source.
DefaultQos == "QoS_Config_Balanced_Reliability"
SinkQos(c)   == IF c.qos = << >> THEN DefaultQos ELSE c.qos[1]
SourceQos(c) == IF c.qos = << >> THEN DefaultQos ELSE IF Len(c.qos) > 1 THEN c.qos[2] ELSE c.qos[1]

\* The direction configurations of one direction of a configuration (direction 1 is the sink), by
\* their places in the codec configuration.
Directed(c, direction) ==
  LET subs == IF Named(Content.codecs, c.codec) = {} THEN << >> ELSE Find(Content.codecs, c.codec).subs
      qos  == Find(Content.qos, IF direction = 1 THEN SinkQos(c) ELSE SourceQos(c))
  IN  [ i \in { k \in DOMAIN subs : (subs[k].direction = 1) <=> (direction = 1) } |->
          DirectionConfiguration(subs[i], qos) ]
HasDirection(c) == \E direction \in { 1, 2 } : DOMAIN Directed(c, direction) # {}

\* PopulateAseConfigurationFromFlat gives the code of a missing QoS a null pointer: the files name
\* the QoS entries they use.
ASSUME QosIsNamed ==
  \A i \in DOMAIN Content.configurations :
    LET c == Content.configurations[i]
    IN  Named(Content.qos, SinkQos(c)) # {} /\ Named(Content.qos, SourceQos(c)) # {}

\* The files hold lists, and numbers where the schema of the files has numbers; a QoS is not the
\* absence of one.
ASSUME ContentAssumption ==
  /\ DOMAIN Content.qos \subseteq Nat /\ DOMAIN Content.codecs \subseteq Nat
  /\ DOMAIN Content.scenarios \subseteq Nat
  /\ \A i \in DOMAIN Content.scenarios : DOMAIN Content.scenarios[i].configurations \subseteq Nat
  /\ \A i \in DOMAIN Content.qos :
       LET q == Content.qos[i]
       IN  /\ q.maxLatency \in Nat
           /\ NoQos # [ retransmissions |-> q.retransmissions, maxLatency |-> q.maxLatency ]
  /\ \A i \in DOMAIN Content.codecs :
       LET subs == Content.codecs[i].subs
       IN  /\ DOMAIN subs \subseteq Nat
           /\ \A k \in DOMAIN subs : { subs[k].octets, subs[k].blocks } \subseteq Nat \cup { Missing }

\* The bounds of a capability are numbers.
ASSUME AsksAssumption ==
  \A ask \in AseAsks : \A cap \in ask.capabilities :
    "octets" \in DOMAIN cap.ltv => cap.ltv["octets"] \in Nat \X Nat

\* configurations_: a configuration with no direction at all is not kept, the last of a name is.
Configurations ==
  { i \in DOMAIN Content.configurations :
      /\ HasDirection(Content.configurations[i])
      /\ \A j \in DOMAIN Content.configurations :
           j > i /\ Content.configurations[j].name = Content.configurations[i].name =>
             ~ HasDirection(Content.configurations[j]) }

SettingFor(scenario, name) ==
  LET i == CHOOSE k \in Configurations : Content.configurations[k].name = name
  IN  [ context |-> ContextOf(scenario),
        sink    |-> Directed(Content.configurations[i], 1),
        source  |-> Directed(Content.configurations[i], 2) ]

\* LoadScenariosFromFiles: one setting for each configuration a scenario names and that is known,
\* by the places of the scenario and of the name in it.
KnownNames(s) ==
  { k \in DOMAIN s.configurations : \E i \in Configurations : Content.configurations[i].name = s.configurations[k] }
SettingPlaces ==
  UNION { { << n, k >> : k \in KnownNames(Content.scenarios[n]) } : n \in DOMAIN Content.scenarios }
AllSettings ==
  [ place \in SettingPlaces |->
      LET s == Content.scenarios[place[1]] IN SettingFor(s.name, s.configurations[place[2]]) ]

-----------------------------------------------------------------------------
VARIABLES
  configurations_loaded,        \* configurations_ is not empty
  ase_configuration_settings,
  codec_disabled,               \* codec_priority_map_: the codecs of CODEC_PRIORITY_DISABLED
  broadcast_settings,
  ase_reply                     \* the last call of the provider and what it answered

leVars == << codecsVars, configurations_loaded, ase_configuration_settings,
             codec_disabled, broadcast_settings, ase_reply >>

settingsVars == << configurations_loaded, ase_configuration_settings >>

\* LoadAudioSetConfigurationProviderJson: nothing is loaded again once both lists are there; a
\* file that cannot be read leaves what was loaded before it.
LoadSettings(configsRead, scenariosRead) ==
  IF configurations_loaded /\ DOMAIN ase_configuration_settings # {}
  THEN UNCHANGED settingsVars
  ELSE /\ configurations_loaded' = (configsRead /\ Configurations # {})
       /\ ase_configuration_settings' = IF configsRead /\ scenariosRead THEN AllSettings ELSE << >>

-----------------------------------------------------------------------------
(* Matching.                                                               *)

\* Mutant of isMatchedValidCodec: a disabled codec still matches.
isMatchedValidCodec_Disabled(cfg, req) == cfg = req

isMatchedValidCodec(cfg, req) == cfg \notin codec_disabled /\ cfg = req

isCapabilitiesMatchedContext(context, cap) ==
  cap.contexts = NoList \/ \E i \in DOMAIN cap.contexts : context \cap cap.contexts[i] # {}

\* freq_to_support_bitmask_map: a frequency that is not in the map matches no capability.
MatchableFreqs == { 8000, 11025, 16000, 22050, 24000, 32000, 48000, 88200, 96000, 176400, 192000, 384000 }

MatchesLtv(tag, value, capability) ==
  CASE tag = "freq"     -> value \in MatchableFreqs \cap capability
    [] tag = "duration" -> value \in { 7500, 10000 } \cap capability
    [] tag = "alloc"    -> TRUE     \* "TODO: how to match?"
    [] tag = "blocks"   -> value <= capability
    [] tag = "octets"   -> value >= capability[1] /\ value <= capability[2]

isCapabilitiesMatchedCodecConfiguration(ltv, capabilities) ==
  \A tag \in DOMAIN capabilities : tag \in DOMAIN ltv /\ MatchesLtv(tag, ltv[tag], capabilities[tag])

isMatchedAseConfiguration(ase, req) ==
  /\ req.codec # Missing => isMatchedValidCodec(ase.codec, req.codec)
  /\ ase.latency = req.latency
  /\ \A tag \in DOMAIN req.ltv : tag \in DOMAIN ase.ltv /\ ase.ltv[tag] = req.ltv[tag]

DirectionList(setting, direction) == IF direction = "sink" THEN setting.sink ELSE setting.source

\* The entries at some places of a list.
At(places, list) == [ i \in places |-> list[i] ]

\* getCapabilitiesMatchedAseConfigurationSettings: the direction configurations of a setting that
\* fit a capability; an empty list stands for no setting.
FitCapability(setting, cap, direction) ==
  LET list == DirectionList(setting, direction)
  IN  At({ i \in DOMAIN list :
             /\ isCapabilitiesMatchedContext(setting.context, cap)
             /\ isMatchedValidCodec(list[i].ase.codec, cap.codec)
             /\ isCapabilitiesMatchedCodecConfiguration(list[i].ase.ltv, cap.ltv) }, list)

\* getRequirementMatchedAseConfigurationSettings: those of them that meet a requirement.
FitRequirement(context, list, req, direction) ==
  LET wanted == DirectionList(req, direction)
  IN  At({ i \in DOMAIN list :
             /\ context = req.context
             /\ wanted = NoList \/ \E k \in DOMAIN wanted : isMatchedAseConfiguration(list[i].ase, wanted[k]) }, list)

\* The settings answered, in no order: one for each setting, capability and requirement that fit.
Matched(ask) ==
  { [ context |-> s.context, direction |-> ask.direction,
      list |-> FitRequirement(s.context, FitCapability(s, cap, ask.direction), req, ask.direction) ] :
      s \in { ase_configuration_settings'[i] : i \in DOMAIN ase_configuration_settings' },
      cap \in ask.capabilities, req \in ask.requirements }

\* getLeAudioAseConfiguration; the caller gives the capabilities of one direction.
GetLeAudioAseConfiguration(ask, configsRead, scenariosRead) ==
  /\ LoadSettings(configsRead, scenariosRead)
  /\ ase_reply' = [ call |-> "configuration", ask |-> ask, disabled |-> codec_disabled,
                    answer |-> { m \in Matched(ask) : DOMAIN m.list # {} } ]
  /\ UNCHANGED << codecsVars, codec_disabled, broadcast_settings >>

isMatchedQosRequirement(qos, req) ==
  qos.retransmissions = req.retransmissions /\ qos.maxLatency <= req.maxLatency

\* The direction configurations of a context, each by the places of its scenario, of the name in
\* it and of its own in the codec configuration, and what the code comes to first.
QosPlaces(context, direction) ==
  UNION { { << p[1], p[2], i >> : i \in DOMAIN DirectionList(ase_configuration_settings'[p], direction) } :
            p \in { q \in DOMAIN ase_configuration_settings' : ase_configuration_settings'[q].context = context } }

QosAt(place, direction) == DirectionList(ase_configuration_settings'[<< place[1], place[2] >>], direction)[place[3]]

Before(a, b) ==
  \/ a[1] < b[1]
  \/ a[1] = b[1] /\ a[2] < b[2]
  \/ a[1] = b[1] /\ a[2] = b[2] /\ a[3] < b[3]

\* The first QoS of the settings of a context that a requirement matches; with no requirement the
\* first one of the sources.
FirstQos(context, direction, req) ==
  LET hits == { p \in QosPlaces(context, direction) :
                  \/ req = NoQos
                  \/ /\ isMatchedAseConfiguration(QosAt(p, direction).ase, req.ase)
                     /\ isMatchedQosRequirement(QosAt(p, direction).qos, req) }
  IN  IF hits = {} THEN NoQos
      ELSE QosAt(CHOOSE p \in hits : \A q \in hits : ~ Before(q, p), direction).qos

\* getLeAudioAseQosConfiguration with a requirement of one direction or none.
GetLeAudioAseQosConfiguration(context, direction, req, configsRead, scenariosRead) ==
  /\ LoadSettings(configsRead, scenariosRead)
  /\ ase_reply' = [ call |-> "qos", req |-> req, disabled |-> codec_disabled,
                    answer |-> FirstQos(context, direction, req) ]
  /\ UNCHANGED << codecsVars, codec_disabled, broadcast_settings >>

\* setCodecPriority
SetCodecPriority(codec, disabled) ==
  /\ codec_disabled' = IF disabled THEN codec_disabled \cup {codec} ELSE codec_disabled \ {codec}
  /\ ase_reply' = [ call |-> "priority" ]
  /\ UNCHANGED << codecsVars, settingsVars, broadcast_settings >>

-----------------------------------------------------------------------------
(* Broadcast.                                                              *)

\* getBroadcastSettings: one setting of one BIS for each codec that has LE audio information.  The
\* maps of frequencies and durations give 0 for what they do not hold.
BisOf(info) ==
  [ codec |-> info.id,
    ltv |-> [ freq     |-> IF info.freq \in { 16000, 48000, 96000 } THEN info.freq ELSE 0,
              octets   |-> info.bitdepth,
              duration |-> IF info.duration \in { 7500, 10000 } THEN info.duration ELSE 0,
              alloc    |-> { "FRONT_CENTER" } ] ]
BroadcastSettings(infos) == { BisOf(i) : i \in infos \ { EmptyInfo } }

isMatchedBISConfiguration(bis, cap) ==
  /\ isMatchedValidCodec(bis.codec, cap.codec)
  /\ isCapabilitiesMatchedCodecConfiguration(bis.ltv, cap.ltv)

\* The settings, each of one subgroup with one BIS, that a sink takes; a requirement asks for a
\* number of BIS in a subgroup, none for any.
BroadcastMatches(settings, cap, bisNum) ==
  { b \in settings : isMatchedBISConfiguration(b, cap) /\ bisNum \in { 0, 1 } }

\* getLeAudioBroadcastConfiguration writes a setting through the result pointer it has set to
\* null, which ends the process; with no setting it answers nothing.
GetLeAudioBroadcastConfiguration(cap, bisNum) ==
  /\ IF broadcast_settings # {}
     THEN UNCHANGED << codecsVars, broadcast_settings >>
     ELSE /\ GetLeAudioOffloadCodecInfo(LeBroadcastOffloadType)
          /\ broadcast_settings' = BroadcastSettings(told'.answer)
  /\ ase_reply' = [ call |-> "broadcast", cap |-> cap, bisNum |-> bisNum, disabled |-> codec_disabled,
                    answer |-> IF BroadcastMatches(broadcast_settings', cap, bisNum) = {}
                               THEN "nothing" ELSE "crash" ]
  /\ UNCHANGED << settingsVars, codec_disabled >>

-----------------------------------------------------------------------------
LeInit ==
  /\ CodecsInit
  /\ configurations_loaded = FALSE /\ ase_configuration_settings = << >>
  /\ codec_disabled = {} /\ broadcast_settings = {}
  /\ ase_reply = [ call |-> "none" ]

\* The codec queries of the factory come through the same statics.
FactoryQuery == CodecsNext /\ UNCHANGED << settingsVars, codec_disabled, broadcast_settings, ase_reply >>

\* The QoS asked for: that of a configuration answered, or any.
QosAsk(m, i) ==
  [ ase |-> m.list[i].ase,
    retransmissions |-> m.list[i].qos.retransmissions, maxLatency |-> m.list[i].qos.maxLatency ]

LeNext ==
  \/ FactoryQuery
  \/ \E ask \in AseAsks, configsRead, scenariosRead \in BOOLEAN :
       GetLeAudioAseConfiguration(ask, configsRead, scenariosRead)
  \/ /\ ase_reply.call = "configuration"
     /\ \E m \in ase_reply.answer : \E i \in DOMAIN m.list, read \in BOOLEAN :
          GetLeAudioAseQosConfiguration(m.context, m.direction, QosAsk(m, i), read, read)
  \/ \E context \in { ContextOf("Media"), ContextOf("Game") }, read \in BOOLEAN :
       GetLeAudioAseQosConfiguration(context, "none", NoQos, read, read)
  \/ \E codec \in CodecIds, disabled \in BOOLEAN : SetCodecPriority(codec, disabled)
  \/ \E cap \in BroadcastCaps, bisNum \in 0..2 : GetLeAudioBroadcastConfiguration(cap, bisNum)

LeSpec == LeInit /\ [][LeNext]_leVars

-----------------------------------------------------------------------------
(* Properties.                                                             *)

\* A setting of 44100 Hz is read from the files and a headset may report the rate, but
\* freq_to_support_bitmask_map has no entry for it (LeAudioOffloadAudioProvider.cpp:34-60).
UnmappedFreqs == { 44100 }

\* A capability of the headset covers a direction configuration of a setting; the rates of
\* unmatched are left out of the capability.
Covers(cap, setting, d, unmatched) ==
  /\ d.ase.codec = cap.codec
  /\ cap.contexts # NoList => \E i \in DOMAIN cap.contexts : setting.context \cap cap.contexts[i] # {}
  /\ DOMAIN cap.ltv \subseteq DOMAIN d.ase.ltv
  /\ "freq" \in DOMAIN cap.ltv => d.ase.ltv["freq"] \in cap.ltv["freq"] \ unmatched
  /\ "duration" \in DOMAIN cap.ltv => d.ase.ltv["duration"] \in cap.ltv["duration"]
  /\ "octets" \in DOMAIN cap.ltv => d.ase.ltv["octets"] \in cap.ltv["octets"][1] .. cap.ltv["octets"][2]
  /\ "blocks" \in DOMAIN cap.ltv => d.ase.ltv["blocks"] <= cap.ltv["blocks"]

Wants(req, setting, direction, d) ==
  /\ setting.context = req.context
  /\ LET wanted == DirectionList(req, direction)
     IN  wanted # NoList =>
           \E i \in DOMAIN wanted :
             /\ wanted[i].codec \in { Missing, d.ase.codec }
             /\ wanted[i].latency = d.ase.latency
             /\ \A tag \in DOMAIN wanted[i].ltv : << tag, wanted[i].ltv[tag] >> \in
                   { << t, d.ase.ltv[t] >> : t \in DOMAIN d.ase.ltv }

\* What was answered, and what there was to answer, each entry with the context of its setting.
Answered == UNION { { << m.context, m.list[i] >> : i \in DOMAIN m.list } : m \in ase_reply.answer }

Fitting(ask, setting, unmatched) ==
  LET list == DirectionList(setting, ask.direction)
  IN  { << setting.context, list[i] >> : i \in { k \in DOMAIN list :
          /\ list[k].ase.codec \notin ase_reply.disabled
          /\ \E cap \in ask.capabilities : Covers(cap, setting, list[k], unmatched)
          /\ \E req \in ask.requirements : Wants(req, setting, ask.direction, list[k]) } }

AllFitting(unmatched) ==
  UNION { Fitting(ase_reply.ask, ase_configuration_settings[p], unmatched) : p \in DOMAIN ase_configuration_settings }

\* The configurations answered, told apart from the matching of the code: every direction
\* configuration of a setting of the files whose context the stack asks for, whose codec is not
\* disabled, which some capability of the headset covers and some requirement wants.  Exempted are
\* the UnmappedFreqs: where the capability names its rates, a setting of 44100 Hz that fits in all
\* else is never answered (ListedRatesAreMatched).  Asked right after for the QoS of one of its
\* entries, the provider finds one that is no worse.
AnswerIsWhatFits ==
  /\ ase_reply.call = "configuration" => Answered = AllFitting(UnmappedFreqs)
  /\ ase_reply.call = "qos" /\ ase_reply.req # NoQos =>
       /\ ase_reply.answer # NoQos
       /\ ase_reply.answer.retransmissions = ase_reply.req.retransmissions
       /\ ase_reply.answer.maxLatency <= ase_reply.req.maxLatency

\* The file of settings lists 44100 Hz under "Example values which can be used as
\* 'codec_configuration.compound_value'" (audio_set_configurations.json:19, 33), and
\* getLeAudioAseConfiguration answers the settings that match: so every setting that fits is
\* answered, one of 44100 Hz too.
ListedRatesAreMatched == ase_reply.call = "configuration" => AllFitting({}) \subseteq Answered

\* getLeAudioBroadcastConfiguration says "Match and return the first matched requirement": a
\* sink that takes a broadcast codec of the setting file is answered a setting.
BroadcastIsAnswered ==
  ase_reply.call = "broadcast" /\ file # NoFile =>
    (/\ Usable(Loaded(file))
     /\ \E b \in BroadcastSettings(InfoMap(Loaded(file))[LeBroadcastOffloadType]) :
          /\ b.codec = ase_reply.cap.codec /\ b.codec \notin ase_reply.disabled
          /\ isCapabilitiesMatchedCodecConfiguration(b.ltv, ase_reply.cap.ltv)
     /\ ase_reply.bisNum \in { 0, 1 }
     => ase_reply.answer # "nothing")
===============================================================================
