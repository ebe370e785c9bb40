---------------------------- MODULE LeAudioCodecs ----------------------------
(***************************************************************************)
(* The LE audio codecs of an offload build: the setting file that lists    *)
(* scenarios, configurations, codec configurations and strategies, the     *)
(* capabilities and the codec information composed from it, and the        *)
(* static variables that remember both from one call to the next.          *)
(*                                                                         *)
(* A file is a record of four sequences of named entries; the elements the *)
(* XML reader nests in lists are in one sequence, and an attribute that is *)
(* missing is Missing.                                                     *)
(***************************************************************************)
EXTENDS Integers, Sequences, SessionTypes

CONSTANTS
  Files,      \* the contents the setting file may have, NoFile among them
  NoFile,     \* the file cannot be read; also std::nullopt of the parsers
  Missing     \* an attribute that is not there

LeOffloadTypes == LeUnicastOffloadTypes \cup { LeBroadcastOffloadType }

-----------------------------------------------------------------------------
(* Reading the file.                                                       *)

\* GetScenarios: a scenario must say what it encodes and what it decodes.
GetScenarios(f) == SelectSeq(f.scenarios, LAMBDA s : s.encode # Missing /\ s.decode # Missing)

ConfigurationsOf(f) ==
  SelectSeq(f.configurations, LAMBDA c : Missing \notin { c.name, c.codec, c.strategy })

IsValidCodecConfiguration(c) == Missing \notin { c.name, c.codec, c.freq, c.duration, c.octets }

\* A stereo strategy is for two devices of one channel, one of two, or a broadcast of two.
IsValidStrategyConfiguration(s) ==
  /\ Missing \notin { s.name, s.location, s.devices, s.channels }
  /\ \/ s.location = "STEREO" /\ << s.devices, s.channels >> \in { << 2, 1 >>, << 1, 2 >>, << 0, 2 >> }
     \/ s.location = "MONO" /\ s.devices = 1 /\ s.channels = 1

\* The entries the maps get; the first entry of a name stays.
Loaded(f) ==
  [ scenarios      |-> GetScenarios(f),
    configurations |-> ConfigurationsOf(f),
    codecs         |-> SelectSeq(f.codecs, IsValidCodecConfiguration),
    strategies     |-> SelectSeq(f.strategies, IsValidStrategyConfiguration) ]

NothingLoaded ==
  [ scenarios |-> << >>, configurations |-> << >>, codecs |-> << >>, strategies |-> << >> ]

\* LoadConfigurationToMap stops at the first list that has nothing; the callers ask for all four.
Usable(maps) == << >> \notin { maps.scenarios, maps.configurations, maps.codecs, maps.strategies }

LoadConfigurationToMap(f) == IF Usable(Loaded(f)) THEN Loaded(f) ELSE NothingLoaded

Named(entries, name) == { i \in DOMAIN entries : entries[i].name = name }
Find(entries, name) ==
  entries[CHOOSE i \in Named(entries, name) : \A j \in Named(entries, name) : i <= j]

\* The configuration a scenario names leads to a codec and a strategy.
Resolves(maps, name) ==
  /\ Named(maps.configurations, name) # {}
  /\ Named(maps.codecs, Find(maps.configurations, name).codec) # {}
  /\ Named(maps.strategies, Find(maps.configurations, name).strategy) # {}

CodecOf(maps, name)    == Find(maps.codecs, Find(maps.configurations, name).codec)
StrategyOf(maps, name) == Find(maps.strategies, Find(maps.configurations, name).strategy)

-----------------------------------------------------------------------------
(* ComposeLeAudioCodecCapabilities.                                        *)

Unknown == [ codecType |-> "UNKNOWN" ]

Lc3OrAptx(codec) ==
  [ freq |-> codec.freq, duration |-> codec.duration, octets |-> codec.octets ]

GetUnicastCapability(maps, name) ==
  IF name = "invalid" \/ ~Resolves(maps, name)
     \/ CodecOf(maps, name).codec \notin { "LC3", "APTX_ADAPTIVE_LE", "APTX_ADAPTIVE_LEX" }
  THEN Unknown
  ELSE [ codecType |-> CodecOf(maps, name).codec, channel |-> StrategyOf(maps, name).location,
         devices |-> StrategyOf(maps, name).devices, channels |-> StrategyOf(maps, name).channels,
         capability |-> Lc3OrAptx(CodecOf(maps, name)) ]

GetBroadcastCapability(maps, name) ==
  IF name \in { "invalid", Missing } \/ ~Resolves(maps, name) \/ CodecOf(maps, name).codec # "LC3"
  THEN Unknown
  ELSE [ codecType |-> "LC3", channel |-> StrategyOf(maps, name).location,
         channels |-> StrategyOf(maps, name).channels,
         capability |-> Lc3OrAptx(CodecOf(maps, name)) ]

\* The setting of a scenario; scenarios with no capability at all are left out.
SettingOf(maps, s) ==
  [ encode    |-> GetUnicastCapability(maps, s.encode),
    decode    |-> GetUnicastCapability(maps, s.decode),
    broadcast |-> GetBroadcastCapability(maps, s.broadcast) ]

Compose(maps) ==
  LET settings == [ i \in DOMAIN maps.scenarios |-> SettingOf(maps, maps.scenarios[i]) ]
  IN  SelectSeq(settings, LAMBDA s : s # [ encode |-> Unknown, decode |-> Unknown, broadcast |-> Unknown ])

\* GetLeAudioCodecInfo: what a configuration becomes; one that leads nowhere stays empty.
\* The octets of a frame are kept as the bit depth.
EmptyInfo == [ id |-> "none" ]
InfoOf(maps, name) ==
  IF ~Resolves(maps, name) THEN EmptyInfo
  ELSE LET codec == CodecOf(maps, name)
           strategy == StrategyOf(maps, name)
       IN [ id |-> IF codec.codec = "LC3" THEN "LC3" ELSE "VENDOR",
            freq |-> codec.freq, bitdepth |-> codec.octets, duration |-> codec.duration,
            mode |-> CASE strategy.location = "STEREO" -> "STEREO"
                       [] strategy.location = "MONO" /\ strategy.channels = 1 -> "MONO"
                       [] strategy.location = "MONO" /\ strategy.channels # 1 -> "DUALMONO" ]

\* The codec information of each session type, the order of a list left out.
NamesFor(type, s) ==
  { CASE type = "LE_AUDIO_HARDWARE_OFFLOAD_ENCODING_DATAPATH" -> s.encode
      [] type = "LE_AUDIO_HARDWARE_OFFLOAD_DECODING_DATAPATH" -> s.decode
      [] type = LeBroadcastOffloadType -> s.broadcast } \ { Missing }
InfoMap(maps) ==
  [ type \in LeOffloadTypes |->
      { InfoOf(maps, n) : n \in UNION { NamesFor(type, maps.scenarios[i]) : i \in DOMAIN maps.scenarios } } ]

-----------------------------------------------------------------------------
VARIABLES
  file,                   \* the setting file of this device
  leAudioCodecCapabilities,
  isInvalidFileContent,
  session_codecs,         \* session_codecs_map_: << >> or a map from the session types
  defaultCapabilities,    \* kDefaultOffloadLeAudioCapabilities
  defaultInfo,            \* kDefaultOffloadLeAudioCodecInfoMap
  told                    \* what the last query answered, and which query it was

codecsVars == << file, leAudioCodecCapabilities, isInvalidFileContent, session_codecs,
                 defaultCapabilities, defaultInfo, told >>

NothingTold == [ query |-> "none", answer |-> << >> ]

CodecsInit ==
  /\ file \in Files
  /\ leAudioCodecCapabilities = << >>
  /\ isInvalidFileContent = FALSE
  /\ session_codecs = << >>
  /\ defaultCapabilities = << >>
  /\ defaultInfo = << >>
  /\ told = NothingTold

\* ParseFromLeAudioOffloadSettingFile does not read the file again once it gave capabilities or
\* was found invalid.
Parsed ==
  IF leAudioCodecCapabilities # << >> \/ isInvalidFileContent THEN NoFile ELSE file

\* BluetoothLeAudioCodecsProvider::GetLeAudioCodecCapabilities; loading clears every map.
LoadCapabilities(setting) ==
  IF leAudioCodecCapabilities # << >>
  THEN /\ defaultCapabilities' = leAudioCodecCapabilities
       /\ UNCHANGED << leAudioCodecCapabilities, isInvalidFileContent, session_codecs >>
  ELSE LET maps == IF setting = NoFile THEN NothingLoaded ELSE LoadConfigurationToMap(setting)
           caps == IF Usable(maps) THEN Compose(maps) ELSE << >>
       IN  /\ leAudioCodecCapabilities' = caps
           /\ isInvalidFileContent' = (caps = << >>)
           /\ session_codecs' = IF setting = NoFile THEN session_codecs ELSE << >>
           /\ defaultCapabilities' = caps

\* GetLeAudioOffloadCodecCapabilities, for getProviderCapabilities of an LE offload session.
GetLeAudioOffloadCodecCapabilities ==
  /\ IF defaultCapabilities = << >> THEN LoadCapabilities(Parsed)
     ELSE UNCHANGED << leAudioCodecCapabilities, isInvalidFileContent, session_codecs,
                       defaultCapabilities >>
  /\ told' = [ query |-> "capabilities", answer |-> defaultCapabilities' ]
  /\ UNCHANGED << file, defaultInfo >>

\* Mutant of LoadInfo: the content stays invalid though it was loaded.
LoadInfo_StaysInvalid(setting) ==
  IF session_codecs # << >>
  THEN UNCHANGED << leAudioCodecCapabilities, isInvalidFileContent, session_codecs >>
  ELSE LET maps == IF setting = NoFile THEN NothingLoaded ELSE LoadConfigurationToMap(setting)
       IN  /\ session_codecs' = IF Usable(maps) THEN InfoMap(maps) ELSE << >>
           /\ isInvalidFileContent' = TRUE
           /\ leAudioCodecCapabilities' = IF setting = NoFile THEN leAudioCodecCapabilities ELSE << >>

\* BluetoothLeAudioCodecsProvider::GetLeAudioCodecInfo
LoadInfo(setting) ==
  IF session_codecs # << >>
  THEN UNCHANGED << leAudioCodecCapabilities, isInvalidFileContent, session_codecs >>
  ELSE LET maps == IF setting = NoFile THEN NothingLoaded ELSE LoadConfigurationToMap(setting)
       IN  /\ session_codecs' = IF Usable(maps) THEN InfoMap(maps) ELSE << >>
           /\ isInvalidFileContent' = ~Usable(maps)
           /\ leAudioCodecCapabilities' = IF setting = NoFile THEN leAudioCodecCapabilities ELSE << >>

\* GetLeAudioOffloadCodecInfo of one session type.  The map it loads goes into a local variable
\* that hides kDefaultOffloadLeAudioCodecInfoMap, so the map that is searched stays empty.
Info(type) == IF defaultInfo = << >> THEN {} ELSE defaultInfo[type]

GetLeAudioOffloadCodecInfo(type) ==
  /\ IF defaultInfo = << >> THEN LoadInfo(Parsed)
     ELSE UNCHANGED << leAudioCodecCapabilities, isInvalidFileContent, session_codecs >>
  /\ told' = [ query |-> type, answer |-> Info(type) ]
  /\ UNCHANGED << file, defaultCapabilities, defaultInfo >>

CodecsNext ==
  \/ GetLeAudioOffloadCodecCapabilities
  \/ \E type \in LeOffloadTypes : GetLeAudioOffloadCodecInfo(type)

CodecsSpec == CodecsInit /\ [][CodecsNext]_codecsVars

-----------------------------------------------------------------------------
(* Properties.                                                             *)

\* What the file supports does not depend on which queries came before: the capabilities told are
\* those of the file, whatever the codec information queries left in the shared flags and maps.
CapabilitiesAreTheFiles ==
  told.query = "capabilities" =>
    told.answer = IF file # NoFile /\ Usable(Loaded(file)) THEN Compose(Loaded(file)) ELSE << >>
==============================================================================
