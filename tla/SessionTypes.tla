----------------------------- MODULE SessionTypes -----------------------------
(***************************************************************************)
(* The session types of the Bluetooth audio HAL, by the kind of session    *)
(* they name, and the kinds of audio configuration a session takes.        *)
(***************************************************************************)

SoftwareTypes ==
  { "A2DP_SOFTWARE_ENCODING_DATAPATH", "A2DP_SOFTWARE_DECODING_DATAPATH",
    "HEARING_AID_SOFTWARE_ENCODING_DATAPATH",
    "HFP_SOFTWARE_ENCODING_DATAPATH", "HFP_SOFTWARE_DECODING_DATAPATH",
    "LE_AUDIO_SOFTWARE_ENCODING_DATAPATH", "LE_AUDIO_SOFTWARE_DECODING_DATAPATH",
    "LE_AUDIO_BROADCAST_SOFTWARE_ENCODING_DATAPATH" }

A2dpOffloadTypes ==
  { "A2DP_HARDWARE_OFFLOAD_ENCODING_DATAPATH", "A2DP_HARDWARE_OFFLOAD_DECODING_DATAPATH" }

LeUnicastOffloadTypes ==
  { "LE_AUDIO_HARDWARE_OFFLOAD_ENCODING_DATAPATH", "LE_AUDIO_HARDWARE_OFFLOAD_DECODING_DATAPATH" }

LeBroadcastOffloadType == "LE_AUDIO_BROADCAST_HARDWARE_OFFLOAD_ENCODING_DATAPATH"
HfpOffloadType == "HFP_HARDWARE_OFFLOAD_DATAPATH"

OffloadTypes == A2dpOffloadTypes \cup LeUnicastOffloadTypes
                  \cup { LeBroadcastOffloadType, HfpOffloadType }

\* The tags of the AudioConfiguration union.
ConfigTags == { "pcmConfig", "a2dp", "a2dpConfig", "hfpConfig",
                "leAudioConfig", "leAudioBroadcastConfig" }

\* Mutant of TagsOf: an A2DP offload session takes only the older configuration.
TagsOf_OldA2dp(type) ==
  CASE type \in SoftwareTypes          -> { "pcmConfig" }
    [] type \in A2dpOffloadTypes       -> { "a2dpConfig" }
    [] type \in LeUnicastOffloadTypes  -> { "leAudioConfig" }
    [] type = LeBroadcastOffloadType   -> { "leAudioBroadcastConfig" }
    [] type = HfpOffloadType           -> { "hfpConfig" }

\* UpdateAudioConfig: the tags the session of a type accepts.
TagsOf(type) ==
  CASE type \in SoftwareTypes          -> { "pcmConfig" }
    [] type \in A2dpOffloadTypes       -> { "a2dp", "a2dpConfig" }
    [] type \in LeUnicastOffloadTypes  -> { "leAudioConfig" }
    [] type = LeBroadcastOffloadType   -> { "leAudioBroadcastConfig" }
    [] type = HfpOffloadType           -> { "hfpConfig" }
==============================================================================
