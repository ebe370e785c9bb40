------------------------------ MODULE LegacyView ------------------------------
(***************************************************************************)
(* What a HIDL client is shown of an AIDL session.  Where the AIDL service *)
(* is declared the HIDL session library asks the AIDL session through      *)
(* HidlToAidlMiddleware, which converts configurations and statuses.  The  *)
(* session is AudioProviders'; a client is a port of device_port_proxy or  *)
(* of device_port_proxy_hidl, which turns the configuration into the       *)
(* format it tells the framework.                                          *)
(***************************************************************************)
EXTENDS AudioProviders

Hidl == INSTANCE HidlCodecs

\* session_type_2_1_to_aidl_map: two types have other names in AIDL.
from_session_type_2_1(type21) ==
  CASE type21 = "A2DP_HARDWARE_OFFLOAD_DATAPATH"     -> "A2DP_HARDWARE_OFFLOAD_ENCODING_DATAPATH"
    [] type21 = "LE_AUDIO_SOFTWARE_DECODED_DATAPATH" -> "LE_AUDIO_SOFTWARE_DECODING_DATAPATH"
    [] OTHER                                         -> type21

-----------------------------------------------------------------------------
(* The conversions: a value without entry in a table becomes UNKNOWN, no   *)
(* flag at all.                                                            *)

Flag(entries, value) == IF value \in entries THEN { value } ELSE {}

\* Mutant of to_hidl_sample_rate: the rates of version 2.0 only.
to_hidl_sample_rate_2_0Only(hz) == Flag(Hidl!Rates_0xff, hz)

to_hidl_sample_rate(hz) == Flag(Hidl!Rates_0xff \cup { 8000, 32000 }, hz)

to_hidl_bits_per_sample(bits) == Flag({ 16, 24, 32 }, bits)
to_hidl_channel_mode(mode)    == Flag({ "MONO", "STEREO" }, mode)

to_hidl_codec_type_2_0(codec) ==
  IF codec \in { "SBC", "AAC", "APTX", "APTX_HD", "LDAC" } THEN codec ELSE "UNKNOWN"

to_hidl_sbc_config(sbc) ==
  [ rate |-> to_hidl_sample_rate(sbc.rate), bits |-> to_hidl_bits_per_sample(sbc.bits),
    mode |-> Flag({ "JOINT_STEREO", "STEREO", "DUAL", "MONO" }, sbc.mode),
    blocks |-> Flag({ 4, 8, 12, 16 }, sbc.blocks), subbands |-> Flag({ 4, 8 }, sbc.subbands),
    alloc |-> Flag({ "ALLOC_MD_S", "ALLOC_MD_L" }, sbc.alloc),
    minBitpool |-> sbc.minBitpool, maxBitpool |-> sbc.maxBitpool ]

to_hidl_aac_config(aac) ==
  [ rate |-> to_hidl_sample_rate(aac.rate), bits |-> to_hidl_bits_per_sample(aac.bits),
    mode |-> to_hidl_channel_mode(aac.mode),
    object |-> Flag({ "MPEG2_LC", "MPEG4_LC", "MPEG4_LTP", "MPEG4_SCALABLE" }, aac.object),
    vbr |-> IF aac.vbr THEN "ENABLED" ELSE "DISABLED" ]

ldac_qindex_to_hidl_map ==
  [ HIGH |-> "QUALITY_HIGH", MID |-> "QUALITY_MID", LOW |-> "QUALITY_LOW", ABR |-> "QUALITY_ABR" ]

to_hidl_ldac_config(ldac) ==
  [ rate |-> to_hidl_sample_rate(ldac.rate), bits |-> to_hidl_bits_per_sample(ldac.bits),
    mode |-> Flag({ "STEREO", "DUAL", "MONO" }, ldac.mode),
    quality |-> ldac_qindex_to_hidl_map[ldac.quality] ]

to_hidl_aptx_config(aptx) ==
  [ rate |-> to_hidl_sample_rate(aptx.rate), bits |-> to_hidl_bits_per_sample(aptx.bits),
    mode |-> to_hidl_channel_mode(aptx.mode) ]

\* The specific part of a codec version 2.0 does not have stays what it was: nothing.
to_hidl_codec_config_2_0(config, bitrate) ==
  [ tag |-> "codecConfig", codec |-> to_hidl_codec_type_2_0(config.codec), bitrate |-> bitrate,
    specific |-> config.specific,
    fields |-> CASE config.specific = "sbcConfig"  -> to_hidl_sbc_config(config.fields)
                 [] config.specific = "aacConfig"  -> to_hidl_aac_config(config.fields)
                 [] config.specific = "ldacConfig" -> to_hidl_ldac_config(config.fields)
                 [] config.specific = "aptxConfig" -> to_hidl_aptx_config(config.fields)
                 [] OTHER                          -> << >> ]

to_hidl_pcm_config_2_1(pcm) ==
  [ rate |-> to_hidl_sample_rate(pcm.rate), mode |-> to_hidl_channel_mode(pcm.mode),
    bits |-> to_hidl_bits_per_sample(pcm.bits), interval |-> pcm.interval ]

\* HidlToAidlMiddleware_2_1::GetAudioConfig.  A unicast configuration of LC3, the one codec the
\* function can convert, and the configuration of HFP meet LOG(FATAL): they have no value here.
to_hidl_audio_config_2_1(config, bitrate) ==
  CASE config.tag = "pcmConfig"  -> [ tag |-> "pcmConfig", pcm |-> to_hidl_pcm_config_2_1(config.fields) ]
    [] config.tag = "a2dpConfig" -> to_hidl_codec_config_2_0(config, bitrate)
    [] config.tag = "a2dp"       -> [ tag |-> "pcmConfig", pcm |-> [ rate |-> {}, mode |-> {}, bits |-> {}, interval |-> 0 ] ]
    [] config.tag = "leAudioBroadcastConfig" -> [ tag |-> "leAudioCodecConfig" ]

-----------------------------------------------------------------------------
(* LoadAudioConfig of the two kinds of ports: what the stream tells the    *)
(* framework, or nothing.                                                  *)

Told(rate, mode, format) == [ rate |-> rate, mode |-> mode, format |-> format ]
ToldNothing == Told(0, "NONE", "NONE")

\* Classic sessions used packed, and LE Audio LC3 encoder uses unpacked as input.
BitsPerSampleToAudioFormat(bits, t) ==
  CASE bits = 16 -> "PCM_16_BIT"
    [] bits = 24 -> IF t \in { "A2DP_HARDWARE_OFFLOAD_ENCODING_DATAPATH", "A2DP_SOFTWARE_ENCODING_DATAPATH" }
                    THEN "PCM_24_BIT_PACKED" ELSE "PCM_8_24_BIT"
    [] bits = 32 -> "PCM_32_BIT"

AidlLoadAudioConfig(t, config) ==
  IF config.tag # "pcmConfig" \/ config.fields.mode = "UNKNOWN" THEN ToldNothing
  ELSE Told(config.fields.rate, config.fields.mode, BitsPerSampleToAudioFormat(config.fields.bits, t))

HidlFormat(bits) ==
  CASE bits = {16} -> "PCM_16_BIT" [] bits = {24} -> "PCM_24_BIT_PACKED" [] bits = {32} -> "PCM_32_BIT"

The(flags) == CHOOSE flag \in flags : TRUE

HidlLoadAudioConfig(config21) ==
  IF \/ config21.tag # "pcmConfig"
     \/ \E f \in { "rate", "mode", "bits" } : config21.pcm[f] = {}
  THEN ToldNothing
  ELSE Told(The(config21.pcm.rate), The(config21.pcm.mode), HidlFormat(config21.pcm.bits))

-----------------------------------------------------------------------------
(* Properties.                                                             *)

LegacyTypes == { t \in Hidl!Types_2_1 : from_session_type_2_1(t) = type }

\* The sessions device_port_proxy opens streams over.
StreamTypes == { "A2DP_SOFTWARE_ENCODING_DATAPATH", "HEARING_AID_SOFTWARE_ENCODING_DATAPATH",
                 "LE_AUDIO_SOFTWARE_ENCODING_DATAPATH", "LE_AUDIO_SOFTWARE_DECODING_DATAPATH",
                 "LE_AUDIO_BROADCAST_SOFTWARE_ENCODING_DATAPATH" }

\* A stream over a ready session plays what the session was started with, whichever library its
\* port goes through: the HIDL port, behind the middleware's conversions, tells the framework the
\* rate, the channels and the data interval the AIDL port tells.  Samples of 24 bits are the one
\* place they part: only the AIDL port knows that LE sessions take them unpacked.
LegacyPortAgrees ==
  SessionReady /\ type \in StreamTypes /\ LegacyTypes # {} =>
    LET fields == session.audio_config.fields
        aidl   == AidlLoadAudioConfig(type, session.audio_config)
        hidl   == to_hidl_audio_config_2_1(session.audio_config, 0)
        legacy == HidlLoadAudioConfig(hidl)
    IN  /\ legacy = [ aidl EXCEPT !.format = IF fields.bits = 24 THEN "PCM_24_BIT_PACKED" ELSE @ ]
        /\ hidl.pcm.interval = fields.interval

\* The least and the greatest bit rate the legacy library takes.
ExtremeBitrates == { 1, 16777215 }

\* What a legacy client reads of a session the AIDL provider accepted passes the checks of the
\* legacy library: the tables of the two libraries and the conversion between them agree.  The
\* differences are named: Opus, two rates and a zero data interval are AIDL's alone.
LegacyConfigIsValid ==
  SessionReady =>
    \A t \in LegacyTypes, bitrate \in ExtremeBitrates :
      LET config == session.audio_config
          hidl   == to_hidl_audio_config_2_1(config, bitrate)
      IN  /\ config.tag = "a2dpConfig" =>
               (Hidl!IsOffloadCodecConfigurationValid(t, hidl) <=> config.codec # "OPUS")
          /\ config.tag = "pcmConfig" =>
               (Hidl!IsSoftwarePcmConfigurationValid_2_1(hidl.pcm)
                  <=> config.fields.rate \notin { 8000, 32000 } /\ config.fields.interval # 0)
===============================================================================
