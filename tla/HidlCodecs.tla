------------------------------ MODULE HidlCodecs ------------------------------
(***************************************************************************)
(* The codec tables of the HIDL session library (versions 2.0 and 2.1) and *)
(* its validity checks.  A field of a HIDL configuration is a bit mask: a  *)
(* set of flags here, the empty set for the UNKNOWN of its enumeration.    *)
(***************************************************************************)
EXTENDS Integers

Types_2_0 == { "A2DP_SOFTWARE_ENCODING_DATAPATH", "A2DP_HARDWARE_OFFLOAD_DATAPATH",
               "HEARING_AID_SOFTWARE_ENCODING_DATAPATH" }
LeOffloadTypes_2_1 == { "LE_AUDIO_HARDWARE_OFFLOAD_ENCODING_DATAPATH",
                        "LE_AUDIO_HARDWARE_OFFLOAD_DECODING_DATAPATH" }
Types_2_1 == Types_2_0 \cup LeOffloadTypes_2_1 \cup
             { "LE_AUDIO_SOFTWARE_ENCODING_DATAPATH", "LE_AUDIO_SOFTWARE_DECODED_DATAPATH" }

is_2_0_session_type(type) == type \in Types_2_0

\* The bit fields the checks look into.
Rates_0xff == { 44100, 48000, 88200, 96000, 176400, 192000, 16000, 24000 }
Bits_0x07  == { 16, 24, 32 }
Modes_0x03 == { "MONO", "STEREO" }

IsSingleBit(bitmasks, bitfield) == \E flag \in bitfield : bitmasks \cap bitfield = { flag }

SoftwarePcmCapabilities ==
  [ rate |-> Rates_0xff \ { 176400, 192000 }, mode |-> Modes_0x03, bits |-> Bits_0x07 ]

\* A field of a codec: the bits looked at, and those of them that are supported.
Field(bitfield, supported) == [ bitfield |-> bitfield, supported |-> supported ]

OffloadSbcCapability ==
  [ rate     |-> Field(Rates_0xff, { 44100 }),
    mode     |-> Field({ "JOINT_STEREO", "STEREO", "DUAL", "MONO" }, { "MONO", "JOINT_STEREO" }),
    blocks   |-> Field({ 4, 8, 12, 16 }, { 4, 8, 12, 16 }),
    subbands |-> Field({ 4, 8 }, { 8 }),
    alloc    |-> Field({ "ALLOC_MD_S", "ALLOC_MD_L" }, { "ALLOC_MD_L" }),
    bits     |-> Field(Bits_0x07, { 16 }) ]
SbcMinBitpool == 2
SbcMaxBitpool == 53

OffloadAacCapability ==
  [ object |-> Field({ "MPEG2_LC", "MPEG4_LC", "MPEG4_LTP", "MPEG4_SCALABLE" }, { "MPEG2_LC" }),
    rate   |-> Field(Rates_0xff, { 44100 }),
    mode   |-> Field(Modes_0x03, { "STEREO" }),
    bits   |-> Field(Bits_0x07, { 16 }) ]

OffloadLdacCapability ==
  [ rate |-> Field(Rates_0xff, { 44100, 48000, 88200, 96000 }),
    mode |-> Field({ "STEREO", "DUAL", "MONO" }, { "DUAL", "STEREO" }),
    bits |-> Field(Bits_0x07, Bits_0x07) ]

OffloadAptxCapability ==
  [ rate |-> Field(Rates_0xff, { 44100, 48000 }), mode |-> Field(Modes_0x03, { "STEREO" }),
    bits |-> Field(Bits_0x07, { 16 }) ]
OffloadAptxHdCapability == [ OffloadAptxCapability EXCEPT !.bits = Field(Bits_0x07, { 24 }) ]

\* Every field names exactly one bit, and a supported one.
Supports(capability, parameters) ==
  \A f \in DOMAIN capability :
    /\ IsSingleBit(parameters[f], capability[f].bitfield)
    /\ parameters[f] \cap capability[f].supported # {}

IsOffloadSbcConfigurationValid(config) ==
  /\ config.specific = "sbcConfig"
  /\ Supports(OffloadSbcCapability, config.fields)
  /\ config.fields.minBitpool <= config.fields.maxBitpool
  /\ SbcMinBitpool <= config.fields.minBitpool /\ config.fields.maxBitpool <= SbcMaxBitpool

\* Variable bit rate is supported: either value of variableBitRateEnabled will do.
IsOffloadAacConfigurationValid(config) ==
  config.specific = "aacConfig" /\ Supports(OffloadAacCapability, config.fields)

IsOffloadLdacConfigurationValid(config) ==
  /\ config.specific = "ldacConfig"
  /\ Supports(OffloadLdacCapability, config.fields)
  /\ config.fields.quality \in { "QUALITY_HIGH", "QUALITY_MID", "QUALITY_LOW", "QUALITY_ABR" }

IsOffloadAptxConfigurationValid(config) ==
  config.specific = "aptxConfig" /\ Supports(OffloadAptxCapability, config.fields)

\* Mutant of IsOffloadAptxHdConfigurationValid: it looks into the table of plain aptX.
IsOffloadAptxHdConfigurationValid_Aptx(config) ==
  config.specific = "aptxConfig" /\ Supports(OffloadAptxCapability, config.fields)

IsOffloadAptxHdConfigurationValid(config) ==
  config.specific = "aptxConfig" /\ Supports(OffloadAptxHdCapability, config.fields)

\* The bit rate of a codec in bits per second, of 24 bits.
IsBitrate(rate) == 0 < rate /\ rate <= 16777215

\* Version 2.1 asks the 2.0 function for the types 2.0 knows, and says no to the others.
IsOffloadCodecConfigurationValid(type, config) ==
  /\ is_2_0_session_type(type) /\ type = "A2DP_HARDWARE_OFFLOAD_DATAPATH"
  /\ IsBitrate(config.bitrate)
  /\ CASE config.codec = "SBC"     -> IsOffloadSbcConfigurationValid(config)
       [] config.codec = "AAC"     -> IsOffloadAacConfigurationValid(config)
       [] config.codec = "LDAC"    -> IsOffloadLdacConfigurationValid(config)
       [] config.codec = "APTX"    -> IsOffloadAptxConfigurationValid(config)
       [] config.codec = "APTX_HD" -> IsOffloadAptxHdConfigurationValid(config)
       [] OTHER                    -> FALSE

IsSoftwarePcmConfigurationValid_2_1(pcm) ==
  /\ \A f \in DOMAIN SoftwarePcmCapabilities :
       \E flag \in SoftwarePcmCapabilities[f] : pcm[f] = { flag }
  /\ pcm.interval # 0
===============================================================================
