---------------------------- MODULE MCNegotiation ----------------------------
(***************************************************************************)
(* Model checking what a stack can ask of a provider before audio flows:   *)
(* A2DP offload negotiation, LE audio offload settings, and startSession   *)
(* of the providers of every type; and the HIDL session that stands where  *)
(* there is no AIDL service.  The four share no state, so a                *)
(* behaviour is one of the four; the variables of the others stay put.     *)
(***************************************************************************)
EXTENDS A2dpOffload, LeAudioOffload, LegacyView, HidlSession

(* A2DP offload. *)
Sbc(sf, cm, r, p, seid) == [ id |-> "SBC", seid |-> seid, sized |-> TRUE, bits |-> [sf |-> sf, cm |-> cm, bl |-> r[1], sb |-> r[2], am |-> r[3]],
               lo |-> p[1], hi |-> p[2], vbr |-> FALSE, rate |-> 0]
Aac(sized, ot, sf, ch, vbr) == [ id |-> "AAC", seid |-> 2, sized |-> sized, bits |-> [ot |-> ot, sf |-> sf, ch |-> ch],
               lo |-> 0, hi |-> 0, vbr |-> vbr, rate |-> 320000]
AllModes == {"MONO","DUAL","STEREO","JOINT"}
AllRest == << {4, 8, 12, 16}, {4, 8}, {"SNR", "LOUDNESS"} >>
SbcCaps == { Sbc(sf, cm, AllRest, <<2, 53>>, 1) : 
   sf \in {{}, {16000, 44100}, {48000}, {44100, 48000}}, cm \in {{"JOINT"}, {"MONO", "DUAL"}, {"STEREO"}, AllModes} }
  \cup { Sbc({44100}, AllModes, r, p, 1) : 
   r \in { << {16}, {8}, {"LOUDNESS"} >>, << {4, 8}, {4}, {"SNR"} >>, << {12}, {}, {"SNR"} >> },
   p \in { <<2, 53>>, <<0, 255>>, <<60, 250>> } }
AacCaps == { Aac(sz, ot, sf, {"2"}, v) : sz \in BOOLEAN, ot \in {{"MPEG2_LC"}, {"MPEG4_LC", "MPEG4_LTP"}}, sf \in {{48000}, {8000}}, v \in BOOLEAN }
  \cup { Aac(TRUE, {"MPEG2_LC"}, {96000, 44100}, {"1", "51"}, TRUE) }
MCRemoteLists == { <<s>> : s \in SbcCaps } \cup { <<a>> : a \in AacCaps } \cup 
   { <<Sbc({48000}, cm, AllRest, <<2, 53>>, 3), Aac(TRUE, {"MPEG2_LC"}, sf, {"2"}, TRUE)>> : cm \in {{}, AllModes}, sf \in {{8000}, {48000}} }
MCHints == { [ codec |-> c, given |-> FALSE, rate |-> 0, mode |-> "UNKNOWN", min |-> 0, max |-> 0 ] : c \in {"SBC","AAC","LDAC"}}
   \cup { [ codec |-> c, given |-> TRUE, rate |-> r, mode |-> mo, min |-> b[1], max |-> b[2] ] : c \in {"SBC","AAC","LDAC"}, r \in {48000, 22050}, mo \in {"STEREO", "DUALMONO", "UNKNOWN"},
    b \in { <<0,0>>, <<0, 328000>>, <<200000, 100000>>, <<64000, 64001>> } }

(* LE audio offload. *)

GoodFile == [ scenarios |-> << [ encode |-> "cfgA", decode |-> "cfgB", broadcast |-> "cfgB" ],
                               [ encode |-> "cfgX", decode |-> "cfgX", broadcast |-> Missing ],
                               [ encode |-> Missing, decode |-> "cfgA", broadcast |-> "cfgA" ] >>,
              configurations |-> << [ name |-> "cfgA", codec |-> "lc3", strategy |-> "stereo" ],
                                    [ name |-> "cfgB", codec |-> "lc3", strategy |-> "mono" ],
                                    [ name |-> "cfgA", codec |-> "aptx", strategy |-> Missing ] >>,
              codecs |-> << [ name |-> "lc3", codec |-> "LC3", freq |-> 48000, duration |-> 10000, octets |-> 100 ],
                            [ name |-> "aptx", codec |-> "APTX_ADAPTIVE_LE", freq |-> Missing, duration |-> 10000, octets |-> 100 ] >>,
              strategies |-> << [ name |-> "stereo", location |-> "STEREO", devices |-> 2, channels |-> 1 ],
                                [ name |-> "mono", location |-> "MONO", devices |-> 1, channels |-> 1 ] >> ]
HalfFile == [ GoodFile EXCEPT !.strategies = << >> ]
MCFiles == { NoFile, GoodFile, HalfFile }

Sub(codec, direction, freq, duration, octets) ==
  [ codec |-> codec, direction |-> direction, freq |-> freq, duration |-> duration, octets |-> octets,
    alloc |-> Missing, blocks |-> 1 ]
MCContent ==
  [ qos |-> << [ name |-> "QoS_Config_Balanced_Reliability", latency |-> "BALANCED", retransmissions |-> 13, maxLatency |-> 95 ],
               [ name |-> "Low", latency |-> "LOW", retransmissions |-> 2, maxLatency |-> 10 ] >>,
    codecs |-> << [ name |-> "one", subs |-> << Sub("LC3", 1, 48000, 10000, 100), Sub("LC3", 2, 16000, Missing, 40) >> ],
                  [ name |-> "two", subs |-> << Sub("VENDOR", 1, 44100, 7500, Missing), Sub("VENDOR", 2, 16000, 5000, 30) >> ],
                  [ name |-> "empty", subs |-> << >> ] >>,
    configurations |-> << [ name |-> "A", codec |-> "one", qos |-> << "Low" >> ],
                          [ name |-> "B", codec |-> "two", qos |-> << >> ],
                          [ name |-> "C", codec |-> "empty", qos |-> << "Low", "QoS_Config_Balanced_Reliability" >> ] ,
                          [ name |-> "A", codec |-> "none", qos |-> << >> ] >>,
    scenarios |-> << [ name |-> "Media", configurations |-> << "A", "B", "C" >> ],
                     [ name |-> "Game", configurations |-> << "B" >> ] >> ]
Cap(codec, contexts, ltv) == [ codec |-> codec, contexts |-> contexts, ltv |-> ltv ]
MCAseAsks ==
  { [ direction |-> d, capabilities |-> c, requirements |-> r ] :
     d \in { "sink", "source" },
     c \in { { Cap("LC3", NoList, [ freq |-> {48000,16000}, octets |-> << 40, 100 >> ]) },
             { Cap("LC3", << {"MEDIA"} >>, [ blocks |-> 1 ]), Cap("VENDOR", << {"GAME"} >>, [ duration |-> {7500} ]) } ,
             { Cap("VENDOR", NoList, [ freq |-> {44100, 16000} ]) } },
     r \in { { [ context |-> ContextOf("Media"), sink |-> NoList, source |-> NoList ] },
             { [ context |-> ContextOf("Media"), sink |-> << [ codec |-> "LC3", latency |-> "LOW", ltv |-> [ octets |-> 100 ] ] >>,
                                            source |-> << [ codec |-> Missing, latency |-> "LOW", ltv |-> [ duration |-> 7500 ] ] >> ],
               [ context |-> ContextOf("Game"), sink |-> << [ codec |-> "VENDOR", latency |-> "BALANCED", ltv |-> << >> ] >>, source |-> NoList ] } } }
MCBroadcastCaps == { Cap("LC3", NoList, [ freq |-> {48000} ]), Cap("LC3", NoList, [ freq |-> {16000} ]) }

(* Providers. *)
Pcm(r, b, m, i) == [ tag |-> "pcmConfig", fields |-> [ rate |-> r, bits |-> b, mode |-> m, interval |-> i ] ]
Codec(c, specific, fields) == [ tag |-> "a2dpConfig", codec |-> c, specific |-> specific, fields |-> fields ]
SbcFieldsOf(rate, lo, hi) == [ rate |-> rate, mode |-> "MONO", blocks |-> 16, subbands |-> 8, alloc |-> "ALLOC_MD_L", bits |-> 16,
                      minBitpool |-> lo, maxBitpool |-> hi ]
Aptx(b) == [ rate |-> 48000, mode |-> "STEREO", bits |-> b ]
MCAudioConfigs ==
  { Pcm(48000, 16, "STEREO", 10000), Pcm(48000, 24, "MONO", 7500), Pcm(44100, 32, "STEREO", 10000),
    Pcm(16000, 16, "MONO", 7500), Pcm(8000, 16, "MONO", 7500), Pcm(16000, 16, "MONO", 0), Pcm(11025, 16, "MONO", 10000),
    Pcm(48000, 16, "UNKNOWN", 10000) }
  \cup { Codec("SBC", "sbcConfig", SbcFieldsOf(44100, 2, 53)), Codec("SBC", "sbcConfig", SbcFieldsOf(44100, 40, 20)),
         Codec("SBC", "aacConfig", << >>),
         Codec("AAC", "aacConfig", [ object |-> "MPEG2_LC", rate |-> 44100, mode |-> "STEREO", vbr |-> TRUE, bits |-> 16 ]),
         Codec("LDAC", "ldacConfig", [ rate |-> 96000, mode |-> "DUAL", quality |-> "HIGH", bits |-> 24 ]),
         Codec("APTX", "aptxConfig", Aptx(16)), Codec("APTX_HD", "aptxConfig", Aptx(24)), Codec("APTX_HD", "aptxConfig", Aptx(16)),
         Codec("OPUS", "opusConfig", [ rate |-> 48000, duration |-> 20000, mode |-> "MONO" ]),
         Codec("LC3", "lc3Config", << >>) }
  \cup { [ tag |-> "a2dp", codec |-> c, parsed |-> p ] : c \in { "SBC", "LDAC" }, p \in { "OK", "NOT_SUPPORTED" } }
  \cup { [ tag |-> t ] : t \in { "hfpConfig", "leAudioConfig", "leAudioBroadcastConfig" } }
  \cup { [ tag |-> "leAudioConfig", variant |-> 2 ] }

(* HIDL session: a type of each kind, and one 2.1 does not support. *)
MCHidlTypes == { "A2DP_SOFTWARE_ENCODING_DATAPATH", "A2DP_HARDWARE_OFFLOAD_DATAPATH",
                 "LE_AUDIO_SOFTWARE_ENCODING_DATAPATH", "LE_AUDIO_HARDWARE_OFFLOAD_ENCODING_DATAPATH" }

-----------------------------------------------------------------------------
VARIABLE part   \* which of the four

vars == << part, a2dpVars, leVars, providersVars, hidlVars >>

Quiet(p) ==
  /\ p # "a2dp" => A2dpInit /\ extensible = FALSE
  /\ p # "le" => LeInit /\ file = NoFile
  /\ p # "providers" => ProvidersInit /\ type = HfpOffloadType
  /\ p # "hidl" => HidlInit /\ legacy.type = "A2DP_SOFTWARE_ENCODING_DATAPATH"

Start(p) ==
  /\ part = p
  /\ CASE p = "a2dp" -> A2dpInit [] p = "le" -> LeInit [] p = "providers" -> ProvidersInit
       [] p = "hidl" -> HidlInit
  /\ Quiet(p)

NegotiationNext ==
  /\ UNCHANGED part
  /\ \/ part = "a2dp" /\ A2dpNext /\ UNCHANGED << leVars, providersVars, hidlVars >>
     \/ part = "le" /\ LeNext /\ UNCHANGED << a2dpVars, providersVars, hidlVars >>
     \/ part = "providers" /\ ProvidersNext /\ UNCHANGED << a2dpVars, leVars, hidlVars >>
     \/ part = "hidl" /\ HidlNext /\ UNCHANGED << a2dpVars, leVars, providersVars >>

NegotiationSpec ==
  (\E p \in { "a2dp", "le", "providers", "hidl" } : Start(p)) /\ [][NegotiationNext]_vars
LeOnlySpec == Start("le") /\ [][NegotiationNext]_vars
==============================================================================
