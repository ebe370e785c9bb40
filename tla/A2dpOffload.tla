----------------------------- MODULE A2dpOffload -----------------------------
(***************************************************************************)
(* The A2DP offload provider: the SBC and AAC codecs parse and build the   *)
(* codec configurations of A2DP signalling, the codec factory negotiates   *)
(* one from the capabilities of a headset and a hint, and startSession     *)
(* takes a configuration back.                                             *)
(*                                                                         *)
(* A configuration is a few bit fields, each kept here as the set of the   *)
(* bits that are on, under the name of what the bit means; A2dpBits, the   *)
(* positions of the bits and their order on the air are left out.  The     *)
(* fields of a number (bitpools, bit rate) are that number.                *)
(***************************************************************************)
EXTENDS Integers, Sequences, FiniteSets

CONSTANTS
  RemoteLists,   \* the lists of capabilities a headset may offer
  Hints,         \* the hints the stack may give
  NoBit          \* find_active_bit and the conversions: -1

Codecs == << "AAC", "SBC" >>
CodecSet == { "AAC", "SBC" }

-----------------------------------------------------------------------------
(* The tables of the two codecs.                                           *)

SbcFields == << "sf", "cm", "bl", "sb", "am" >>
AacFields == << "ot", "sf", "ch" >>
FieldsOf(c) == IF c = "SBC" THEN { "sf", "cm", "bl", "sb", "am" } ELSE { "ot", "sf", "ch" }

\* The bits each field has on the air.
SbcWire == [ sf |-> {16000, 32000, 44100, 48000},
             cm |-> {"MONO", "DUAL", "STEREO", "JOINT"},
             bl |-> {4, 8, 12, 16}, sb |-> {4, 8}, am |-> {"SNR", "LOUDNESS"} ]
AacWire == [ ot |-> {"MPEG2_LC", "MPEG4_LC", "MPEG4_LTP", "MPEG4_SCALABLE",
                     "MPEG4_HE_V1", "MPEG4_HE_V2", "MPEG4_ELD_V2"},
             sf |-> {8000, 11025, 12000, 16000, 22050, 24000,
                     32000, 44100, 48000, 64000, 88200, 96000},
             ch |-> {"1", "2", "51", "71"} ]

\* A headset offers bits the air knows and bitpools of a byte, of codecs the factory knows.
ASSUME RemoteListsAreOnTheAir ==
  \A list \in RemoteLists : Len(list) \in Nat /\ \A i \in 1 .. Len(list) :
    /\ list[i].id \in CodecSet
    /\ list[i].lo \in 0 .. 255 /\ list[i].hi \in 0 .. 255
    /\ \A f \in FieldsOf(list[i].id) :
         list[i].bits[f] \subseteq (IF list[i].id = "SBC" THEN SbcWire ELSE AacWire)[f]

\* What the local codec supports.
SbcLocal == [ sf |-> {44100, 48000}, cm |-> {"MONO", "DUAL", "STEREO", "JOINT"},
              bl |-> {4, 8, 12, 16}, sb |-> {4, 8}, am |-> {"SNR", "LOUDNESS"} ]
AacLocal == [ ot |-> {"MPEG2_LC", "MPEG4_LC"}, sf |-> {44100, 48000}, ch |-> {"1", "2"} ]
Local(c) == IF c = "SBC" THEN SbcLocal ELSE AacLocal

\* -1 is the place of no bit.
ASSUME NoBitIsNone == \A c \in CodecSet : \A f \in FieldsOf(c) : NoBit \notin Local(c)[f]

\* The bit rates of a hint are numbers of the AIDL type int.
ASSUME HintsAreNumbers ==
  \A hint \in Hints : hint.given => hint.min \in Int /\ hint.max \in Int

LocalMinBitpool == 2
LocalMaxBitpool == 250
LocalVbr == TRUE
LocalBitrate == 0    \* the AAC capabilities leave the bit rate at 0

\* The order in which BuildConfiguration tries the bits of a field.
SbcOrder == [ sf |-> << 44100, 48000 >>, cm |-> << "JOINT", "STEREO", "DUAL", "MONO" >>,
              bl |-> << 16, 12, 8, 4 >>, sb |-> << 8, 4 >>, am |-> << "LOUDNESS", "SNR" >> ]
AacOrder == [ ot |-> << "MPEG2_LC", "MPEG4_LC" >>,
              sf |-> << 96000, 88200, 48000, 44100 >>, ch |-> << "2", "1" >> ]
OrderOf(c) == IF c = "SBC" THEN SbcOrder ELSE AacOrder

\* The channel mode of a hint as a bit; JOINT is what STEREO's two bits read as when or-ed.
SbcModeBit(mode) ==
  CASE mode = "STEREO" -> "JOINT" [] mode = "DUALMONO" -> "DUAL"
    [] mode = "MONO" -> "MONO"    [] OTHER -> NoBit
AacModeBit(mode) == CASE mode = "MONO" -> "1" [] mode = "STEREO" -> "2" [] OTHER -> NoBit

\* And a bit back as a channel mode.
SbcMode(bit) ==
  CASE bit = "MONO" -> "MONO" [] bit = "DUAL" -> "DUALMONO"
    [] bit \in {"STEREO", "JOINT"} -> "STEREO" [] OTHER -> "UNKNOWN"
AacMode(bit) == CASE bit = "1" -> "MONO" [] bit = "2" -> "STEREO" [] OTHER -> "UNKNOWN"

\* find_active_bit: the bit of a field that is alone on.
ActiveBit(bits) == IF Cardinality(bits) = 1 THEN CHOOSE b \in bits : TRUE ELSE NoBit

-----------------------------------------------------------------------------
(* Bit rates of SBC.                                                       *)

Larger(a, b)  == IF a >= b THEN a ELSE b
Smaller(a, b) == IF a <= b THEN a ELSE b
Clamp(v, lo, hi) == Larger(lo, Smaller(v, hi))

GetFrameSize(bits, bitpool) ==
  LET subbands == ActiveBit(bits["sb"])
      payload  == 4 * subbands * (IF "MONO" \in bits["cm"] THEN 1 ELSE 2)
                  + ActiveBit(bits["bl"]) * bitpool * (IF "DUAL" \in bits["cm"] THEN 2 ELSE 1)
                  + (IF "JOINT" \in bits["cm"] THEN subbands ELSE 0)
  IN  4 + (payload + 7) \div 8

GetBitrate(bits, bitpool) ==
  (8 * GetFrameSize(bits, bitpool) * ActiveBit(bits["sf"]))
    \div (ActiveBit(bits["bl"]) * ActiveBit(bits["sb"]))

\* One bit of the search: it stays when the rate lies above the bit rate it gives.
TryBit(bits, bitrate, pool, bit) ==
  IF bitrate > GetBitrate(bits, pool + bit) THEN pool + bit ELSE pool

\* The bitpool the search ends with: the 8 bits are tried from the highest.
Tried(bits, bitrate) ==
  LET high == TryBit(bits, bitrate, TryBit(bits, bitrate, TryBit(bits, bitrate,
                TryBit(bits, bitrate, 0, 128), 64), 32), 16)
  IN  TryBit(bits, bitrate, TryBit(bits, bitrate, TryBit(bits, bitrate,
        TryBit(bits, bitrate, high, 8), 4), 2), 1)

\* Mutant of GetBitpool: the rate is reached instead of kept below.
GetBitpool_Above(bits, bitrate) == Clamp(Tried(bits, bitrate) + 1, 2, 250)

GetBitpool(bits, bitrate) == Clamp(Tried(bits, bitrate), 2, 250)

-----------------------------------------------------------------------------
(* BuildConfiguration.                                                     *)

\* The bit a hint asks for in a field.
HintedBit(c, f, hint) ==
  CASE ~hint.given          -> NoBit
    [] hint.given /\ f = "sf" -> hint.rate
    [] hint.given /\ f = "cm" -> SbcModeBit(hint.mode)
    [] hint.given /\ f = "ch" -> AacModeBit(hint.mode)
    [] OTHER                -> NoBit

\* The first of a sequence that is in a set.
FirstOf(order, bits) ==
  LET found == { i \in DOMAIN order : order[i] \in bits }
  IN  IF found = {} THEN NoBit ELSE order[CHOOSE i \in found : \A j \in found : i <= j]

Select(c, f, remote, hint) ==
  LET both == Local(c)[f] \cap remote.bits[f]
  IN  IF HintedBit(c, f, hint) \in both THEN HintedBit(c, f, hint)
      ELSE FirstOf(OrderOf(c)[f], both)

\* Mutant of Bitpools: the headset's bitpools are taken as they are.
Bitpools_Unchecked(bits, remote, hint) ==
  [ lo |-> Larger(remote.lo, LocalMinBitpool), hi |-> Larger(remote.hi, LocalMaxBitpool) ]

\* The bitpools: the headset's when they make a range, raised to the local ones, then the hint's.
\* The maximum is raised to the local maximum too, so the headset's never lowers it.
Bitpools(bits, remote, hint) ==
  LET in(p)  == p >= 2 /\ p <= 250
      usable == in(remote.lo) /\ in(remote.hi) /\ remote.lo <= remote.hi
      lo     == Larger(IF usable THEN remote.lo ELSE 2, LocalMinBitpool)
      hi     == Larger(IF usable THEN remote.hi ELSE 250, LocalMaxBitpool)
      capped == hint.given /\ hint.max # 0 /\ hint.max >= hint.min
  IN  [ lo |-> IF hint.given THEN Larger(lo, GetBitpool(bits, hint.min)) ELSE lo,
        hi |-> IF capped THEN Smaller(hi, GetBitpool(bits, hint.max)) ELSE hi ]

\* The bit rate of AAC, written in 23 bits.
AacRate(hint) ==
  LET capped == hint.given /\ hint.max > 0
  IN  (IF capped /\ LocalBitrate # 0 THEN Smaller(hint.max, LocalBitrate)
       ELSE IF capped THEN hint.max ELSE LocalBitrate) % 2 ^ 23

\* BuildConfiguration returns true: the capabilities have their length and each field a bit.
Builds(c, remote, hint) ==
  remote.sized /\ \A f \in FieldsOf(c) : Select(c, f, remote, hint) # NoBit

Build(c, remote, hint) ==
  LET bits == [ f \in FieldsOf(c) |-> { Select(c, f, remote, hint) } ]
      pool == IF c = "SBC" THEN Bitpools(bits, remote, hint) ELSE [ lo |-> 0, hi |-> 0 ]
  IN  [ sized |-> TRUE, bits |-> bits, lo |-> pool.lo, hi |-> pool.hi,
        vbr  |-> c = "AAC" /\ (~hint.given \/ hint.min = 0) /\ LocalVbr /\ remote.vbr,
        rate |-> IF c = "AAC" THEN AacRate(hint) ELSE 0 ]

-----------------------------------------------------------------------------
(* ParseConfiguration: the checks in their order, and the first that fails. *)

FieldChecks(c, fields, unchecked, blob) ==
  [ i \in 1 .. 2 * Len(fields) |->
      LET f == fields[(i + 1) \div 2]
          b == ActiveBit(blob.bits[f])
      IN  IF i % 2 = 1 THEN [ ok |-> b # NoBit, status |-> << "INVALID", f >> ]
          ELSE [ ok |-> f \in unchecked \/ b \in Local(c)[f], status |-> << "NOT_SUPPORTED", f >> ] ]

SbcChecks(blob) ==
  << [ ok |-> blob.sized, status |-> << "BAD_LENGTH" >> ] >>
    \o FieldChecks("SBC", SbcFields, {"bl"}, blob)
    \o << [ ok |-> blob.lo >= 2 /\ blob.lo <= 250, status |-> << "INVALID", "minimum bitpool" >> ],
          [ ok |-> blob.lo >= LocalMinBitpool, status |-> << "NOT_SUPPORTED", "minimum bitpool" >> ],
          [ ok |-> blob.hi >= 2 /\ blob.hi <= 250, status |-> << "INVALID", "maximum bitpool" >> ],
          [ ok |-> blob.hi <= LocalMaxBitpool, status |-> << "NOT_SUPPORTED", "maximum bitpool" >> ] >>

AacChecks(blob) ==
  << [ ok |-> blob.sized, status |-> << "BAD_LENGTH" >> ] >>
    \o FieldChecks("AAC", AacFields, {}, blob)
    \o << [ ok |-> blob.vbr => LocalVbr, status |-> << "NOT_SUPPORTED", "vbr" >> ],
          [ ok |-> blob.vbr /\ LocalBitrate # 0 => blob.rate <= LocalBitrate,
            status |-> << "NOT_SUPPORTED", "bit rate" >> ] >>

OK == << "OK" >>

ParseStatus(c, blob) ==
  LET checks == IF c = "SBC" THEN SbcChecks(blob) ELSE AacChecks(blob)
      failed == { i \in DOMAIN checks : ~checks[i].ok }
  IN  IF failed = {} THEN OK ELSE checks[CHOOSE i \in failed : \A j \in failed : i <= j].status

\* The parameters ParseConfiguration fills in.
Parameters(c, blob) ==
  IF c = "SBC"
  THEN [ mode |-> SbcMode(ActiveBit(blob.bits["cm"])), rate |-> ActiveBit(blob.bits["sf"]), depth |-> 16,
         min |-> GetBitrate(blob.bits, blob.lo), max |-> GetBitrate(blob.bits, blob.hi) ]
  ELSE [ mode |-> AacMode(ActiveBit(blob.bits["ch"])), rate |-> ActiveBit(blob.bits["sf"]), depth |-> 24,
         min |-> IF blob.vbr THEN 0 ELSE blob.rate, max |-> blob.rate ]

-----------------------------------------------------------------------------
(* The codec factory.                                                      *)

\* The codecs in the order they are tried: the hinted one first.  With no codec hinted the code
\* compares the codecs with the pointer read behind the end of the list, which may be any (skipped).
Without(c) == CASE c = "AAC" -> << "SBC" >> [] c = "SBC" -> << "AAC" >> [] OTHER -> Codecs
Tries(hinted, skipped) ==
  IF hinted \in CodecSet THEN << hinted >> \o Without(hinted) ELSE Without(skipped)

\* The first capabilities of the headset for codec c are the ones looked at.
Offers(remotes, c) == { i \in 1 .. Len(remotes) : remotes[i].id = c }
RemoteOf(remotes, c) == remotes[CHOOSE i \in Offers(remotes, c) : \A j \in Offers(remotes, c) : i <= j]

Works(remotes, c, hint) ==
  Offers(remotes, c) # {} /\ Builds(c, RemoteOf(remotes, c), hint)

\* getA2dpConfiguration has not been asked, or answered nullopt.
NoAnswer == [ id |-> "none" ]

\* What is built for codec c.
Answer(remotes, c, hint) ==
  LET remote == RemoteOf(remotes, c)
      blob   == Build(c, remote, hint)
  IN  [ id |-> c, seid |-> remote.seid, blob |-> blob, parameters |-> Parameters(c, blob) ]

\* Mutant of GetConfiguration: the hint does not come first.
GetConfiguration_Ranked(remotes, hint, skipped) ==
  LET works == { i \in 1..2 : Works(remotes, Codecs[i], hint) }
      c     == Codecs[CHOOSE i \in works : \A j \in works : i <= j]
  IN  IF works = {} THEN NoAnswer ELSE Answer(remotes, c, hint)

GetConfiguration(remotes, hint, skipped) ==
  LET tries == Tries(hint.codec, skipped)
      works == { i \in DOMAIN tries : Works(remotes, tries[i], hint) }
      c     == tries[CHOOSE i \in works : \A j \in works : i <= j]
  IN  IF works = {} THEN NoAnswer ELSE Answer(remotes, c, hint)

-----------------------------------------------------------------------------
(* The provider.                                                           *)

VARIABLES
  extensible,    \* kEnableA2dpCodecExtensibility of this build
  asked,         \* the remote capabilities and the hint of the last getA2dpConfiguration
  negotiated,    \* what it answered
  reply          \* what the last call of the provider returned

a2dpVars == << extensible, asked, negotiated, reply >>

\* The call keeps nothing for the next one: a behaviour asks once.
NoAsk == [ remotes |-> << >>, hint |-> [ codec |-> "none", given |-> FALSE ], skipped |-> "none" ]

A2dpInit ==
  /\ extensible \in BOOLEAN
  /\ asked = NoAsk /\ negotiated = NoAnswer /\ reply = OK

\* getA2dpConfiguration
GetA2dpConfiguration(remotes, hint, skipped) ==
  /\ extensible /\ asked = NoAsk
  /\ asked' = [ remotes |-> remotes, hint |-> hint, skipped |-> skipped ]
  /\ negotiated' = GetConfiguration(remotes, hint, skipped)
  /\ reply' = OK
  /\ UNCHANGED extensible

\* getA2dpConfiguration and parseA2dpConfiguration of a build without codec extensibility.
UnknownTransaction ==
  /\ ~extensible
  /\ reply' = << "STATUS_UNKNOWN_TRANSACTION" >>
  /\ UNCHANGED << extensible, asked, negotiated >>

\* What startSession makes of a configuration of tag a2dp.
StartReply(codec, blob) ==
  IF codec \notin CodecSet THEN << "EX_ILLEGAL_ARGUMENT" >>
  ELSE IF ParseStatus(codec, blob) # OK THEN << "EX_ILLEGAL_ARGUMENT" >> ELSE OK

\* parseA2dpConfiguration of a configuration the headset made.
ParseA2dpConfiguration(r) ==
  /\ extensible
  /\ reply' = ParseStatus(r.id, r)
  /\ UNCHANGED << extensible, asked, negotiated >>

\* startSession with the configuration that was negotiated.
StartNegotiated ==
  /\ negotiated # NoAnswer
  /\ reply' = StartReply(negotiated.id, negotiated.blob)
  /\ UNCHANGED << extensible, asked, negotiated >>

A2dpNext ==
  \/ \E remotes \in RemoteLists, hint \in Hints :
       \E skipped \in IF hint.codec \in CodecSet THEN { "none" } ELSE CodecSet \cup { "none" } :
         GetA2dpConfiguration(remotes, hint, skipped)
  \/ UnknownTransaction
  \/ \E i \in DOMAIN asked.remotes : ParseA2dpConfiguration(asked.remotes[i])
  \/ StartNegotiated

A2dpSpec == A2dpInit /\ [][A2dpNext]_a2dpVars

-----------------------------------------------------------------------------
(* Properties.                                                             *)

\* The factory asserts that the codec parses what it has built, and a stack that starts a session
\* with the negotiated configuration is not refused.
NegotiatedIsAccepted ==
  negotiated # NoAnswer =>
    /\ ParseStatus(negotiated.id, negotiated.blob) = OK
    /\ StartReply(negotiated.id, negotiated.blob) = OK

\* A codec the headset and the phone can agree on: every field has a bit in common.
Compatible(remotes, c) ==
  /\ Offers(remotes, c) # {}
  /\ RemoteOf(remotes, c).sized
  /\ \A f \in FieldsOf(c) : Local(c)[f] \cap RemoteOf(remotes, c).bits[f] # {}

\* If the hint names a codec of the phone, that codec is negotiated whenever it can be, then AAC,
\* then SBC, and nothing is negotiated only when neither can.  Otherwise the same holds of the
\* codecs the code tries, which need not be both: GetConfiguration leaves out the one that equals
\* what it reads behind the end of the ranking (A2dpOffloadCodecFactory.cpp:73), so a codec that
\* can be may be passed over, and nothing be negotiated because of it.  asked.skipped names that
\* codec, and the property exempts it.
BestCodecChosen ==
  asked # NoAsk =>
    LET possible == { c \in CodecSet \ { asked.skipped } : Compatible(asked.remotes, c) }
    IN  IF possible = {} THEN negotiated = NoAnswer
        ELSE /\ negotiated # NoAnswer
             /\ negotiated.id = IF asked.hint.codec \in possible THEN asked.hint.codec
                                ELSE IF "AAC" \in possible THEN "AAC" ELSE "SBC"

\* The binary search over bitpools: a hinted maximum bit rate is not reached, unless the smallest
\* bitpool reaches it, and one bitpool more would reach it.
HintedRateKept ==
  LET hint == asked.hint IN
  /\ asked # NoAsk /\ negotiated # NoAnswer
  /\ negotiated.id = "SBC" /\ hint.given /\ hint.max > 0 /\ hint.max >= hint.min
  => LET bits == negotiated.blob.bits
         hi   == negotiated.blob.hi
     IN  /\ hi = 2 \/ GetBitrate(bits, hi) < hint.max
         /\ hi = 250 \/ GetBitrate(bits, hi + 1) >= hint.max
=============================================================================
