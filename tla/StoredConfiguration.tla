------------------------ MODULE StoredConfiguration ------------------------
(***************************************************************************)
(* What the front panel edits and what is stored of it: the settings of    *)
(* the two quantizer channels and the two arpeggiators, the link between   *)
(* the channels, the selected channel and the UI layer; and the record     *)
(* that encodes them (Serialization.cpp, StoredConfiguration.h).           *)
(***************************************************************************)
EXTENDS Integers

CONSTANTS
  NoteCount,       \* kNoteCount
  ChannelScalar,   \* the scalar settings of a channel: glide, delay, shifts
  ArpScalar,       \* the scalar settings of an arpeggiator: rate, length, ...
  MaxScalar,       \* the largest value of a scalar setting
  ContinuousInUi,  \* kEnableContinuousSampleModeInUi
  DefaultSetting,  \* the scalar settings of ArpeggiatorConfig::makeDefault()
  FactoryScales,   \* the scales of kFactoryScalePresets
  StoredRecords    \* what a valid slot or live record may hold when it is read

Channel    == {"A", "B"}
Note       == 0 .. NoteCount - 1
Value      == 0 .. MaxScalar
SampleMode == {"track", "sample", "continuous"}
PitchMode  == {"relative", "absolute"}
UiLayer    == {"quantizer", "arpeggiator"}

ChannelConfig ==
  [notes : SUBSET Note, sampleMode : SampleMode, scalar : [ChannelScalar -> Value]]
ArpeggiatorConfig ==
  [enabled : BOOLEAN, stepTrigger : BOOLEAN, setting : [ArpScalar -> Value]]

(* StoredConfiguration *)
Configuration ==
  [linked : BOOLEAN, channelBMode : PitchMode,
   channel : [Channel -> ChannelConfig], arp : [Channel -> ArpeggiatorConfig],
   selected : Channel, layer : UiLayer]

(* The bytes of a stored configuration: any byte may stand where a mode, a
   scale or a scalar is expected. *)
Record ==
  [linked : BOOLEAN, channelBMode : PitchMode,
   channel : [Channel -> [notes : SUBSET Note,
                          sampleMode : SampleMode \cup {"unknown"},
                          scalar : [ChannelScalar -> Nat]]],
   arp : [Channel -> [enabled : BOOLEAN, stepTrigger : BOOLEAN,
                      setting : [ArpScalar -> Nat]]],
   selected : Channel, layerBit : BOOLEAN]

(* A record with the link flag was written while the channels were linked. *)
WrittenLinked(r) ==
  r.linked => /\ r.channel["A"].notes = r.channel["B"].notes
              /\ r.channel["A"].scalar = r.channel["B"].scalar

ASSUME PanelAssumption ==
  /\ NoteCount \in Nat \ {0} /\ MaxScalar \in Nat
  /\ ContinuousInUi \in BOOLEAN
  /\ DefaultSetting \in [ArpScalar -> Value]
  /\ FactoryScales \subseteq SUBSET Note /\ {} \notin FactoryScales
  /\ StoredRecords \subseteq Record
  /\ \A r \in StoredRecords : WrittenLinked(r)

-----------------------------------------------------------------------------
(* encodeStoredConfiguration() *)
Encode(c) ==
  [linked |-> c.linked, channelBMode |-> c.channelBMode, channel |-> c.channel,
   arp |-> c.arp, selected |-> c.selected, layerBit |-> c.layer = "arpeggiator"]

(* clampValue() of every scalar.  The settings that are enumerations fall back
   to a default instead; both leave some value in range. *)
Clamped(scalars) ==
  [s \in DOMAIN scalars |-> IF scalars[s] > MaxScalar THEN MaxScalar ELSE scalars[s]]

DecodeChannelConfig(b) ==
  [notes      |-> IF b.notes = {} THEN Note ELSE b.notes,
   sampleMode |-> IF b.sampleMode = "unknown" THEN "track" ELSE b.sampleMode,
   scalar     |-> Clamped(b.scalar)]

DecodeArpeggiatorConfig(b) == [b EXCEPT !.setting = Clamped(b.setting)]

DecodedLayer(r) ==
  IF r.layerBit \/ \E c \in Channel : r.arp[c].enabled
    THEN "arpeggiator" ELSE "quantizer"

(* decodeStoredConfiguration() *)
Decode(r) ==
  [linked       |-> r.linked,
   channelBMode |-> r.channelBMode,
   channel      |-> [c \in Channel |-> DecodeChannelConfig(r.channel[c])],
   arp          |-> [c \in Channel |->
                       DecodeArpeggiatorConfig(r.arp[IF r.linked THEN "A" ELSE c])],
   selected     |-> IF r.linked THEN "A" ELSE r.selected,
   layer        |-> DecodedLayer(r)]

(* load() of a live record: the format before the current one had no layer
   bit, and the layer follows the arpeggiators that are left enabled. *)
DecodeLive(r, previousFormat) ==
  LET d == Decode(r)
  IN  IF previousFormat
        THEN [d EXCEPT !.layer = IF \E c \in Channel : d.arp[c].enabled
                                   THEN "arpeggiator" ELSE "quantizer"]
        ELSE d

(* applyStoredConfiguration(): the configuration it leaves. *)
Applied(stored) ==
  LET arps == [c \in Channel |-> stored.arp[IF stored.linked THEN "A" ELSE c]]
  IN  [stored EXCEPT
         !.arp      = arps,
         !.selected = IF stored.linked THEN "A" ELSE stored.selected,
         !.layer    = IF \E c \in Channel : arps[c].enabled
                        THEN "arpeggiator" ELSE stored.layer]

DefaultChannel(notes) ==
  [notes |-> notes, sampleMode |-> "track", scalar |-> [s \in ChannelScalar |-> 0]]
DefaultArpeggiator ==
  [enabled |-> FALSE, stepTrigger |-> FALSE, setting |-> DefaultSetting]

(* makeFactoryConfigPreset() with the defaults of StoredConfiguration; with
   the chromatic scale it is also what a blank device starts from. *)
FactoryConfiguration(notes) ==
  [linked |-> FALSE, channelBMode |-> "absolute",
   channel |-> [c \in Channel |-> DefaultChannel(notes)],
   arp |-> [c \in Channel |-> DefaultArpeggiator],
   selected |-> "A", layer |-> "quantizer"]
=============================================================================
