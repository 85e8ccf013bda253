----------------------------- MODULE MenuProofs -----------------------------
(***************************************************************************)
(* Proofs about modules PanelConfiguration and Menu.  The invariant of the *)
(* panel says of the whole configuration what Sound says of any: it is     *)
(* well typed, no scale is empty, linked channels agree and no arpeggio is *)
(* hidden.  The operations keep it, and so does everything that decoding   *)
(* and applying a record can give.                                         *)
(*                                                                         *)
(* The menu implements the panel: whatever page is shown and whatever the  *)
(* inputs are, a step of module Menu is an operation of module             *)
(* PanelConfiguration or leaves its variables alone.  What is proved of    *)
(* PanelSpec so holds of the menu.  And its pages belong to what is held   *)
(* down and to the layer shown.                                            *)
(***************************************************************************)
EXTENDS Menu, TLAPS


Sound(c) ==
  /\ c \in Configuration
  /\ \A x \in Channel : c.channel[x].notes # {}
  /\ c.layer = "quantizer" => \A x \in Channel : ~c.arp[x].enabled
  /\ c.linked => /\ c.channel["A"].notes = c.channel["B"].notes
                 /\ c.channel["A"].scalar = c.channel["B"].scalar
                 /\ c.arp["A"] = c.arp["B"]
                 /\ c.selected = "A"

PanelInv ==
  /\ Sound(Capture)
  /\ brightness \in Brightness
  /\ liveDirty \in BOOLEAN

(* The same, spelled out for the variables. *)
LEMMA SoundParts ==
  Sound(Capture) <=>
    /\ linked \in BOOLEAN /\ channelBMode \in PitchMode
    /\ channel \in [Channel -> ChannelConfig]
    /\ arp \in [Channel -> ArpeggiatorConfig]
    /\ selectedChannel \in Channel /\ layer \in UiLayer
    /\ \A x \in Channel : channel[x].notes # {}
    /\ layer = "quantizer" => \A x \in Channel : ~arp[x].enabled
    /\ linked => /\ channel["A"].notes = channel["B"].notes
                 /\ channel["A"].scalar = channel["B"].scalar
                 /\ arp["A"] = arp["B"]
                 /\ selectedChannel = "A"
BY DEF Sound, Capture, Configuration

-----------------------------------------------------------------------------
(* What a record gives *)

LEMMA ClampedType ==
  ASSUME NEW S, NEW f \in [S -> Nat]
  PROVE  Clamped(f) \in [S -> Value]
BY PanelAssumption DEF Clamped, Value

LEMMA ChannelDecoded ==
  ASSUME NEW r \in Record, NEW c \in Channel
  PROVE  /\ DecodeChannelConfig(r.channel[c]) \in ChannelConfig
         /\ DecodeChannelConfig(r.channel[c]).notes # {}
<1> DEFINE b == r.channel[c]
<1>1. /\ b.notes \in SUBSET Note
      /\ b.sampleMode \in SampleMode \cup {"unknown"}
      /\ b.scalar \in [ChannelScalar -> Nat]
  BY DEF Record
<1>2. Clamped(b.scalar) \in [ChannelScalar -> Value]
  BY <1>1, ClampedType
<1>3. 0 \in Note
  BY PanelAssumption DEF Note
<1> QED
  BY <1>1, <1>2, <1>3 DEF DecodeChannelConfig, ChannelConfig, SampleMode

LEMMA ArpeggiatorDecoded ==
  ASSUME NEW r \in Record, NEW c \in Channel
  PROVE  /\ DecodeArpeggiatorConfig(r.arp[c]) \in ArpeggiatorConfig
         /\ DecodeArpeggiatorConfig(r.arp[c]).enabled = r.arp[c].enabled
<1>1. r.arp[c] \in [enabled : BOOLEAN, stepTrigger : BOOLEAN, setting : [ArpScalar -> Nat]]
  BY DEF Record
<1>2. Clamped(r.arp[c].setting) \in [ArpScalar -> Value]
  BY <1>1, ClampedType
<1> QED
  BY <1>1, <1>2 DEF DecodeArpeggiatorConfig, ArpeggiatorConfig

LEMMA DecodedType ==
  ASSUME NEW r \in Record
  PROVE  /\ Decode(r) \in Configuration
         /\ DecodeLive(r, TRUE) \in Configuration
         /\ DecodeLive(r, FALSE) \in Configuration
<1> DEFINE chans == [c \in Channel |-> DecodeChannelConfig(r.channel[c])]
<1> DEFINE arps == [c \in Channel |->
                      DecodeArpeggiatorConfig(r.arp[IF r.linked THEN "A" ELSE c])]
<1>1. chans \in [Channel -> ChannelConfig]
  BY ChannelDecoded
<1>2. arps \in [Channel -> ArpeggiatorConfig]
  BY ArpeggiatorDecoded DEF Channel
<1>3. /\ r.linked \in BOOLEAN /\ r.channelBMode \in PitchMode
      /\ r.selected \in Channel
  BY DEF Record
<1>4. DecodedLayer(r) \in UiLayer
  BY DEF DecodedLayer, UiLayer
<1>5. Decode(r) \in Configuration
  <2> HIDE DEF chans, arps
  <2>1. Decode(r) = [linked |-> r.linked, channelBMode |-> r.channelBMode,
                     channel |-> chans, arp |-> arps,
                     selected |-> IF r.linked THEN "A" ELSE r.selected,
                     layer |-> DecodedLayer(r)]
    BY DEF Decode, chans, arps
  <2> QED
    BY <1>1, <1>2, <1>3, <1>4, <2>1 DEF Configuration, Channel
<1>6. \A l \in UiLayer : [Decode(r) EXCEPT !.layer = l] \in Configuration
  BY <1>5 DEF Configuration
<1> QED
  BY <1>5, <1>6 DEF DecodeLive, UiLayer


LEMMA AppliedSound ==
  ASSUME NEW d \in Configuration,
         \A c \in Channel : d.channel[c].notes # {},
         d.linked => /\ d.channel["A"].notes = d.channel["B"].notes
                     /\ d.channel["A"].scalar = d.channel["B"].scalar
  PROVE  Sound(Applied(d))
<1> DEFINE arps == [c \in Channel |-> d.arp[IF d.linked THEN "A" ELSE c]]
<1> DEFINE sel == IF d.linked THEN "A" ELSE d.selected
<1> DEFINE lay == IF \E c \in Channel : arps[c].enabled THEN "arpeggiator" ELSE d.layer
<1>1. /\ d.linked \in BOOLEAN /\ d.channelBMode \in PitchMode
      /\ d.channel \in [Channel -> ChannelConfig]
      /\ d.arp \in [Channel -> ArpeggiatorConfig]
      /\ d.selected \in Channel /\ d.layer \in UiLayer
  BY DEF Configuration
<1>2. arps \in [Channel -> ArpeggiatorConfig]
  BY <1>1 DEF Channel
<1>3. d.linked => arps["A"] = arps["B"]
  BY DEF Channel
<1>4. sel \in Channel /\ lay \in UiLayer
  BY <1>1 DEF Channel, UiLayer
<1>5. Applied(d) = [d EXCEPT !.arp = arps, !.selected = sel, !.layer = lay]
  BY DEF Applied
<1>6. lay = "quantizer" => \A c \in Channel : ~arps[c].enabled
  OBVIOUS
<1> HIDE DEF arps, lay
<1>7. Applied(d) = [linked |-> d.linked, channelBMode |-> d.channelBMode,
                    channel |-> d.channel, arp |-> arps, selected |-> sel, layer |-> lay]
  BY <1>5 DEF Configuration
<1> HIDE DEF sel
<1>8. Applied(d) \in Configuration
  BY <1>1, <1>2, <1>4, <1>7 DEF Configuration
<1>9. d.linked => sel = "A"
  BY DEF sel
<1> QED
  BY <1>3, <1>6, <1>7, <1>8, <1>9 DEF Sound

LEMMA RecordSound ==
  ASSUME NEW r \in StoredRecords
  PROVE  /\ Sound(Applied(Decode(r)))
         /\ \A previousFormat \in BOOLEAN : Sound(Applied(DecodeLive(r, previousFormat)))
<1>1. r \in Record /\ WrittenLinked(r)
  BY PanelAssumption
<1>2. /\ Decode(r) \in Configuration
      /\ \A b \in BOOLEAN : DecodeLive(r, b) \in Configuration
  BY <1>1, DecodedType
<1>3. /\ Decode(r).linked = r.linked
      /\ \A c \in Channel : Decode(r).channel[c] = DecodeChannelConfig(r.channel[c])
  BY DEF Decode
<1>4. \A c \in Channel : Decode(r).channel[c].notes # {}
  BY <1>1, <1>3, ChannelDecoded
<1>5. r.linked => /\ Decode(r).channel["A"].notes = Decode(r).channel["B"].notes
                  /\ Decode(r).channel["A"].scalar = Decode(r).channel["B"].scalar
  BY <1>1, <1>3 DEF WrittenLinked, DecodeChannelConfig, Channel
<1>6. \A b \in BOOLEAN : /\ DecodeLive(r, b).linked = Decode(r).linked
                         /\ DecodeLive(r, b).channel = Decode(r).channel
  BY <1>2 DEF DecodeLive, Configuration
<1>7. Sound(Applied(Decode(r)))
  BY <1>2, <1>3, <1>4, <1>5, AppliedSound
<1>8. ASSUME NEW b \in BOOLEAN PROVE Sound(Applied(DecodeLive(r, b)))
  <2> DEFINE d == DecodeLive(r, b)
  <2>1. d \in Configuration
    BY <1>2
  <2>2. d.linked = Decode(r).linked /\ d.channel = Decode(r).channel
    BY <1>6
  <2> HIDE DEF d
  <2>3. Sound(Applied(d))
    BY <2>1, <2>2, <1>3, <1>4, <1>5, AppliedSound
  <2> QED
    BY <2>3 DEF d
<1> QED
  BY <1>7, <1>8

LEMMA FactorySound ==
  ASSUME NEW notes \in SUBSET Note, notes # {}
  PROVE  Sound(FactoryConfiguration(notes)) /\ Sound(Applied(FactoryConfiguration(notes)))
<1> DEFINE f == FactoryConfiguration(notes)
<1>1. DefaultChannel(notes) \in ChannelConfig
  BY PanelAssumption DEF DefaultChannel, ChannelConfig, SampleMode, Value
<1>2. DefaultArpeggiator \in ArpeggiatorConfig
  BY PanelAssumption DEF DefaultArpeggiator, ArpeggiatorConfig
<1>3. f \in Configuration
  BY <1>1, <1>2 DEF FactoryConfiguration, Configuration, PitchMode, Channel, UiLayer
<1>4. \A c \in Channel : f.channel[c] = DefaultChannel(notes) /\ f.arp[c] = DefaultArpeggiator
  BY DEF FactoryConfiguration
<1>5. f.linked = FALSE
  BY DEF FactoryConfiguration
<1>6. \A c \in Channel : f.channel[c].notes # {} /\ ~f.arp[c].enabled
  BY <1>4 DEF DefaultChannel, DefaultArpeggiator
<1> HIDE DEF f
<1>7. Sound(f)
  BY <1>3, <1>5, <1>6 DEF Sound
<1>8. Sound(Applied(f))
  BY <1>3, <1>5, <1>6, AppliedSound
<1> QED
  BY <1>7, <1>8 DEF f


-----------------------------------------------------------------------------
(* The mark for the autosave *)

LEMMA EncodeInjective ==
  ASSUME NEW c \in Configuration, NEW d \in Configuration, Encode(c) = Encode(d)
  PROVE  c = d
<1>1. /\ c.linked = d.linked /\ c.channelBMode = d.channelBMode
      /\ c.channel = d.channel /\ c.arp = d.arp /\ c.selected = d.selected
      /\ (c.layer = "arpeggiator") = (d.layer = "arpeggiator")
  BY DEF Encode
<1>2. c.layer \in UiLayer /\ d.layer \in UiLayer
  BY DEF Configuration
<1>3. c.layer = d.layer
  BY <1>1, <1>2 DEF UiLayer
<1> QED
  BY <1>1, <1>3 DEF Configuration

LEMMA MarkType ==
  ASSUME liveDirty \in BOOLEAN, MarkChange
  PROVE  liveDirty' \in BOOLEAN
BY DEF MarkChange

LEMMA MarkMarks ==
  ASSUME Capture \in Configuration, Capture' \in Configuration, MarkChange,
         Capture' # Capture
  PROVE  liveDirty'
<1>1. PICK c \in Configuration, d \in Configuration : c = Capture /\ d = Capture'
  OBVIOUS
<1>2. Encode(d) # Encode(c)
  BY <1>1, EncodeInjective
<1>3. Encode(Capture)' = Encode(d) /\ Encode(Capture) = Encode(c)
  BY <1>1 DEF Encode, Capture
<1> QED
  BY <1>2, <1>3 DEF MarkChange

-----------------------------------------------------------------------------
(* The operations keep the invariant *)

LEMMA SoundParts2 ==
  ASSUME linked' \in BOOLEAN, channelBMode' \in PitchMode,
         channel' \in [Channel -> ChannelConfig],
         arp' \in [Channel -> ArpeggiatorConfig],
         selectedChannel' \in Channel, layer' \in UiLayer,
         \A x \in Channel : channel'[x].notes # {},
         layer' = "quantizer" => \A x \in Channel : ~arp'[x].enabled,
         linked' => /\ channel'["A"].notes = channel'["B"].notes
                    /\ channel'["A"].scalar = channel'["B"].scalar
                    /\ arp'["A"] = arp'["B"]
                    /\ selectedChannel' = "A"
  PROVE  Sound(Capture)'
BY DEF Sound, Capture, Configuration

LEMMA EditSound ==
  ASSUME PanelInv,
         NEW edit \in [Channel -> ChannelConfig],
         \A c \in Channel : edit[c].notes # {},
         linked => /\ edit["A"].notes = edit["B"].notes
                   /\ edit["A"].scalar = edit["B"].scalar,
         EditChannels(edit)
  PROVE  PanelInv'
<1>1. Sound(Capture) /\ brightness \in Brightness /\ liveDirty \in BOOLEAN
  BY DEF PanelInv
<1>2. /\ channel' = [c \in Channel |-> IF c \in Edited THEN edit[c] ELSE channel[c]]
      /\ UNCHANGED <<linked, channelBMode, arp, selectedChannel, layer, brightness>>
      /\ MarkChange
  BY DEF EditChannels
<1>3. channel' \in [Channel -> ChannelConfig]
  BY <1>1, <1>2, SoundParts
<1>4. \A c \in Channel : channel'[c].notes # {}
  BY <1>1, <1>2, SoundParts
<1>5. linked => channel'["A"] = edit["A"] /\ channel'["B"] = edit["B"]
  BY <1>2 DEF Edited, Channel
<1>6. Sound(Capture)'
  BY <1>1, <1>2, <1>3, <1>4, <1>5, SoundParts, SoundParts2
<1> QED
  BY <1>1, <1>2, <1>6, MarkType DEF PanelInv

(* applySelectedConfig() with an enable bit that is left alone *)
LEMMA ArpEditSound ==
  ASSUME PanelInv,
         NEW config \in ArpeggiatorConfig,
         config.enabled = arp[selectedChannel].enabled,
         EditArps(config)
  PROVE  PanelInv'
<1>1. Sound(Capture) /\ brightness \in Brightness /\ liveDirty \in BOOLEAN
  BY DEF PanelInv
<1>2. /\ arp' = [c \in Channel |-> IF c \in Edited THEN config ELSE arp[c]]
      /\ UNCHANGED <<linked, channelBMode, channel, selectedChannel, layer, brightness>>
      /\ MarkChange
  BY DEF EditArps
<1>3. arp' \in [Channel -> ArpeggiatorConfig]
  BY <1>1, <1>2, SoundParts
<1>4. linked => arp'["A"] = arp'["B"]
  BY <1>2 DEF Edited, Channel
<1>5. \A c \in Channel : arp'[c].enabled => \E x \in Channel : arp[x].enabled
  BY <1>1, <1>2, SoundParts DEF Channel
<1>6. Sound(Capture)'
  BY <1>1, <1>2, <1>3, <1>4, <1>5, SoundParts, SoundParts2
<1> QED
  BY <1>1, <1>2, <1>6, MarkType DEF PanelInv


LEMMA ToggledScale ==
  ASSUME NEW notes \in SUBSET Note, notes # {}, NEW n \in Note
  PROVE  Toggled(notes, n) \in SUBSET Note /\ Toggled(notes, n) # {}
BY DEF Toggled

LEMMA RotatedScale ==
  ASSUME NEW notes \in SUBSET Note, notes # {}, NEW by \in Nat
  PROVE  Rotated(notes, by) \in SUBSET Note /\ Rotated(notes, by) # {}
<1>1. NoteCount \in Nat \ {0}
  BY PanelAssumption
<1>2. \A m \in Int : m % NoteCount \in 0 .. NoteCount - 1
  BY <1>1
<1>3. \A n \in notes : (n + by) % NoteCount \in Note
  BY <1>1, <1>2 DEF Note
<1> QED
  BY <1>3 DEF Rotated

LEMMA ToggleNoteSound ==
  ASSUME PanelInv, NEW n \in Note, ToggleNote(n)
  PROVE  PanelInv'
<1>1. PICK edit : edit = [c \in Channel |-> [channel[c] EXCEPT !.notes = Toggled(@, n)]]
  OBVIOUS
<1>2. channel \in [Channel -> ChannelConfig] /\ \A c \in Channel : channel[c].notes # {}
  BY SoundParts DEF PanelInv
<1>3. \A c \in Channel : /\ edit[c] \in ChannelConfig
                         /\ edit[c].notes = Toggled(channel[c].notes, n)
                         /\ edit[c].scalar = channel[c].scalar
  BY <1>1, <1>2, ToggledScale DEF ChannelConfig
<1>4. edit \in [Channel -> ChannelConfig] /\ \A c \in Channel : edit[c].notes # {}
  BY <1>1, <1>2, <1>3, ToggledScale DEF ChannelConfig
<1>5. linked => edit["A"].notes = edit["B"].notes /\ edit["A"].scalar = edit["B"].scalar
  BY <1>3, SoundParts DEF PanelInv, Channel
<1>6. EditChannels(edit)
  BY <1>1 DEF ToggleNote
<1> QED
  BY <1>4, <1>5, <1>6, EditSound

LEMMA RotateScaleSound ==
  ASSUME PanelInv, NEW by \in {1, NoteCount - 1}, RotateScale(by)
  PROVE  PanelInv'
<1>0. by \in Nat
  BY PanelAssumption
<1>1. PICK edit : edit = [c \in Channel |-> [channel[c] EXCEPT !.notes = Rotated(@, by)]]
  OBVIOUS
<1>2. channel \in [Channel -> ChannelConfig] /\ \A c \in Channel : channel[c].notes # {}
  BY SoundParts DEF PanelInv
<1>3. \A c \in Channel : /\ edit[c] \in ChannelConfig
                         /\ edit[c].notes = Rotated(channel[c].notes, by)
                         /\ edit[c].scalar = channel[c].scalar
  BY <1>0, <1>1, <1>2, RotatedScale DEF ChannelConfig
<1>4. edit \in [Channel -> ChannelConfig] /\ \A c \in Channel : edit[c].notes # {}
  BY <1>0, <1>1, <1>2, <1>3, RotatedScale DEF ChannelConfig
<1>5. linked => edit["A"].notes = edit["B"].notes /\ edit["A"].scalar = edit["B"].scalar
  BY <1>3, SoundParts DEF PanelInv, Channel
<1>6. EditChannels(edit)
  BY <1>1 DEF RotateScale
<1> QED
  BY <1>4, <1>5, <1>6, EditSound

LEMMA SelectScalarSound ==
  ASSUME PanelInv, NEW s \in ChannelScalar, NEW v \in Value, SelectScalar(s, v)
  PROVE  PanelInv'
<1>1. PICK edit : edit = [c \in Channel |->
                            [channel[c] EXCEPT !.scalar = [@ EXCEPT ![s] = v]]]
  OBVIOUS
<1>2. channel \in [Channel -> ChannelConfig] /\ \A c \in Channel : channel[c].notes # {}
  BY SoundParts DEF PanelInv
<1>3. \A c \in Channel : /\ edit[c] \in ChannelConfig
                         /\ edit[c].notes = channel[c].notes
                         /\ edit[c].scalar = [channel[c].scalar EXCEPT ![s] = v]
  BY <1>1, <1>2 DEF ChannelConfig
<1>4. edit \in [Channel -> ChannelConfig] /\ \A c \in Channel : edit[c].notes # {}
  BY <1>1, <1>2, <1>3
<1>5. linked => edit["A"].notes = edit["B"].notes /\ edit["A"].scalar = edit["B"].scalar
  BY <1>3, SoundParts DEF PanelInv, Channel
<1>6. EditChannels(edit)
  BY <1>1 DEF SelectScalar
<1> QED
  BY <1>4, <1>5, <1>6, EditSound

LEMMA LoadScaleSound ==
  ASSUME PanelInv, NEW stored \in SUBSET Note, LoadScale(stored)
  PROVE  PanelInv'
<1>1. PICK notes \in SUBSET Note : notes = (IF stored = {} THEN Note ELSE stored)
  OBVIOUS
<1>2. notes # {}
  BY <1>1, PanelAssumption DEF Note
<1>3. PICK edit : edit = [c \in Channel |-> [channel[c] EXCEPT !.notes = notes]]
  OBVIOUS
<1>4. channel \in [Channel -> ChannelConfig]
  BY SoundParts DEF PanelInv
<1>5. \A c \in Channel : /\ edit[c] \in ChannelConfig
                         /\ edit[c].notes = notes
                         /\ edit[c].scalar = channel[c].scalar
  BY <1>3, <1>4 DEF ChannelConfig
<1>6. edit \in [Channel -> ChannelConfig]
  BY <1>3, <1>5
<1>7. linked => edit["A"].scalar = edit["B"].scalar
  BY <1>5, SoundParts DEF PanelInv, Channel
<1>8. EditChannels(edit)
  BY <1>1, <1>3 DEF LoadScale
<1> QED
  BY <1>2, <1>5, <1>6, <1>7, <1>8, EditSound DEF Channel


LEMMA ToggleSampleModeSound ==
  ASSUME PanelInv, ToggleSampleMode
  PROVE  PanelInv'
<1>1. Sound(Capture) /\ brightness \in Brightness /\ liveDirty \in BOOLEAN
  BY DEF PanelInv
<1>2. channel \in [Channel -> ChannelConfig] /\ selectedChannel \in Channel
  BY <1>1, SoundParts
<1>3. PICK m : m = NextSampleMode(channel[selectedChannel].sampleMode)
  OBVIOUS
<1>4. m \in SampleMode
  BY <1>3 DEF NextSampleMode, SampleMode
<1>5. channel' = [channel EXCEPT ![selectedChannel].sampleMode = m]
  BY <1>3 DEF ToggleSampleMode
<1>6. \A c \in Channel : /\ channel'[c] \in ChannelConfig
                         /\ channel'[c].notes = channel[c].notes
                         /\ channel'[c].scalar = channel[c].scalar
  BY <1>2, <1>4, <1>5 DEF ChannelConfig
<1>7. channel' \in [Channel -> ChannelConfig]
  BY <1>2, <1>5, <1>6
<1>8. /\ UNCHANGED <<linked, channelBMode, arp, selectedChannel, layer, brightness>>
      /\ MarkChange
  BY DEF ToggleSampleMode
<1>9. Sound(Capture)'
  BY <1>1, <1>6, <1>7, <1>8, SoundParts, SoundParts2 DEF Channel
<1> QED
  BY <1>1, <1>8, <1>9, MarkType DEF PanelInv

LEMMA ToggleChannelBModeSound ==
  ASSUME PanelInv, ToggleChannelBMode
  PROVE  PanelInv'
<1>1. Sound(Capture) /\ brightness \in Brightness /\ liveDirty \in BOOLEAN
  BY DEF PanelInv
<1>2. /\ channelBMode' \in PitchMode
      /\ UNCHANGED <<linked, channel, arp, selectedChannel, layer, brightness>>
      /\ MarkChange
  BY DEF ToggleChannelBMode, PitchMode
<1>3. Sound(Capture)'
  BY <1>1, <1>2, SoundParts, SoundParts2
<1> QED
  BY <1>1, <1>2, <1>3, MarkType DEF PanelInv

LEMMA SelectChannelSound ==
  ASSUME PanelInv, NEW c \in Channel, SelectChannel(c)
  PROVE  PanelInv'
<1>1. Sound(Capture) /\ brightness \in Brightness /\ liveDirty \in BOOLEAN
  BY DEF PanelInv
<1>2. /\ selectedChannel' = IF linked THEN selectedChannel ELSE c
      /\ UNCHANGED <<linked, channelBMode, channel, arp, layer, brightness>>
      /\ MarkChange
  BY DEF SelectChannel
<1>3. Sound(Capture)'
  BY <1>1, <1>2, SoundParts, SoundParts2
<1> QED
  BY <1>1, <1>2, <1>3, MarkType DEF PanelInv

LEMMA ToggleLinkSound ==
  ASSUME PanelInv, ToggleLink
  PROVE  PanelInv'
<1>1. Sound(Capture) /\ brightness \in Brightness /\ liveDirty \in BOOLEAN
  BY DEF PanelInv
<1>2. /\ linked' = ~linked
      /\ channel' = IF linked THEN channel ELSE [c \in Channel |-> channel["A"]]
      /\ arp' = IF linked THEN arp ELSE [c \in Channel |-> arp["A"]]
      /\ selectedChannel' = IF linked THEN selectedChannel ELSE "A"
      /\ UNCHANGED <<channelBMode, layer, brightness>>
      /\ MarkChange
  BY DEF ToggleLink
<1>3. Sound(Capture)'
  <2>1. CASE linked
    BY <1>1, <1>2, <2>1, SoundParts, SoundParts2
  <2>2. CASE ~linked
    <3>1. channel' \in [Channel -> ChannelConfig] /\ arp' \in [Channel -> ArpeggiatorConfig]
      BY <1>1, <1>2, <2>2, SoundParts DEF Channel
    <3>2. \A c \in Channel : channel'[c] = channel["A"] /\ arp'[c] = arp["A"]
      BY <1>2, <2>2
    <3>3. linked' \in BOOLEAN /\ selectedChannel' = "A"
      BY <1>2, <2>2
    <3> QED
      BY <1>1, <1>2, <3>1, <3>2, <3>3, SoundParts, SoundParts2 DEF Channel
  <2> QED
    BY <2>1, <2>2
<1> QED
  BY <1>1, <1>2, <1>3, MarkType DEF PanelInv

LEMMA SelectArpScalarSound ==
  ASSUME PanelInv, NEW s \in ArpScalar, NEW v \in Value, SelectArpScalar(s, v)
  PROVE  PanelInv'
<1>1. arp[selectedChannel] \in ArpeggiatorConfig
  BY SoundParts DEF PanelInv
<1>2. PICK config : config = [arp[selectedChannel] EXCEPT !.setting = [@ EXCEPT ![s] = v]]
  OBVIOUS
<1>3. config \in ArpeggiatorConfig /\ config.enabled = arp[selectedChannel].enabled
  BY <1>1, <1>2 DEF ArpeggiatorConfig
<1>4. EditArps(config)
  BY <1>2 DEF SelectArpScalar
<1> QED
  BY <1>3, <1>4, ArpEditSound

LEMMA ToggleStepTriggerSound ==
  ASSUME PanelInv, ToggleStepTrigger
  PROVE  PanelInv'
<1>1. arp[selectedChannel] \in ArpeggiatorConfig
  BY SoundParts DEF PanelInv
<1>2. PICK config : config = [arp[selectedChannel] EXCEPT !.stepTrigger = ~@]
  OBVIOUS
<1>3. config \in ArpeggiatorConfig /\ config.enabled = arp[selectedChannel].enabled
  BY <1>1, <1>2 DEF ArpeggiatorConfig
<1>4. EditArps(config)
  BY <1>2 DEF ToggleStepTrigger
<1> QED
  BY <1>3, <1>4, ArpEditSound

(* setEnabled() changes the enable bits and nothing else. *)
LEMMA WithEnabledType ==
  ASSUME arp \in [Channel -> ArpeggiatorConfig],
         NEW S \in SUBSET Channel, NEW e \in BOOLEAN
  PROVE  /\ WithEnabled(S, e) \in [Channel -> ArpeggiatorConfig]
         /\ \A c \in S : WithEnabled(S, e)[c] = [arp[c] EXCEPT !.enabled = e]
         /\ \A c \in S : WithEnabled(S, e)[c].enabled = e
BY DEF WithEnabled, ArpeggiatorConfig

LEMMA ToggleArpSound ==
  ASSUME PanelInv, ToggleArp
  PROVE  PanelInv'
<1>1. Sound(Capture) /\ brightness \in Brightness /\ liveDirty \in BOOLEAN
  BY DEF PanelInv
<1>2. PICK S \in SUBSET Channel : S = Edited
  BY <1>1, SoundParts DEF Edited
<1>3. PICK e \in BOOLEAN : e = ~(Edited \subseteq EnabledArps)
  OBVIOUS
<1>4. /\ layer = "arpeggiator" /\ arp' = WithEnabled(S, e)
      /\ UNCHANGED <<linked, channelBMode, channel, selectedChannel, layer, brightness>>
      /\ MarkChange
  BY <1>2, <1>3 DEF ToggleArp
<1>5. arp \in [Channel -> ArpeggiatorConfig]
  BY <1>1, SoundParts
<1>6. arp' \in [Channel -> ArpeggiatorConfig]
  BY <1>4, <1>5, WithEnabledType
<1>7. linked => arp'["A"] = arp'["B"]
  <2> SUFFICES ASSUME linked PROVE arp'["A"] = arp'["B"]
    OBVIOUS
  <2>1. S = Channel /\ arp["A"] = arp["B"]
    BY <1>1, <1>2, SoundParts DEF Edited
  <2>2. \A c \in Channel : WithEnabled(S, e)[c] = [arp[c] EXCEPT !.enabled = e]
    BY <1>5, <2>1, WithEnabledType
  <2> QED
    BY <1>4, <2>1, <2>2 DEF Channel
<1>8. Sound(Capture)'
  BY <1>1, <1>4, <1>6, <1>7, SoundParts, SoundParts2
<1> QED
  BY <1>1, <1>4, <1>8, MarkType DEF PanelInv

LEMMA ToggleLayerSound ==
  ASSUME PanelInv, ToggleLayer
  PROVE  PanelInv'
<1>1. Sound(Capture) /\ brightness \in Brightness
  BY DEF PanelInv
<1>2. /\ liveDirty' = TRUE
      /\ UNCHANGED <<linked, channelBMode, channel, brightness>>
  BY DEF ToggleLayer
<1>3. arp \in [Channel -> ArpeggiatorConfig] /\ selectedChannel \in Channel
  BY <1>1, SoundParts
<1>4. CASE EnterArpeggiatorLayer
  <2>1. layer' = "arpeggiator" /\ layer' \in UiLayer
    BY <1>4 DEF EnterArpeggiatorLayer, UiLayer
  <2>2. CASE linked
    <3>1. /\ arp' = [c \in Channel |-> [arp["A"] EXCEPT !.enabled = TRUE]]
          /\ selectedChannel' = "A"
      BY <1>4, <2>2 DEF EnterArpeggiatorLayer
    <3>2. arp' \in [Channel -> ArpeggiatorConfig] /\ arp'["A"] = arp'["B"]
      BY <1>3, <3>1 DEF ArpeggiatorConfig, Channel
    <3>3. Sound(Capture)'
      BY <1>1, <1>2, <2>1, <3>1, <3>2, SoundParts, SoundParts2 DEF Channel
    <3> QED
      BY <1>1, <1>2, <3>3 DEF PanelInv
  <2>3. CASE ~linked
    <3>1. /\ arp' = WithEnabled({selectedChannel}, TRUE)
          /\ selectedChannel' = selectedChannel
      BY <1>4, <2>3 DEF EnterArpeggiatorLayer
    <3>2. PICK S \in SUBSET Channel : S = {selectedChannel}
      BY <1>3
    <3>3. arp' \in [Channel -> ArpeggiatorConfig]
      BY <1>3, <3>1, <3>2, WithEnabledType
    <3>4. Sound(Capture)'
      BY <1>1, <1>2, <2>1, <2>3, <3>1, <3>3, SoundParts, SoundParts2
    <3> QED
      BY <1>1, <1>2, <3>4 DEF PanelInv
  <2> QED
    BY <2>2, <2>3
<1>5. CASE LeaveArpeggiatorLayer
  <2>1. /\ layer' = "quantizer" /\ layer' \in UiLayer
        /\ arp' = WithEnabled(Channel, FALSE)
        /\ selectedChannel' = selectedChannel
    BY <1>5 DEF LeaveArpeggiatorLayer, UiLayer
  <2>2. /\ arp' \in [Channel -> ArpeggiatorConfig]
        /\ \A c \in Channel : /\ arp'[c] = [arp[c] EXCEPT !.enabled = FALSE]
                              /\ ~arp'[c].enabled
    BY <1>3, <2>1, WithEnabledType
  <2>3. linked => arp'["A"] = arp'["B"]
    BY <1>1, <2>2, SoundParts DEF Channel
  <2>4. Sound(Capture)'
    BY <1>1, <1>2, <2>1, <2>2, <2>3, SoundParts, SoundParts2
  <2> QED
    BY <1>1, <1>2, <2>4 DEF PanelInv
<1> QED
  BY <1>4, <1>5 DEF ToggleLayer


(* What takes a configuration over as it is. *)
LEMMA BecomeSound ==
  ASSUME NEW c, Sound(c), Become(c)
  PROVE  Sound(Capture)'
<1>1. /\ c \in Configuration
      /\ Capture' = [linked |-> c.linked, channelBMode |-> c.channelBMode,
                     channel |-> c.channel, arp |-> c.arp,
                     selected |-> c.selected, layer |-> c.layer]
  BY DEF Sound, Become, Capture
<1>2. Capture' = c
  BY <1>1 DEF Configuration
<1> QED
  BY <1>2 DEF Sound

LEMMA LoadSound ==
  ASSUME PanelInv,
         \/ \E r \in StoredRecords : LoadConfiguration(r)
         \/ \E notes \in FactoryScales : LoadFactoryPreset(notes)
  PROVE  PanelInv'
<1>1. brightness \in Brightness /\ liveDirty \in BOOLEAN
  BY DEF PanelInv
<1>2. CASE \E r \in StoredRecords : LoadConfiguration(r)
  <2>1. PICK r \in StoredRecords : LoadConfiguration(r)
    BY <1>2
  <2>2. Sound(Applied(Decode(r)))
    BY RecordSound
  <2>3. Sound(Capture)'
    BY <2>1, <2>2, BecomeSound DEF LoadConfiguration
  <2> QED
    BY <1>1, <2>1, <2>3, MarkType DEF LoadConfiguration, PanelInv
<1>3. CASE \E notes \in FactoryScales : LoadFactoryPreset(notes)
  <2>1. PICK notes \in FactoryScales : LoadFactoryPreset(notes)
    BY <1>3
  <2>2. Sound(Applied(FactoryConfiguration(notes)))
    BY PanelAssumption, FactorySound
  <2>3. Sound(Capture)'
    BY <2>1, <2>2, BecomeSound DEF LoadFactoryPreset
  <2> QED
    BY <1>1, <2>1, <2>3, MarkType DEF LoadFactoryPreset, PanelInv
<1> QED
  BY <1>2, <1>3

LEMMA SomeNote == Note # {}
<1>1. 0 \in Note
  BY PanelAssumption DEF Note
<1> QED
  BY <1>1

LEMMA RestartSound ==
  ASSUME PanelInv, Restart
  PROVE  PanelInv'
<1>1. liveDirty' = FALSE
  BY DEF Restart
<1>2. CASE \E r \in StoredRecords, previousFormat \in BOOLEAN :
             Become(Applied(DecodeLive(r, previousFormat))) /\ brightness' \in Brightness
  <2>1. PICK r \in StoredRecords, previousFormat \in BOOLEAN :
               Become(Applied(DecodeLive(r, previousFormat))) /\ brightness' \in Brightness
    BY <1>2
  <2>2. Sound(Applied(DecodeLive(r, previousFormat)))
    BY RecordSound
  <2>3. Sound(Capture)'
    BY <2>1, <2>2, BecomeSound
  <2> QED
    BY <1>1, <2>1, <2>3 DEF PanelInv
<1>3. CASE Become(FactoryConfiguration(Note)) /\ brightness' = DefaultBrightness
  <2>1. Note # {}
    BY SomeNote
  <2>2. Sound(FactoryConfiguration(Note))
    BY <2>1, FactorySound
  <2>3. Sound(Capture)'
    BY <1>3, <2>2, BecomeSound
  <2> QED
    BY <1>1, <1>3, <2>3, BrightnessAssumption DEF PanelInv
<1> QED
  BY <1>2, <1>3 DEF Restart

LEMMA ConfigKept ==
  ASSUME Sound(Capture), UNCHANGED configVars
  PROVE  Sound(Capture)'
BY DEF Sound, Capture, configVars

LEMMA PanelInitSound ==
  ASSUME PanelInit
  PROVE  PanelInv
<1>1. Note # {}
  BY SomeNote
<1>2. Capture = FactoryConfiguration(Note)
  BY DEF PanelInit, Capture, FactoryConfiguration
<1> QED
  BY <1>1, <1>2, FactorySound, BrightnessAssumption DEF PanelInit, PanelInv

LEMMA PanelNextSound ==
  ASSUME PanelInv, [PanelNext]_panelVars
  PROVE  PanelInv'
<1>1. CASE \E n \in Note : ToggleNote(n)
  BY <1>1, ToggleNoteSound
<1>2. CASE \E by \in {1, NoteCount - 1} : RotateScale(by)
  BY <1>2, RotateScaleSound
<1>3. CASE \E s \in ChannelScalar, v \in Value : SelectScalar(s, v)
  BY <1>3, SelectScalarSound
<1>4. CASE \E stored \in SUBSET Note : LoadScale(stored)
  BY <1>4, LoadScaleSound
<1>5. CASE ToggleSampleMode \/ ToggleChannelBMode
  BY <1>5, ToggleSampleModeSound, ToggleChannelBModeSound
<1>6. CASE \E c \in Channel : SelectChannel(c)
  BY <1>6, SelectChannelSound
<1>7. CASE ToggleLink
  BY <1>7, ToggleLinkSound
<1>8. CASE \E s \in ArpScalar, v \in Value : SelectArpScalar(s, v)
  BY <1>8, SelectArpScalarSound
<1>9. CASE ToggleStepTrigger \/ ToggleArp \/ ToggleLayer
  BY <1>9, ToggleStepTriggerSound, ToggleArpSound, ToggleLayerSound
<1>10. CASE \/ \E r \in StoredRecords : LoadConfiguration(r)
            \/ \E notes \in FactoryScales : LoadFactoryPreset(notes)
  BY <1>10, LoadSound
<1>11. CASE \E b \in Brightness : SaveBrightness(b)
  BY <1>11, ConfigKept DEF SaveBrightness, PanelInv
<1>12. CASE Autosave
  BY <1>12, ConfigKept DEF Autosave, PanelInv, configVars
<1>13. CASE Restart
  BY <1>13, RestartSound
<1>14. CASE UNCHANGED panelVars
  BY <1>14, ConfigKept DEF panelVars, PanelInv
<1> QED
  BY <1>1, <1>2, <1>3, <1>4, <1>5, <1>6, <1>7, <1>8, <1>9, <1>10, <1>11, <1>12,
     <1>13, <1>14
  DEF PanelNext, PanelOperation

(* Every reachable configuration is sound, whatever the operations, their order
   and the records a restart or a preset brings. *)
THEOREM PanelSound == PanelSpec => []PanelInv
BY PanelInitSound, PanelNextSound, PTL DEF PanelSpec

-----------------------------------------------------------------------------
(* The properties *)

LEMMA SoundGives ==
  ASSUME PanelInv
  PROVE  PanelTypeOK /\ NoHiddenArpeggio /\ LinkedChannelsAgree
<1>1. PanelTypeOK
  BY DEF PanelInv, Sound, PanelTypeOK
<1>2. NoHiddenArpeggio
  BY SoundParts DEF PanelInv, NoHiddenArpeggio, EnabledArps
<1>3. LinkedChannelsAgree
  BY SoundParts DEF PanelInv, LinkedChannelsAgree
<1> QED
  BY <1>1, <1>2, <1>3

(* The variables of the panel keep their types. *)
THEOREM PanelTypeCorrect == PanelSpec => []PanelTypeOK
BY PanelSound, SoundGives, PTL

(* No arpeggio runs behind the quantizer layer. *)
THEOREM ArpeggioNeverHidden == PanelSpec => []NoHiddenArpeggio
BY PanelSound, SoundGives, PTL

(* Linked channels agree in scale, scalars and arpeggiator, with A selected. *)
THEOREM LinkedStayEqual == PanelSpec => []LinkedChannelsAgree
BY PanelSound, SoundGives, PTL

-----------------------------------------------------------------------------
(* A sound configuration comes back from its record as it was. *)

LEMMA InRangeUnclamped ==
  ASSUME NEW S, NEW f \in [S -> Value]
  PROVE  Clamped(f) = f
BY PanelAssumption DEF Clamped, Value

LEMMA SoundRoundTrip ==
  ASSUME NEW c, Sound(c)
  PROVE  /\ Decode(Encode(c)) = c
         /\ DecodeLive(Encode(c), FALSE) = c
         /\ Applied(c) = c
<1>1. /\ c \in Configuration
      /\ \A x \in Channel : c.channel[x].notes # {}
      /\ c.layer = "quantizer" => \A x \in Channel : ~c.arp[x].enabled
      /\ c.linked => c.arp["A"] = c.arp["B"] /\ c.selected = "A"
  BY DEF Sound
<1>2. /\ c.channel \in [Channel -> ChannelConfig]
      /\ c.arp \in [Channel -> ArpeggiatorConfig]
      /\ c.layer \in UiLayer
  BY <1>1 DEF Configuration
<1>3. \A x \in Channel : DecodeChannelConfig(c.channel[x]) = c.channel[x]
  BY <1>1, <1>2, InRangeUnclamped DEF DecodeChannelConfig, ChannelConfig, SampleMode
<1>4. \A x \in Channel : DecodeArpeggiatorConfig(c.arp[x]) = c.arp[x]
  BY <1>2, InRangeUnclamped DEF DecodeArpeggiatorConfig, ArpeggiatorConfig
<1> DEFINE r == Encode(c)
<1>5. /\ r.linked = c.linked /\ r.channelBMode = c.channelBMode
      /\ r.channel = c.channel /\ r.arp = c.arp /\ r.selected = c.selected
      /\ r.layerBit = (c.layer = "arpeggiator")
  BY DEF Encode
<1> HIDE DEF r
<1>6. DecodedLayer(r) = c.layer
  BY <1>1, <1>2, <1>5 DEF DecodedLayer, UiLayer
<1>7. [x \in Channel |-> DecodeChannelConfig(r.channel[x])] = c.channel
  BY <1>2, <1>3, <1>5
<1>8. \A x \in Channel : c.arp[IF c.linked THEN "A" ELSE x] = c.arp[x]
  BY <1>1 DEF Channel
<1>9. [x \in Channel |-> DecodeArpeggiatorConfig(r.arp[IF r.linked THEN "A" ELSE x])] = c.arp
  BY <1>2, <1>4, <1>5, <1>8
<1>10. Decode(r) = c
  <2>1. Decode(r) = [linked |-> c.linked, channelBMode |-> c.channelBMode,
                     channel |-> c.channel, arp |-> c.arp,
                     selected |-> IF c.linked THEN "A" ELSE c.selected,
                     layer |-> c.layer]
    BY <1>5, <1>6, <1>7, <1>9 DEF Decode
  <2> QED
    BY <1>1, <2>1 DEF Configuration
<1>11. [x \in Channel |-> c.arp[IF c.linked THEN "A" ELSE x]] = c.arp
  BY <1>2, <1>8
<1>12. Applied(c) = c
  <2> DEFINE arps == [x \in Channel |-> c.arp[IF c.linked THEN "A" ELSE x]]
  <2> DEFINE lay == IF \E x \in Channel : arps[x].enabled THEN "arpeggiator" ELSE c.layer
  <2> DEFINE sel == IF c.linked THEN "A" ELSE c.selected
  <2>1. Applied(c) = [c EXCEPT !.arp = arps, !.selected = sel, !.layer = lay]
    BY DEF Applied
  <2>2. arps = c.arp
    BY <1>11
  <2>3. lay = c.layer
    BY <1>1, <1>2, <2>2 DEF UiLayer
  <2>4. sel = c.selected
    BY <1>1
  <2> HIDE DEF arps, lay, sel
  <2> QED
    BY <1>1, <2>1, <2>2, <2>3, <2>4 DEF Configuration
<1>13. DecodeLive(r, FALSE) = c
  BY <1>10 DEF DecodeLive
<1> QED
  BY <1>10, <1>12, <1>13 DEF r

LEMMA SoundRestores ==
  ASSUME PanelInv
  PROVE  RestoreIsExact
<1>1. PICK c : c = Capture
  OBVIOUS
<1>2. Sound(c)
  BY <1>1 DEF PanelInv
<1>3. /\ Applied(Decode(Encode(c))) = c
      /\ Applied(DecodeLive(Encode(c), FALSE)) = c
  BY <1>2, SoundRoundTrip
<1> QED
  BY <1>1, <1>3 DEF RestoreIsExact

(* A record written in any reachable state restores that state exactly. *)
THEOREM RestoreExact == PanelSpec => []RestoreIsExact
BY PanelSound, SoundRestores, PTL


-----------------------------------------------------------------------------
(* Every operation but a restart marks what it changes. *)

LEMMA OperationMarks ==
  ASSUME PanelInv, PanelInv', PanelNext, ~Restart,
         <<Capture, brightness>>' # <<Capture, brightness>>
  PROVE  liveDirty'
<1>1. Capture \in Configuration /\ Capture' \in Configuration
  BY DEF PanelInv, Sound
<1>2. CASE MarkChange /\ brightness' = brightness
  <2>1. Capture' # Capture
    BY <1>2
  <2> QED
    BY <1>1, <1>2, <2>1, MarkMarks
<1>3. CASE liveDirty' = TRUE
  BY <1>3
<1>4. CASE Autosave
  <2>1. Capture' = Capture /\ brightness' = brightness
    BY <1>4 DEF Autosave, configVars, Capture
  <2> QED
    BY <2>1
<1>5. ASSUME NEW n \in Note, ToggleNote(n) PROVE MarkChange /\ brightness' = brightness
  BY <1>5 DEF ToggleNote, EditChannels
<1>6. ASSUME NEW by \in {1, NoteCount - 1}, RotateScale(by)
      PROVE  MarkChange /\ brightness' = brightness
  BY <1>6 DEF RotateScale, EditChannels
<1>7. ASSUME NEW s \in ChannelScalar, NEW v \in Value, SelectScalar(s, v)
      PROVE  MarkChange /\ brightness' = brightness
  BY <1>7 DEF SelectScalar, EditChannels
<1>8. ASSUME NEW stored \in SUBSET Note, LoadScale(stored)
      PROVE  MarkChange /\ brightness' = brightness
  BY <1>8 DEF LoadScale, EditChannels
<1>9. ASSUME ToggleSampleMode \/ ToggleChannelBMode \/ ToggleLink \/ ToggleArp
      PROVE  MarkChange /\ brightness' = brightness
  BY <1>9 DEF ToggleSampleMode, ToggleChannelBMode, ToggleLink, ToggleArp
<1>10. ASSUME NEW c \in Channel, SelectChannel(c)
       PROVE  MarkChange /\ brightness' = brightness
  BY <1>10 DEF SelectChannel
<1>11. ASSUME NEW s \in ArpScalar, NEW v \in Value, SelectArpScalar(s, v)
       PROVE  MarkChange /\ brightness' = brightness
  BY <1>11 DEF SelectArpScalar, EditArps
<1>12. ASSUME ToggleStepTrigger PROVE MarkChange /\ brightness' = brightness
  BY <1>12 DEF ToggleStepTrigger, EditArps
<1>13. ASSUME NEW r \in StoredRecords, LoadConfiguration(r)
       PROVE  MarkChange /\ brightness' = brightness
  BY <1>13 DEF LoadConfiguration
<1>14. ASSUME NEW notes \in FactoryScales, LoadFactoryPreset(notes)
       PROVE  MarkChange /\ brightness' = brightness
  BY <1>14 DEF LoadFactoryPreset
<1>15. ASSUME NEW b \in Brightness, SaveBrightness(b) PROVE liveDirty' = TRUE
  BY <1>15 DEF SaveBrightness
<1>16. ASSUME ToggleLayer PROVE liveDirty' = TRUE
  BY <1>16 DEF ToggleLayer
<1>17. PanelOperation \/ Autosave
  BY DEF PanelNext
<1> QED
  BY <1>2, <1>3, <1>4, <1>5, <1>6, <1>7, <1>8, <1>9, <1>10, <1>11, <1>12, <1>13,
     <1>14, <1>15, <1>16, <1>17
  DEF PanelOperation

(* Whatever a live record would hold is marked for the autosave when it
   changes. *)
THEOREM AllChangesMarked == PanelSpec => ChangesAreMarked
<1>1. ASSUME PanelInv, PanelInv', [PanelNext]_panelVars
      PROVE  [ <<Capture, brightness>>' # <<Capture, brightness>> /\ ~Restart
                 => liveDirty' ]_panelVars
  BY <1>1, OperationMarks
<1> QED
  BY <1>1, PanelSound, PTL DEF PanelSpec, ChangesAreMarked

-----------------------------------------------------------------------------
(***************************************************************************)
(* The menu                                                                *)
(***************************************************************************)


LEMMA KeyIsOperation ==
  ASSUME NEW m, NEW in,
         \/ SelectValue(m, in) \/ ShiftKey(m, in) \/ NoteKey(m, in)
         \/ SaveKey(m) \/ LoadKey(m)
  PROVE  PanelOperation \/ UNCHANGED panelVars
<1>1. CASE SelectValue(m, in)
  BY <1>1 DEF SelectValue, PanelOperation
<1>2. CASE ShiftKey(m, in)
  <2>1. CASE QuantizerShiftKey(m)
    BY <2>1 DEF QuantizerShiftKey, PanelOperation, OpenSubMenu
  <2>2. CASE ArpeggiatorShiftKey(m)
    BY <2>2 DEF ArpeggiatorShiftKey, PanelOperation, OpenSubMenu
  <2>3. CASE ToggleLink \/ \E c \in Channel : SelectChannel(c)
    BY <2>3 DEF PanelOperation
  <2> QED
    BY <1>2, <2>1, <2>2, <2>3 DEF ShiftKey
<1>3. CASE NoteKey(m, in)
  BY <1>3 DEF NoteKey, PanelOperation
<1>4. CASE SaveKey(m)
  BY <1>4 DEF SaveKey
<1>5. CASE LoadKey(m)
  <2>1. CASE LoadSlot(m)
    BY <2>1 DEF LoadSlot, PanelOperation
  <2> QED
    BY <1>5, <2>1 DEF LoadKey
<1> QED
  BY <1>1, <1>2, <1>3, <1>4, <1>5

(* The brightness that a calibration saves is one of the settings. *)
BrightnessInv == brightness \in Brightness /\ workingBrightness \in Brightness

LEMMA TickIsOperation ==
  ASSUME BrightnessInv, Tick
  PROVE  PanelOperation \/ UNCHANGED panelVars
<1>1. PICK in : MenuTick(in) \/ ComboTick(in) \/ CalibrationTick(in)
  BY DEF Tick
<1>2. CASE MenuTick(in)
  <2>1. PICK m, erased :
          \/ SelectValue(m, in) \/ ShiftKey(m, in) \/ NoteKey(m, in)
          \/ SaveKey(m) \/ LoadKey(m)
          \/ OtherKey(m, in)
          \/ FeedbackEnds(m, erased)
    BY <1>2 DEF MenuTick
  <2>2. CASE OtherKey(m, in) \/ FeedbackEnds(m, erased)
    BY <2>2 DEF OtherKey, FeedbackEnds
  <2> QED
    BY <2>1, <2>2, KeyIsOperation
<1>3. CASE ComboTick(in)
  BY <1>3 DEF ComboTick
<1>4. CASE CalibrationTick(in)
  <2>1. CASE EditBrightness(in)
    BY <2>1 DEF EditBrightness
  <2>2. CASE HoldShiftAlone(in)
    BY <2>2 DEF HoldShiftAlone, PanelOperation, BrightnessInv
  <2> QED
    BY <1>4, <2>1, <2>2 DEF CalibrationTick, CalibrationBlink
<1> QED
  BY <1>1, <1>2, <1>3, <1>4

LEMMA StepIsPanelStep ==
  ASSUME BrightnessInv, [Next]_vars
  PROVE  [PanelNext]_panelVars
<1>1. CASE Tick
  BY <1>1, TickIsOperation DEF PanelNext
<1>2. CASE GestureTick
  BY <1>2 DEF GestureTick, PanelNext, PanelOperation
<1>3. CASE AutosaveTick
  BY <1>3 DEF AutosaveTick, PanelNext
<1>4. CASE RestartTick
  BY <1>4 DEF RestartTick, PanelNext
<1>5. CASE UNCHANGED vars
  BY <1>5 DEF vars
<1> QED
  BY <1>1, <1>2, <1>3, <1>4, <1>5 DEF Next

LEMMA OperationKeepsBrightness ==
  ASSUME brightness \in Brightness, PanelOperation
  PROVE  brightness' \in Brightness
<1>1. CASE \E b \in Brightness : SaveBrightness(b)
  BY <1>1 DEF SaveBrightness
<1>2. CASE \/ \E n \in Note : ToggleNote(n)
           \/ \E by \in {1, NoteCount - 1} : RotateScale(by)
           \/ \E s \in ChannelScalar, v \in Value : SelectScalar(s, v)
           \/ \E stored \in SUBSET Note : LoadScale(stored)
  BY <1>2 DEF ToggleNote, RotateScale, SelectScalar, LoadScale, EditChannels
<1>3. CASE \/ ToggleSampleMode \/ ToggleChannelBMode \/ ToggleLink
           \/ \E c \in Channel : SelectChannel(c)
  BY <1>3 DEF ToggleSampleMode, ToggleChannelBMode, ToggleLink, SelectChannel
<1>4. CASE \/ \E s \in ArpScalar, v \in Value : SelectArpScalar(s, v)
           \/ ToggleStepTrigger \/ ToggleArp \/ ToggleLayer
  BY <1>4 DEF SelectArpScalar, ToggleStepTrigger, EditArps, ToggleArp, ToggleLayer
<1>5. CASE \/ \E r \in StoredRecords : LoadConfiguration(r)
           \/ \E notes \in FactoryScales : LoadFactoryPreset(notes)
  BY <1>5 DEF LoadConfiguration, LoadFactoryPreset
<1> QED
  BY <1>1, <1>2, <1>3, <1>4, <1>5 DEF PanelOperation

LEMMA TickKeepsWorking ==
  ASSUME BrightnessInv, Tick
  PROVE  workingBrightness' \in Brightness
<1>1. PICK in : MenuTick(in) \/ ComboTick(in) \/ CalibrationTick(in)
  BY DEF Tick
<1>2. CASE MenuTick(in)
  BY <1>2 DEF MenuTick, BrightnessInv
<1>3. CASE ComboTick(in)
  BY <1>3 DEF ComboTick, calVars, BrightnessInv
<1>4. CASE CalibrationTick(in)
  BY <1>4 DEF CalibrationTick, CalibrationBlink, EditBrightness, HoldShiftAlone, BrightnessInv
<1> QED
  BY <1>1, <1>2, <1>3, <1>4

LEMMA StepKeepsBrightness ==
  ASSUME BrightnessInv, [Next]_vars
  PROVE  BrightnessInv'
<1>1. CASE Tick
  <2>1. brightness' \in Brightness
    BY <1>1, TickIsOperation, OperationKeepsBrightness DEF BrightnessInv, panelVars
  <2> QED
    BY <1>1, <2>1, TickKeepsWorking DEF BrightnessInv
<1>2. CASE GestureTick
  BY <1>2 DEF GestureTick, ToggleLayer, BrightnessInv
<1>3. CASE AutosaveTick
  BY <1>3 DEF AutosaveTick, Autosave, menuVars, calVars, BrightnessInv
<1>4. CASE RestartTick
  BY <1>4, BrightnessAssumption DEF RestartTick, Restart, BrightnessInv
<1>5. CASE UNCHANGED vars
  BY <1>5 DEF vars, panelVars, menuVars, calVars, BrightnessInv
<1> QED
  BY <1>1, <1>2, <1>3, <1>4, <1>5 DEF Next

(* Every behaviour of the menu is one of the panel. *)
THEOREM MenuImplementsPanel == Spec => ImplementsPanel
<1>1. Init => PanelInit /\ BrightnessInv
  BY BrightnessAssumption DEF Init, PanelInit, MenuInit, BrightnessInv
<1>2. Spec => []BrightnessInv
  BY <1>1, StepKeepsBrightness, PTL DEF Spec
<1> QED
  BY <1>1, <1>2, StepIsPanelStep, PTL DEF Spec, PanelSpec, ImplementsPanel

-----------------------------------------------------------------------------
(***************************************************************************)
(* The pages                                                               *)
(***************************************************************************)

ScalarPages == [page : {"scalar"}, which : ChannelScalar \cup ArpScalar,
                status : SubMenuStatus]
SelectPages == [page : {"selectSave", "selectLoad"}, slots : {"scale", "full"}]
PlainPages  == [page : Page \ {"scalar", "selectSave", "selectLoad"}]

LEMMA PagesByName ==
  ASSUME NEW m \in MenuState
  PROVE  /\ m.page \in Page
         /\ m.page = "scalar" => m \in ScalarPages
         /\ m.page \in {"selectSave", "selectLoad"} => m \in SelectPages
BY DEF MenuState, ScalarPages, SelectPages, Page

LEMMA PlainIsState ==
  ASSUME NEW page \in Page \ {"scalar", "selectSave", "selectLoad"}
  PROVE  Plain(page) \in MenuState /\ Plain(page).page = page
BY DEF Plain, MenuState

(* What the keys are looked at on: the page shown, or one that SHIFT, SAVE and
   LOAD have led to, but no other page of a setting. *)
LEMMA BeforeKey ==
  ASSUME menu \in MenuState, NEW in, NEW erased,
         NEW m, m = AfterButtons(AfterShift(in), in, erased)
  PROVE  /\ m \in MenuState
         /\ m.page = "scalar" =>
              /\ menu.page = "scalar" /\ m.which = menu.which
              /\ m.status = "exitOnButtonRelease" => menu.status = "exitOnButtonRelease"
<1> DEFINE a == AfterShift(in)
<1>1. /\ a \in MenuState
      /\ a.page = "scalar" =>
           /\ menu.page = "scalar" /\ a.which = menu.which
           /\ a.status = "exitOnButtonRelease" => menu.status = "exitOnButtonRelease"
  <2>1. CASE menu.page = "scalar"
    <3>1. menu \in ScalarPages  BY <2>1, PagesByName
    <3>2. \/ a = menu \/ a = Plain("main")
          \/ a = [menu EXCEPT !.status = "exitOnShiftRelease"]
      BY <3>1 DEF AfterShift, ScalarPages, SubMenuStatus
    <3>3. CASE a = [menu EXCEPT !.status = "exitOnShiftRelease"]
      <4>1. a \in ScalarPages /\ a.status = "exitOnShiftRelease" /\ a.which = menu.which
        BY <3>1, <3>3 DEF ScalarPages, SubMenuStatus
      <4>2. a \in MenuState  BY <4>1 DEF MenuState, ScalarPages
      <4> HIDE DEF a
      <4> QED  BY <2>1, <4>1, <4>2
    <3>4. CASE a = Plain("main")
      <4>1. a \in MenuState /\ a.page = "main"  BY <3>4, PlainIsState DEF Page
      <4> QED  BY <4>1
    <3>5. CASE a = menu  BY <3>5, <2>1
    <3> QED  BY <3>2, <3>3, <3>4, <3>5
  <2>2. CASE menu.page # "scalar"
    <3>1. a = menu  BY <2>2 DEF AfterShift
    <3> HIDE DEF a
    <3> QED  BY <2>2, <3>1
  <2> QED  BY <2>1, <2>2
<1> HIDE DEF a
<1>2. \/ m = a \/ m = Plain("main") \/ m = Plain("confirmErase")
      \/ \E page \in {"selectSave", "selectLoad"}, slots \in {"scale", "full"} :
           m = [page |-> page, slots |-> slots]
  BY DEF AfterButtons, SlotPage, a
<1>3. CASE m = a  BY <1>1, <1>3
<1>4. CASE m = Plain("main") \/ m = Plain("confirmErase")
  <2>1. m \in MenuState /\ m.page \in {"main", "confirmErase"}
    BY <1>4, PlainIsState DEF Page
  <2> QED  BY <2>1
<1>5. CASE \E page \in {"selectSave", "selectLoad"}, slots \in {"scale", "full"} :
             m = [page |-> page, slots |-> slots]
  <2>1. m \in SelectPages /\ m.page # "scalar"  BY <1>5 DEF SelectPages
  <2>2. m \in MenuState  BY <2>1 DEF MenuState, SelectPages
  <2> QED  BY <2>1, <2>2
<1> QED  BY <1>2, <1>3, <1>4, <1>5

PageShown == menu \in MenuState /\ SubMenuCanClose /\ SubMenuInItsLayer

(* A page without a setting satisfies both rules of the pages with one. *)
LEMMA OtherPageShown ==
  ASSUME menu' \in MenuState, menu'.page # "scalar"
  PROVE  PageShown'
BY DEF PageShown, SubMenuCanClose, SubMenuInItsLayer

LEMMA PlainPageShown ==
  ASSUME NEW page \in Page \ {"scalar", "selectSave", "selectLoad"}, menu' = Plain(page)
  PROVE  PageShown' /\ menu'.page = page
BY PlainIsState, OtherPageShown

LEMMA OpenedPageShown ==
  ASSUME NEW s, OpenSubMenu(s),
         \/ layer = "quantizer" /\ s \in ChannelScalar
         \/ layer = "arpeggiator" /\ s \in ArpScalar
  PROVE  PageShown'
<1>1. menu' \in ScalarPages /\ menu'.which = s /\ menu'.status = "awaitingInput"
  BY DEF OpenSubMenu, ScalarPages, SubMenuStatus
<1>2. menu' \in MenuState  BY <1>1 DEF MenuState, ScalarPages
<1>3. layer' = layer  BY DEF OpenSubMenu, panelVars, configVars
<1> QED  BY <1>1, <1>2, <1>3 DEF PageShown, SubMenuCanClose, SubMenuInItsLayer

(* The page a note key leads to. *)
LEMMA KeyKeepsPages ==
  ASSUME NEW m \in MenuState, NEW in, in.key = "pressed", keyDown' = KeyDownAfter(in.key),
         m.page = "scalar" =>
           m.which \in (IF layer = "quantizer" THEN ChannelScalar ELSE ArpScalar),
         \/ SelectValue(m, in) \/ ShiftKey(m, in) \/ NoteKey(m, in)
         \/ SaveKey(m) \/ LoadKey(m)
  PROVE  PageShown'
<1>1. CASE SelectValue(m, in)
  <2>1. m \in ScalarPages /\ keyDown' = TRUE
    BY <1>1, PagesByName DEF SelectValue, KeyDownAfter
  <2>2. layer' = layer
    BY <1>1 DEF SelectValue, SelectScalar, SelectArpScalar, EditChannels, EditArps
  <2>3. CASE menu' = Plain("main")  BY <2>3, PlainPageShown DEF Page
  <2>4. CASE menu' # Plain("main")
    <3>1. PICK status \in SubMenuStatus : menu' = [m EXCEPT !.status = status]
      BY <1>1, <2>4 DEF SelectValue, SubMenuStatus
    <3>2. menu' \in ScalarPages /\ menu'.which = m.which /\ menu'.page = m.page
      BY <2>1, <3>1 DEF ScalarPages
    <3>3. menu' \in MenuState  BY <3>2 DEF MenuState, ScalarPages
    <3> QED
      BY <1>1, <2>1, <2>2, <3>2, <3>3
         DEF SelectValue, PageShown, SubMenuCanClose, SubMenuInItsLayer
  <2> QED  BY <2>3, <2>4
<1>2. CASE ShiftKey(m, in)
  <2>1. m.page = "main"  BY <1>2 DEF ShiftKey
  <2>2. CASE menu' = m  BY <2>1, <2>2, OtherPageShown
  <2>3. CASE ShowFeedback  BY <2>3, PlainPageShown DEF ShowFeedback, Page
  <2>4. CASE \/ layer = "quantizer" /\ \E s \in ChannelScalar : OpenSubMenu(s)
             \/ layer = "arpeggiator" /\ \E s \in ArpScalar : OpenSubMenu(s)
    BY <2>4, OpenedPageShown
  <2> QED
    BY <1>2, <2>2, <2>3, <2>4 DEF ShiftKey, QuantizerShiftKey, ArpeggiatorShiftKey
<1>3. CASE NoteKey(m, in)
  <2>1. menu' = m /\ m.page = "main"  BY <1>3 DEF NoteKey
  <2> QED  BY <2>1, OtherPageShown
<1>4. CASE SaveKey(m)
  <2>1. CASE menu' = m  BY <1>4, <2>1, OtherPageShown DEF SaveKey
  <2>2. CASE menu' = Plain("confirmSave")  BY <2>2, PlainPageShown DEF Page
  <2> QED  BY <1>4, <2>1, <2>2 DEF SaveKey
<1>5. CASE LoadKey(m)
  <2>1. CASE menu' = m  BY <1>5, <2>1, OtherPageShown DEF LoadKey
  <2>2. CASE menu' = Plain("main")  BY <2>2, PlainPageShown DEF Page
  <2> QED  BY <1>5, <2>1, <2>2 DEF LoadKey
<1> QED  BY <1>1, <1>2, <1>3, <1>4, <1>5

(* What is held down, as far as the pages depend on it. *)
HeldTyped ==
  /\ {shiftWasPressed, comboTimed, shiftAloneTimed, keyDown} \subseteq BOOLEAN
  /\ {saveButton, loadButton} \subseteq {"up", "short", "long"}

LEMMA SampledTyped ==
  ASSUME HeldTyped, NEW in \in Inputs, Sampled(in)
  PROVE  /\ {shiftWasPressed', keyDown'} \subseteq BOOLEAN
         /\ {saveButton', loadButton'} \subseteq {"up", "short", "long"}
<1>1. in.shift \in BOOLEAN /\ in.save \in Reports(saveButton) /\ in.load \in Reports(loadButton)
  BY DEF Inputs
<1>2. ASSUME NEW b \in {"up", "short", "long"}, NEW r \in Reports(b)
      PROVE  After(r) \in {"up", "short", "long"}
  BY <1>2 DEF Reports, After
<1>3. KeyDownAfter(in.key) \in BOOLEAN  BY DEF KeyDownAfter
<1> QED  BY <1>1, <1>2, <1>3 DEF HeldTyped, Sampled

PageInv == PageShown /\ HeldTyped /\ ChordClosesPages

LEMMA MenuTickKeepsPages ==
  ASSUME PageInv, NEW in \in Inputs, Sampled(in), MenuTick(in)
  PROVE  PageInv'
<1>1. comboTimed' = FALSE /\ shiftAloneTimed' = shiftAloneTimed  BY DEF MenuTick
<1>2. HeldTyped'  BY <1>1, SampledTyped DEF PageInv, HeldTyped
<1>3. PICK erased, m :
        /\ m = AfterButtons(AfterShift(in), in, erased)
        /\ \/ /\ in.key = "pressed"
              /\ \/ SelectValue(m, in) \/ ShiftKey(m, in) \/ NoteKey(m, in)
                 \/ SaveKey(m) \/ LoadKey(m)
           \/ OtherKey(m, in)
           \/ FeedbackEnds(m, erased)
  BY DEF MenuTick
<1>4. /\ m \in MenuState
      /\ m.page = "scalar" =>
           /\ menu.page = "scalar" /\ m.which = menu.which
           /\ m.status = "exitOnButtonRelease" => menu.status = "exitOnButtonRelease"
  BY <1>3, BeforeKey DEF PageInv, PageShown
<1>5. m.page = "scalar" =>
        m.which \in (IF layer = "quantizer" THEN ChannelScalar ELSE ArpScalar)
  BY <1>4 DEF PageInv, PageShown, SubMenuInItsLayer
<1>6. keyDown' = KeyDownAfter(in.key)  BY DEF Sampled
<1>7. PageShown'
  <2>1. CASE OtherKey(m, in)
    <3>1. layer' = layer  BY <2>1 DEF OtherKey, panelVars, configVars
    <3>2. CASE menu' = Plain("main")  BY <3>2, PlainPageShown DEF Page
    <3>3. CASE menu' = m /\ m.page # "scalar"  BY <1>4, <3>3, OtherPageShown
    <3>4. CASE menu' = m /\ m.page = "scalar" /\ menu' # Plain("main")
      <4>1. m.status = "exitOnButtonRelease" => keyDown' = TRUE
        <5> SUFFICES ASSUME m.status = "exitOnButtonRelease"  PROVE keyDown' = TRUE
          OBVIOUS
        <5>1. keyDown = TRUE
          BY <1>4, <3>4 DEF PageInv, PageShown, SubMenuCanClose, HeldTyped
        <5>2. in.key \in {"pressed", "released", "held"}
          BY <5>1 DEF Inputs, KeyEvents
        <5>3. in.key # "released"  BY <2>1, <3>4 DEF OtherKey
        <5> QED  BY <1>6, <5>2, <5>3 DEF KeyDownAfter
      <4> QED
        BY <1>4, <1>5, <3>1, <3>4, <4>1 DEF PageShown, SubMenuCanClose, SubMenuInItsLayer
    <3> QED  BY <2>1, <3>2, <3>3, <3>4 DEF OtherKey
  <2>2. CASE FeedbackEnds(m, erased)
    BY <2>2, PlainPageShown DEF FeedbackEnds, Page
  <2>3. CASE /\ in.key = "pressed"
             /\ \/ SelectValue(m, in) \/ ShiftKey(m, in) \/ NoteKey(m, in)
                \/ SaveKey(m) \/ LoadKey(m)
    BY <1>4, <1>5, <1>6, <2>3, KeyKeepsPages
  <2> QED  BY <1>3, <2>1, <2>2, <2>3
<1> QED  BY <1>1, <1>2, <1>7 DEF PageInv, ChordClosesPages

LEMMA ComboTickKeepsPages ==
  ASSUME PageInv, NEW in \in Inputs, Sampled(in), ComboTick(in)
  PROVE  PageInv'
<1>1. /\ comboTimed' \in BOOLEAN /\ shiftAloneTimed' \in BOOLEAN
  BY DEF ComboTick, calVars, PageInv, HeldTyped
<1>2. HeldTyped'  BY <1>1, SampledTyped DEF PageInv, HeldTyped
<1>3. CASE menu' = Plain("main")
  BY <1>2, <1>3, PlainPageShown DEF PageInv, ChordClosesPages, Page
<1>4. CASE menu' = Plain("calEntering") /\ comboTimed' = FALSE
  BY <1>2, <1>4, PlainPageShown DEF PageInv, ChordClosesPages, Page
<1>5. CASE comboTimed /\ menu' = menu
  <2>1. menu.page = "main" /\ menu \in MenuState
    BY <1>5 DEF PageInv, PageShown, ChordClosesPages
  <2> QED  BY <1>2, <1>5, <2>1, OtherPageShown DEF PageInv, ChordClosesPages
<1> QED  BY <1>3, <1>4, <1>5 DEF ComboTick

LEMMA CalibrationTickKeepsPages ==
  ASSUME PageInv, NEW in \in Inputs, Sampled(in), CalibrationTick(in)
  PROVE  PageInv'
<1>1. comboTimed' = comboTimed /\ menu.page \in CalibrationPage  BY DEF CalibrationTick
<1>2. ~comboTimed  BY <1>1 DEF PageInv, ChordClosesPages, CalibrationPage
<1>3. shiftAloneTimed' \in BOOLEAN
  BY DEF CalibrationTick, CalibrationBlink, EditBrightness, HoldShiftAlone, PageInv, HeldTyped
<1>4. HeldTyped'  BY <1>1, <1>3, SampledTyped DEF PageInv, HeldTyped
<1>5. \/ menu' = menu \/ menu' = Plain("calActive") \/ menu' = Plain("calSaving")
      \/ menu' = Plain("main")
  BY DEF CalibrationTick, CalibrationBlink, EditBrightness, HoldShiftAlone
<1>6. PageShown'
  <2>1. CASE menu' = menu
    BY <1>1, <2>1, OtherPageShown DEF PageInv, PageShown, CalibrationPage
  <2>2. CASE menu' # menu  BY <1>5, <2>2, PlainPageShown DEF Page
  <2> QED  BY <2>1, <2>2
<1> QED  BY <1>1, <1>2, <1>4, <1>6 DEF PageInv, ChordClosesPages

LEMMA StepKeepsPages ==
  ASSUME PageInv, [Next]_vars
  PROVE  PageInv'
<1>1. CASE Tick
  BY <1>1, MenuTickKeepsPages, ComboTickKeepsPages, CalibrationTickKeepsPages DEF Tick
<1>2. CASE GestureTick
  <2>1. PICK in \in Inputs : Sampled(in)  BY <1>2 DEF GestureTick
  <2>2. comboTimed' = FALSE /\ shiftAloneTimed' = shiftAloneTimed
    BY <1>2 DEF GestureTick
  <2>3. HeldTyped'  BY <2>1, <2>2, SampledTyped DEF PageInv, HeldTyped
  <2>4. PageShown'  BY <1>2, PlainPageShown DEF GestureTick, Page
  <2> QED  BY <2>2, <2>3, <2>4 DEF PageInv, ChordClosesPages
<1>3. CASE RestartTick
  <2>1. HeldTyped'  BY <1>3 DEF RestartTick, HeldTyped
  <2>2. PageShown' /\ comboTimed' = FALSE  BY <1>3, PlainPageShown DEF RestartTick, Page
  <2> QED  BY <2>1, <2>2 DEF PageInv, ChordClosesPages
<1>4. CASE UNCHANGED menuVars /\ layer' = layer
  BY <1>4 DEF menuVars, calVars, inputVars, PageInv, PageShown, HeldTyped, SubMenuCanClose,
              SubMenuInItsLayer, ChordClosesPages
<1> QED
  BY <1>1, <1>2, <1>3, <1>4 DEF Next, AutosaveTick, Autosave, configVars, vars, panelVars

(* The pages belong to what is held down and to the layer shown, for any set of
   settings and in any order of inputs. *)
THEOREM PagesAlwaysConsistent == Spec => []PagesConsistent
<1>1. Init => PageInv
  <2> SUFFICES ASSUME MenuInit  PROVE PageInv
    BY DEF Init
  <2>1. menu \in MenuState /\ menu.page = "main"  BY PlainIsState DEF MenuInit, Page
  <2> QED
    BY <2>1 DEF MenuInit, PageInv, PageShown, HeldTyped, SubMenuCanClose, SubMenuInItsLayer,
                ChordClosesPages
<1>2. Spec => []PageInv  BY <1>1, StepKeepsPages, PTL DEF Spec
<1>3. Init => BrightnessInv
  BY BrightnessAssumption DEF Init, PanelInit, MenuInit, BrightnessInv
<1>4. Spec => []BrightnessInv  BY <1>3, StepKeepsBrightness, PTL DEF Spec
<1>5. Spec => []PanelTypeOK
  BY MenuImplementsPanel, PanelTypeCorrect, PTL DEF ImplementsPanel
<1>6. PageInv /\ BrightnessInv /\ PanelTypeOK => PagesConsistent
  BY DEF PageInv, PageShown, HeldTyped, BrightnessInv, PagesConsistent, MenuTypeOK
<1> QED  BY <1>2, <1>4, <1>5, <1>6, PTL
=============================================================================
