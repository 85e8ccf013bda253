------------------------- MODULE PanelConfiguration -------------------------
(***************************************************************************)
(* The operations of the front panel on the stored configuration           *)
(* (Menu.cpp, ArpeggiatorBank.cpp), the mark that tells the autosave of a  *)
(* change (FirmwareController.cpp), and the restarts that read a record    *)
(* back.  One action per operation, those of a SHIFT menu enabled in its   *)
(* layer; which keys lead to them is the subject of module Menu.           *)
(***************************************************************************)
EXTENDS StoredConfiguration

CONSTANT Brightness  \* LED brightness settings; DefaultBrightness is one
CONSTANT DefaultBrightness

ASSUME BrightnessAssumption == DefaultBrightness \in Brightness

VARIABLES
  linked,           \* quantizer.channelsLinked
  channelBMode,     \* quantizer.channelBMode
  channel,          \* quantizer.channels[].config()
  arp,              \* arpeggiators.config()
  selectedChannel,  \* selectedChannel_
  layer,            \* layer_
  brightness,       \* committedBrightness_
  liveDirty         \* g_liveDirty: the autosave has a change to store

configVars == <<linked, channelBMode, channel, arp, selectedChannel, layer>>
panelVars  == <<configVars, brightness, liveDirty>>

(* captureStoredConfiguration() *)
Capture ==
  [linked |-> linked, channelBMode |-> channelBMode, channel |-> channel,
   arp |-> arp, selected |-> selectedChannel, layer |-> layer]

Become(c) ==
  /\ linked' = c.linked /\ channelBMode' = c.channelBMode
  /\ channel' = c.channel /\ arp' = c.arp
  /\ selectedChannel' = c.selected /\ layer' = c.layer

(* What update() compares: the encoded configuration before and after. *)
MarkChange == liveDirty' = (liveDirty \/ Encode(Capture)' # Encode(Capture))

PanelInit ==
  /\ linked = FALSE /\ channelBMode = "absolute"
  /\ channel = [c \in Channel |-> DefaultChannel(Note)]
  /\ arp = [c \in Channel |-> DefaultArpeggiator]
  /\ selectedChannel = "A" /\ layer = "quantizer"
  /\ brightness = DefaultBrightness /\ liveDirty = FALSE

-----------------------------------------------------------------------------
(* Channels *)

(* The channels an edit goes to. *)
Edited == IF linked THEN Channel ELSE {selectedChannel}

EditChannels(edit) ==
  /\ channel' = [c \in Channel |-> IF c \in Edited THEN edit[c] ELSE channel[c]]
  /\ UNCHANGED <<linked, channelBMode, arp, selectedChannel, layer, brightness>>
  /\ MarkChange

(* Mutant of Toggled: the last note of a scale can be cleared. *)
ToggledFreely(notes, n) == IF n \in notes THEN notes \ {n} ELSE notes \cup {n}

(* The last note of a scale stays. *)
Toggled(notes, n) ==
  IF n \notin notes THEN notes \cup {n}
  ELSE IF notes = {n} THEN notes ELSE notes \ {n}

ToggleNote(n) ==
  EditChannels([c \in Channel |-> [channel[c] EXCEPT !.notes = Toggled(@, n)]])

(* rotateNotesLeft() and rotateNotesRight(): by NoteCount - 1 or by 1. *)
Rotated(notes, by) == {(n + by) % NoteCount : n \in notes}

RotateScale(by) ==
  /\ layer = "quantizer"
  /\ EditChannels([c \in Channel |-> [channel[c] EXCEPT !.notes = Rotated(@, by)]])

SelectScalar(s, v) ==
  EditChannels([c \in Channel |-> [channel[c] EXCEPT !.scalar = [@ EXCEPT ![s] = v]]])

LoadScale(stored) ==
  EditChannels([c \in Channel |->
    [channel[c] EXCEPT !.notes = IF stored = {} THEN Note ELSE stored]])

NextSampleMode(m) ==
  IF ContinuousInUi
    THEN CASE m = "track" -> "sample" [] m = "sample" -> "continuous" [] OTHER -> "track"
    ELSE IF m = "track" THEN "sample" ELSE "track"

(* kSampleModeButtonIndex: the selected channel only, linked or not. *)
ToggleSampleMode ==
  /\ layer = "quantizer"
  /\ channel' = [channel EXCEPT ![selectedChannel].sampleMode = NextSampleMode(@)]
  /\ UNCHANGED <<linked, channelBMode, arp, selectedChannel, layer, brightness>>
  /\ MarkChange

ToggleChannelBMode ==
  /\ layer = "quantizer"
  /\ channelBMode' = IF channelBMode = "relative" THEN "absolute" ELSE "relative"
  /\ UNCHANGED <<linked, channel, arp, selectedChannel, layer, brightness>>
  /\ MarkChange

SelectChannel(c) ==
  /\ selectedChannel' = IF linked THEN selectedChannel ELSE c
  /\ UNCHANGED <<linked, channelBMode, channel, arp, layer, brightness>>
  /\ MarkChange

(* Mutant of ToggleLink: the arpeggiators are not linked with the channels. *)
ToggleLinkChannelsOnly ==
  /\ linked' = ~linked
  /\ channel' = IF linked THEN channel ELSE [c \in Channel |-> channel["A"]]
  /\ selectedChannel' = IF linked THEN selectedChannel ELSE "A"
  /\ UNCHANGED <<channelBMode, arp, layer, brightness>>
  /\ MarkChange

(* Linking copies channel A to channel B. *)
ToggleLink ==
  /\ linked' = ~linked
  /\ channel' = IF linked THEN channel ELSE [c \in Channel |-> channel["A"]]
  /\ arp' = IF linked THEN arp ELSE [c \in Channel |-> arp["A"]]
  /\ selectedChannel' = IF linked THEN selectedChannel ELSE "A"
  /\ UNCHANGED <<channelBMode, layer, brightness>>
  /\ MarkChange

-----------------------------------------------------------------------------
(* Arpeggiators *)

EnabledArps == {c \in Channel : arp[c].enabled}

(* applySelectedConfig() *)
EditArps(config) ==
  /\ arp' = [c \in Channel |-> IF c \in Edited THEN config ELSE arp[c]]
  /\ UNCHANGED <<linked, channelBMode, channel, selectedChannel, layer, brightness>>
  /\ MarkChange

SelectArpScalar(s, v) ==
  EditArps([arp[selectedChannel] EXCEPT !.setting = [@ EXCEPT ![s] = v]])

ToggleStepTrigger ==
  /\ layer = "arpeggiator"
  /\ EditArps([arp[selectedChannel] EXCEPT !.stepTrigger = ~@])

(* setEnabled() on a set of channels *)
WithEnabled(channels, enabled) ==
  [c \in Channel |->
     IF c \in channels THEN [arp[c] EXCEPT !.enabled = enabled] ELSE arp[c]]

(* toggleSelected(): both together when linked. *)
ToggleArp ==
  /\ layer = "arpeggiator"
  /\ arp' = WithEnabled(Edited, ~(Edited \subseteq EnabledArps))
  /\ UNCHANGED <<linked, channelBMode, channel, selectedChannel, layer, brightness>>
  /\ MarkChange

-----------------------------------------------------------------------------
(* The UI layer *)

(* Entering enables the selected arpeggiator, or both with A's settings. *)
EnterArpeggiatorLayer ==
  /\ layer = "quantizer" /\ layer' = "arpeggiator"
  /\ arp' = IF linked THEN [c \in Channel |-> [arp["A"] EXCEPT !.enabled = TRUE]]
            ELSE WithEnabled({selectedChannel}, TRUE)
  /\ selectedChannel' = IF linked THEN "A" ELSE selectedChannel

(* Mutant of LeaveArpeggiatorLayer: only the selected arpeggiator stops. *)
LeaveStoppingSelected ==
  /\ layer = "arpeggiator" /\ layer' = "quantizer"
  /\ arp' = WithEnabled(Edited, FALSE)
  /\ UNCHANGED selectedChannel

(* Leaving stops both. *)
LeaveArpeggiatorLayer ==
  /\ layer = "arpeggiator" /\ layer' = "quantizer"
  /\ arp' = WithEnabled(Channel, FALSE)
  /\ UNCHANGED selectedChannel

(* Mutant of ToggleLayer: dirty only when an arpeggiator changes. *)
ToggleLayerQuietly ==
  /\ EnterArpeggiatorLayer \/ LeaveArpeggiatorLayer
  /\ liveDirty' = (liveDirty \/ arp' # arp)
  /\ UNCHANGED <<linked, channelBMode, channel, brightness>>

(* toggleLayer() as updateUiLayerGesture() calls it: dirty in any case. *)
ToggleLayer ==
  /\ EnterArpeggiatorLayer \/ LeaveArpeggiatorLayer
  /\ liveDirty' = TRUE
  /\ UNCHANGED <<linked, channelBMode, channel, brightness>>

-----------------------------------------------------------------------------
(* Stored configurations *)

LoadConfiguration(r) ==
  /\ Become(Applied(Decode(r)))
  /\ UNCHANGED brightness
  /\ MarkChange

(* An empty slot gives its factory preset. *)
LoadFactoryPreset(notes) ==
  /\ Become(Applied(FactoryConfiguration(notes)))
  /\ UNCHANGED brightness
  /\ MarkChange

(* CalibrationActive: the working brightness is kept. *)
SaveBrightness(b) ==
  /\ brightness' = b /\ liveDirty' = TRUE
  /\ UNCHANGED configVars

(* The live record is queued; module QuantizerPersistence follows it. *)
Autosave ==
  /\ liveDirty /\ liveDirty' = FALSE
  /\ UNCHANGED <<configVars, brightness>>

(* A restart with a live record, or without one. *)
Restart ==
  /\ \/ \E r \in StoredRecords, previousFormat \in BOOLEAN :
          Become(Applied(DecodeLive(r, previousFormat))) /\ brightness' \in Brightness
     \/ Become(FactoryConfiguration(Note)) /\ brightness' = DefaultBrightness
  /\ liveDirty' = FALSE

-----------------------------------------------------------------------------
PanelOperation ==
  \/ \E n \in Note : ToggleNote(n)
  \/ \E by \in {1, NoteCount - 1} : RotateScale(by)
  \/ \E s \in ChannelScalar, v \in Value : SelectScalar(s, v)
  \/ \E stored \in SUBSET Note : LoadScale(stored)
  \/ ToggleSampleMode
  \/ ToggleChannelBMode
  \/ \E c \in Channel : SelectChannel(c)
  \/ ToggleLink
  \/ \E s \in ArpScalar, v \in Value : SelectArpScalar(s, v)
  \/ ToggleStepTrigger
  \/ ToggleArp
  \/ ToggleLayer
  \/ \E r \in StoredRecords : LoadConfiguration(r)
  \/ \E notes \in FactoryScales : LoadFactoryPreset(notes)
  \/ \E b \in Brightness : SaveBrightness(b)

PanelNext == PanelOperation \/ Autosave \/ Restart

PanelSpec == PanelInit /\ [][PanelNext]_panelVars

-----------------------------------------------------------------------------
(* Every variable has its type. *)
PanelTypeOK ==
  /\ Capture \in Configuration
  /\ brightness \in Brightness
  /\ liveDirty \in BOOLEAN

(* An arpeggiator never runs behind the quantizer layer: its SHIFT menu could
   not stop it, and decodeStoredConfiguration() takes such a record for one of
   an older firmware.  Layer changes, presets, links and restarts keep it. *)
NoHiddenArpeggio == layer = "quantizer" => EnabledArps = {}

(* While the channels are linked an edit, a preset or a restart never leaves
   them apart: same scale, same scalars, same arpeggiator, A selected.  (The
   sample mode is the exception: SampleModeShared.) *)
LinkedChannelsAgree ==
  linked => /\ channel["A"].notes = channel["B"].notes
            /\ channel["A"].scalar = channel["B"].scalar
            /\ arp["A"] = arp["B"]
            /\ selectedChannel = "A"

(* "Linked channels share the same scale and channel settings" (README.md:241):
   the sample mode is a channel setting.  Not kept by the code. *)
SampleModeShared ==
  linked => channel["A"].sampleMode = channel["B"].sampleMode

(* A preset or a live record written now, in any reachable state, brings back
   this very configuration: none of the corrections that decoding and applying
   make for other records touches one of our own. *)
RestoreIsExact ==
  LET r == Encode(Capture)
  IN  /\ Applied(Decode(r)) = Capture
      /\ Applied(DecodeLive(r, FALSE)) = Capture

(* Whatever changes what a live record would hold leaves it marked for the
   autosave; only a restart, which has just read a record, does not. *)
ChangesAreMarked ==
  [][ <<Capture, brightness>>' # <<Capture, brightness>> /\ ~Restart
        => liveDirty' ]_panelVars
=============================================================================
