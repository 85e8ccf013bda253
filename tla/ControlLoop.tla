----------------------------- MODULE ControlLoop -----------------------------
(***************************************************************************)
(* FirmwareController: the 1 kHz control loop between the interrupts and   *)
(* the jacks, for one channel.  Timer2's interrupt counts ticks and the    *)
(* ADC's fills the filter at any time; a pass takes all the ticks that     *)
(* wait, reads the filtered inputs, steps the quantizer, serves the panel  *)
(* and then writes the pitch and the trigger it has computed.              *)
(*                                                                         *)
(* A pass may find the Sample/Gate jack high or low; how level and edge    *)
(* latch make up what it finds is in GatedChannel.  Which step the         *)
(* Arpeggiator takes is left open here (ArpeggiatorTiming,                 *)
(* ArpeggiatorFigure): it adds an interval to the pitch, and in its Clock  *)
(* mode it makes the channel sample in every pass.  The EEPROM service at  *)
(* the end of a pass is in QuantizerPersistence.                           *)
(***************************************************************************)
EXTENDS QuantizerChannel, AnalogInputs, PitchConversion

CONSTANTS
    CvInput,            \* the channel's ADC input
    AdcCalibration, DacCalibration,     \* of the channel in the active profile
    PanelSettings,      \* what the panel can set
    ArpIntervals,       \* what the Arpeggiator may add to the pitch
    PendingMaximum      \* where g_pendingSamples saturates, 0xFF

\* The channel, the Arpeggiator, and whether that runs from the clock input.
ChannelSetting ==
    {s \in [config : Configs, arpEnabled : BOOLEAN, forceContinuous : BOOLEAN] :
        s.forceContinuous => s.arpEnabled}

ASSUME LoopAssumption ==
    /\ CvInput \in Channel
    /\ Codes \subseteq AdcCode
    /\ {AdcCalibration, DacCalibration} \subseteq LinearCalibration
    /\ PanelSettings \subseteq ChannelSetting
    /\ ArpIntervals \subseteq Pitch
    /\ PendingMaximum \in Nat \ {0}

VARIABLES
    pending,            \* g_pendingSamples
    phase,              \* where the pass is
    result,             \* QuantizationResult of the pass: pitch and trigger
    arpEnabled,         \* the Arpeggiator is on, with Step Trigger
    arpTriggerTicks,    \* g_arpTriggerTicks
    dac,                \* g_lastDacCode: what the DAC has been sent
    triggerOut,         \* level of the trigger output
    high,               \* history: timer ticks since the output rose or a preset was loaded
    panel,              \* history: was the panel used in this pass or the one before
    moved               \* history: the pass moved the pitch by itself

outputVars == <<dac, triggerOut>>
loopVars == <<pending, phase, result, arpEnabled, arpTriggerTicks, outputVars>>
pastVars == <<high, panel, moved>>
vars == <<analogVars, channelVars, loopVars, pastVars>>

NoResult == [pitch |-> 0, trigger |-> FALSE]  \* between two passes

Unwritten == DacMaximumCode + 1  \* kInvalidDacCode

Phase == {"boot", "idle", "stepped", "written"}

TypeOK ==
    /\ AnalogTypeOK
    /\ ChannelTypeOK
    /\ pending \in 0 .. PendingMaximum
    /\ phase \in Phase
    /\ result \in [pitch : Pitch, trigger : BOOLEAN]
    /\ arpEnabled \in BOOLEAN
    /\ arpTriggerTicks \in 0 .. TriggerCvTimeSamples
    /\ dac \in DacCode \cup {Unwritten}
    /\ triggerOut \in BOOLEAN
    /\ high \in 0 .. TriggerCvTimeSamples
    /\ panel \in {"now", "before", "no"}
    /\ moved \in BOOLEAN

Init ==
    /\ AnalogInit
    /\ ChannelInit
    /\ pending = 0
    /\ phase = "boot"
    /\ result = NoResult
    /\ \E s \in PanelSettings :
        /\ config = s.config /\ forceContinuous = s.forceContinuous
        /\ arpEnabled = s.arpEnabled
    /\ arpTriggerTicks = 0
    /\ dac = Unwritten
    /\ triggerOut = FALSE
    /\ high = TriggerCvTimeSamples
    /\ panel = "no"
    /\ moved = FALSE

-----------------------------------------------------------------------------
(***************************************************************************)
(* Around the loop: the jacks, the interrupts and the start                *)
(***************************************************************************)

TurnKnob ==
    /\ \E c \in Channel : Turn(c)
    /\ UNCHANGED <<channelVars, loopVars, pastVars>>

AdcInterrupt == OnConversion /\ UNCHANGED <<channelVars, loopVars, pastVars>>

TimerInterrupt ==
    /\ phase # "boot"
    /\ pending' = IF pending = PendingMaximum THEN pending ELSE pending + 1
    /\ high' = IF high = TriggerCvTimeSamples THEN high ELSE high + 1
    /\ UNCHANGED <<analogVars, channelVars, phase, result, arpEnabled,
                   arpTriggerTicks, outputVars, panel, moved>>

\* The rest voltage of the ladder is measured; normalisation by it is switched off.
BootRead ==
    /\ phase = "boot" /\ fresh
    /\ BeginCycle
    /\ UNCHANGED <<channelVars, loopVars, pastVars>>

\* Enough values, or the time is up: the loop starts either way.
StartTimer ==
    /\ phase = "boot"
    /\ phase' = "idle"
    /\ pending' = 0
    /\ UNCHANGED <<analogVars, channelVars, result, arpEnabled, arpTriggerTicks,
                   outputVars, pastVars>>

-----------------------------------------------------------------------------
(***************************************************************************)
(* A pass                                                                  *)
(***************************************************************************)

(* Mutant of TakeTicks: a pass for every tick that has been counted. *)
TakeOneTick ==
    /\ pending > 0
    /\ pending' = pending - 1

TakeTicks ==
    /\ pending > 0
    /\ pending' = 0

ActualSemitones == (lastGlideCurrent * One) \div GlideOne

\* Nothing the interrupts touch is used after the copy, so that the whole step of
\* the quantizer belongs to it; an interrupt between sampleReady and beginCycle is
\* as good as one before or after both. The trigger is the level of the jack, or an
\* edge since the last pass.
Process ==
    /\ phase = "idle"
    /\ TakeTicks
    /\ IF fresh THEN BeginCycle ELSE UNCHANGED analogVars
    /\ \E trigger \in BOOLEAN :
         Step(AdcToSemitones(snapshot'[CvInput], AdcCalibration), trigger)
    /\ result' = [pitch |-> ActualSemitones', trigger |-> OutputTrigger']
    /\ phase' = "stepped"
    /\ high' = IF hasLastOutput THEN high ELSE TriggerCvTimeSamples
    /\ UNCHANGED <<arpEnabled, arpTriggerTicks, outputVars, panel, moved>>

(* Mutant of LeavePanel: the suppression is armed by every run of the menu. *)
LeavePanelMuted ==
    /\ panel' = IF panel = "now" THEN "before" ELSE "no"
    /\ EditConfig(config, forceContinuous)
    /\ UNCHANGED arpEnabled

LeavePanel ==
    /\ panel' = IF panel = "now" THEN "before" ELSE "no"
    /\ UNCHANGED <<channelVars, arpEnabled>>

\* The Arpeggiator may be switched, also to the clock, by an edit as well as by a
\* preset.
UsePanel ==
    /\ panel' = "now"
    /\ \E new \in PanelSettings :
        /\ arpEnabled' = new.arpEnabled
        /\ \/ EditConfig(new.config, new.forceContinuous)
           \/ LoadConfig(new.config, new.forceContinuous)

\* What the Arpeggiator makes of the pitch, cut at the top of the range.
Voice(interval) ==
    IF arpEnabled' THEN Clamp(result.pitch + interval, 0, MaxPitch) ELSE result.pitch

(* Mutant of SendPitch: only a pitch with a trigger is sent. *)
SendAnnouncedPitch(pitch) ==
    dac' = IF result.trigger THEN SemitonesToDac(pitch, DacCalibration) ELSE dac

\* The bus is left alone when the code is the last one sent.
SendPitch(pitch) == dac' = SemitonesToDac(pitch, DacCalibration)

\* The panel is served before the Arpeggiator, which has its new settings at once;
\* the quantizer's result is still the one of the old. A step of the Arpeggiator
\* starts a pulse of its own.
WritePitch ==
    /\ phase = "stepped"
    /\ LeavePanel \/ UsePanel
    /\ \E interval \in ArpIntervals, stepAdvanced \in BOOLEAN :
        /\ stepAdvanced => arpEnabled'
        /\ SendPitch(Voice(interval))
        /\ arpTriggerTicks' = IF stepAdvanced THEN TriggerCvTimeSamples
                              ELSE arpTriggerTicks
    /\ moved' = (dac # Unwritten /\ dac' # dac)
    /\ phase' = "written"
    /\ UNCHANGED <<analogVars, pending, result, triggerOut, high>>

WriteTrigger ==
    /\ phase = "written"
    /\ triggerOut' = (result.trigger \/ arpTriggerTicks # 0)
    /\ arpTriggerTicks' = SaturatingDec(arpTriggerTicks)
    /\ high' = IF triggerOut' /\ ~triggerOut THEN 0 ELSE high
    /\ phase' = "idle"
    /\ result' = NoResult
    /\ moved' = FALSE
    /\ UNCHANGED <<analogVars, channelVars, pending, arpEnabled, dac, panel>>

-----------------------------------------------------------------------------

Pass == Process \/ WritePitch \/ WriteTrigger

Next ==
    \/ TurnKnob \/ AdcInterrupt \/ TimerInterrupt
    \/ BootRead \/ StartTimer
    \/ Pass

Spec == Init /\ [][Next]_vars

(***************************************************************************)
(* Fairness, each part told by what it alone does to a variable.           *)
(* Conversions end and Timer2 fires whatever the program does; the start   *)
(* and the passes go on, unless a pass waits for a tick.                   *)
(***************************************************************************)
ConversionsEnd == channel' \in Channel /\ discard' \in BOOLEAN

TimerFires ==
    /\ phase # "boot" /\ pending < PendingMaximum
    /\ pending' = pending + 1

ProgramRuns ==
    /\ phase = "idle" => pending > 0
    /\ phase' \in Phase \ {phase}

FairSpec ==
    /\ Spec
    /\ WF_<<channel, discard>>(ConversionsEnd)
    /\ WF_pending(TimerFires)
    /\ WF_phase(ProgramRuns)

-----------------------------------------------------------------------------
(***************************************************************************)
(* Properties                                                              *)
(***************************************************************************)

\* The loop only sees voltages of the jack it asked for: no spike, nothing left
\* over from the jack the ADC was on before, nothing from before the first round. A
\* spike of the first round itself is seen until new samples have filled the window.
OnlyRealLevels ==
    [][ snapshot' # snapshot =>
            \A c \in Channel : ~stuck[c] =>
                \E low, top \in Levels[c] : low <= snapshot'[c] /\ snapshot'[c] <= top ]_vars

\* A voltage that stays is played in the end, whatever the panel was used for
\* before: the DAC has a note that the hysteresis of the scale allows for it, and
\* keeps it. So it is in Continuous mode, with or without a trigger, and in
\* Track-and-Hold for as long as the jack is high, as it is without a cable.
Plays(code, c) ==
    LET pitch == AdcToSemitones(code, AdcCalibration)
    IN  \E note \in Semitone :
            /\ IsHeld(c.notes, note, pitch)
            /\ dac = SemitonesToDac(note * One, DacCalibration)

Follows ==
    \/ config.sampleMode = "Continuous"
    \/ config.sampleMode = "TrackAndHold" /\ lastTriggerInput

SteadyInputIsPlayed ==
    \A code \in Levels[CvInput], c \in Configs :
        <>[](level[CvInput] = code /\ config = c /\ ~arpEnabled /\ Follows)
            => <>[]Plays(code, c)

\* The trigger output stays high for its samples, less the one tick that may already
\* have been waiting when it rose, however late the loop is. Loading a preset may
\* end a pulse.
PulsesLast ==
    [][ triggerOut /\ ~triggerOut' => high >= TriggerCvTimeSamples - 1 ]_vars

\* A pitch and its trigger come in the same pass, the pitch first: when the player
\* has moved the note the output is high at the end of that pass, and it does not
\* rise in a pass that has not.
PitchesComeWithTriggers ==
    [][ (phase = "written" /\ phase' = "idle" /\ ~arpEnabled /\ arpTriggerTicks = 0
            /\ panel = "no")
        => (moved => triggerOut') /\ (triggerOut' /\ ~triggerOut => moved) ]_vars
=============================================================================
