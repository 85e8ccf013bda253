-------------------------- MODULE QuantizerChannel --------------------------
(***************************************************************************)
(* Class QuantizerChannel of Quantizer.cpp, stepped once per millisecond   *)
(* by FirmwareController::run: when the input is sampled, how the target   *)
(* glides, and when the trigger output fires. The panel edits the          *)
(* configuration between two samples, or a load replaces it.               *)
(*                                                                         *)
(* The step is the same for both channels: in relative mode channel B only *)
(* gets another input of the same range.                                   *)
(* The timer of the input LED, inputTriggerUiTimer_, is left out with the  *)
(* LEDs: nothing else reads it.                                            *)
(***************************************************************************)
EXTENDS NoteSelection

CONSTANTS
    GlideOne,                \* glide units of a semitone, kSemitoneOneQ8_24
    MaxGlideAmount,          \* kMaxGlideAmount
    MaxTriggerDelayAmount,   \* kMaxTriggerDelayAmount
    TriggerLedTimeSamples,   \* kTriggerLedTimeSamples
    TriggerCvTimeSamples,    \* kTriggerCvTimeSamples
    CounterMaximum,          \* where the uint8_t counters saturate, 0xFF
    Configs,                 \* configurations the panel can set
    Inputs                   \* pitches the inputs take

SampleMode == {"TrackAndHold", "SampleAndHold", "Continuous"}

ChannelConfig ==
    [notes : SUBSET PitchClass, sampleMode : SampleMode, glideAmount : Nat,
     triggerDelayAmount : Nat, preShift : Int, scaleShift : Int, postShift : Int]

ASSUME ChannelAssumption ==
    /\ GlideOne \in Nat \ {0}
    /\ {MaxGlideAmount, MaxTriggerDelayAmount} \subseteq Nat
    /\ {TriggerLedTimeSamples, TriggerCvTimeSamples} \subseteq Nat \ {0}
    /\ TriggerCvTimeSamples <= TriggerLedTimeSamples
    /\ CounterMaximum \in Nat
    /\ TriggerLedTimeSamples <= CounterMaximum
    /\ MaxTriggerDelayAmount <= CounterMaximum
    /\ Configs \subseteq ChannelConfig
    /\ Inputs \subseteq Pitch

VARIABLES
    config,                     \* config_
    forceContinuous,            \* the channel's Arpeggiator runs from the clock input
    hysteresis,                 \* hysteresis_: the remembered note
    hasLastOutput,              \* hasLastOutput_
    lastNominalSemitones,       \* lastNominalSemitones_
    lastGlideTarget,            \* lastGlideTarget_
    lastGlideCurrent,           \* lastGlideCurrent_
    lastTriggerInput,           \* lastTriggerInput_
    outputTriggerCountdown,     \* outputTriggerCountdown_
    triggerDelayTimer,          \* triggerDelayTimer_
    triggerDelayPending,        \* triggerDelayPending_
    suppressNextOutputTrigger   \* suppressNextOutputTrigger_

settings == <<config, forceContinuous>>
timing == <<triggerDelayTimer, triggerDelayPending>>
channelVars ==
    <<config, forceContinuous, hysteresis, hasLastOutput, lastNominalSemitones,
      lastGlideTarget, lastGlideCurrent, lastTriggerInput,
      outputTriggerCountdown, triggerDelayTimer, triggerDelayPending,
      suppressNextOutputTrigger>>

Counter == 0 .. CounterMaximum
Glide == 0 .. MaxSemitone * GlideOne

ChannelTypeOK ==
    /\ config \in ChannelConfig
    /\ forceContinuous \in BOOLEAN
    /\ hysteresis \in Semitone \cup {NoNote}
    /\ hasLastOutput \in BOOLEAN
    /\ lastNominalSemitones \in Semitone
    /\ lastGlideTarget \in Glide
    /\ lastGlideCurrent \in Glide
    /\ lastTriggerInput \in BOOLEAN
    /\ outputTriggerCountdown \in 0 .. TriggerLedTimeSamples
    /\ triggerDelayTimer \in Counter
    /\ triggerDelayPending \in BOOLEAN
    /\ suppressNextOutputTrigger \in BOOLEAN

ChannelInit ==
    /\ config \in Configs
    /\ forceContinuous \in BOOLEAN
    /\ hysteresis = NoNote
    /\ hasLastOutput = FALSE
    /\ lastNominalSemitones = 0
    /\ lastGlideTarget = 0
    /\ lastGlideCurrent = 0
    /\ lastTriggerInput = FALSE
    /\ outputTriggerCountdown = 0
    /\ triggerDelayTimer = 0
    /\ triggerDelayPending = FALSE
    /\ suppressNextOutputTrigger = FALSE

-----------------------------------------------------------------------------
(***************************************************************************)
(* When the input is sampled                                               *)
(***************************************************************************)

SaturatingInc(value) == IF value = CounterMaximum THEN value ELSE value + 1
SaturatingDec(value) == IF value = 0 THEN 0 ELSE value - 1

RisingEdge(trigger) == trigger /\ ~lastTriggerInput

(* Mutant of StartsDelay: a gate that stays high keeps restarting the delay. *)
StartsDelayWhileHigh(trigger) == ~hasLastOutput \/ trigger

StartsDelay(trigger) == ~hasLastOutput \/ RisingEdge(trigger)

Waits(trigger) == StartsDelay(trigger) \/ triggerDelayPending

DelayTimer(trigger) ==
    IF StartsDelay(trigger) THEN 0
    ELSE IF triggerDelayPending THEN SaturatingInc(triggerDelayTimer)
    ELSE triggerDelayTimer

DelayIsOver(trigger) ==
    /\ Waits(trigger)
    /\ DelayTimer(trigger) >=
         Clamp(config.triggerDelayAmount, 0, MaxTriggerDelayAmount)

Updates(trigger) ==
    \/ forceContinuous
    \/ config.sampleMode = "Continuous"
    \/ DelayIsOver(trigger)
    \/ config.sampleMode = "TrackAndHold" /\ trigger /\ ~Waits(trigger)

(* Mutant of KeepTime: a sample does not end the wait. *)
KeepTimeWaiting(trigger) ==
    /\ triggerDelayTimer' = IF forceContinuous THEN 0 ELSE DelayTimer(trigger)
    /\ triggerDelayPending' = (~forceContinuous /\ Waits(trigger))

KeepTime(trigger) ==
    \/ /\ forceContinuous
       /\ triggerDelayTimer' = 0
       /\ triggerDelayPending' = FALSE
    \/ /\ ~forceContinuous
       /\ triggerDelayTimer' = DelayTimer(trigger)
       /\ triggerDelayPending' = (Waits(trigger) /\ ~DelayIsOver(trigger))

-----------------------------------------------------------------------------
(***************************************************************************)
(* The pitch path                                                          *)
(***************************************************************************)

PreShifted(input) == Clamp(input + config.preShift * One, 0, MaxSemitone * One)

Follow(input) ==
    LET quantized == Quantized(config.notes, hysteresis, PreShifted(input))
        shifted == StepInScale(config.notes, quantized, config.scaleShift)
    IN  /\ hysteresis' = Remembered(config.notes, quantized)
        /\ lastNominalSemitones' = shifted
        /\ lastGlideTarget' =
             Clamp(shifted + config.postShift, 0, MaxSemitone) * GlideOne

Hold == UNCHANGED <<hysteresis, lastNominalSemitones, lastGlideTarget>>

(* Mutant of CalculateGlide: no guaranteed progress. *)
CalculateGlideStalling(current, target) ==
    current + ((target - current) \div 2 ^ Clamp(config.glideAmount, 0, MaxGlideAmount))

\* alpha * (target - current) in 64 bits, shifted back: the difference divided by
\* 2^amount and rounded down. A step of zero becomes one unit towards the target.
CalculateGlide(current, target) ==
    LET step == (target - current) \div 2 ^ Clamp(config.glideAmount, 0, MaxGlideAmount)
        result == current + (IF step # 0 THEN step ELSE IF target > current THEN 1 ELSE -1)
    IN  IF current = target THEN current
        ELSE IF current < target THEN Clamp(result, result, target)
        ELSE Clamp(result, target, result)

-----------------------------------------------------------------------------
(***************************************************************************)
(* The step                                                                *)
(***************************************************************************)

DidChange ==
    /\ hasLastOutput
    /\ <<lastNominalSemitones, lastGlideTarget>>' # <<lastNominalSemitones, lastGlideTarget>>

FireTrigger ==
    /\ outputTriggerCountdown' =
         IF DidChange /\ ~suppressNextOutputTrigger THEN TriggerLedTimeSamples
         ELSE SaturatingDec(outputTriggerCountdown)
    /\ suppressNextOutputTrigger' = FALSE

Step(input, trigger) ==
    /\ KeepTime(trigger)
    /\ IF Updates(trigger) THEN Follow(input) ELSE Hold
    /\ lastTriggerInput' = trigger
    /\ hasLastOutput' = TRUE
    /\ lastGlideCurrent' =
         CalculateGlide(IF hasLastOutput THEN lastGlideCurrent ELSE 0, lastGlideTarget')
    /\ FireTrigger
    /\ UNCHANGED settings

OutputTrigger == outputTriggerCountdown > TriggerLedTimeSamples - TriggerCvTimeSamples

-----------------------------------------------------------------------------
(***************************************************************************)
(* The panel                                                               *)
(***************************************************************************)

(* Mutant of EditConfig: the edit does not arm the suppression. *)
EditConfigLoud(new, force) ==
    /\ config' = new
    /\ forceContinuous' = force
    /\ UNCHANGED <<hysteresis, hasLastOutput, lastNominalSemitones, lastGlideTarget,
                   lastGlideCurrent, lastTriggerInput, outputTriggerCountdown,
                   timing, suppressNextOutputTrigger>>

\* An edit in place, followed by FirmwareController's suppression of the trigger.
EditConfig(new, force) ==
    /\ config' = new
    /\ forceContinuous' = force
    /\ suppressNextOutputTrigger' = TRUE
    /\ UNCHANGED <<hysteresis, hasLastOutput, lastNominalSemitones, lastGlideTarget,
                   lastGlideCurrent, lastTriggerInput, outputTriggerCountdown, timing>>

\* A preset: setConfig resets the live state, then the same suppression.
LoadConfig(new, force) ==
    /\ config' = new
    /\ forceContinuous' = force
    /\ hysteresis' = NoNote
    /\ hasLastOutput' = FALSE
    /\ lastNominalSemitones' = 0
    /\ lastGlideTarget' = 0
    /\ lastGlideCurrent' = 0
    /\ lastTriggerInput' = FALSE
    /\ outputTriggerCountdown' = 0
    /\ triggerDelayTimer' = 0
    /\ triggerDelayPending' = FALSE
    /\ suppressNextOutputTrigger' = TRUE
=============================================================================
