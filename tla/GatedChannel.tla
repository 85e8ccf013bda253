---------------------------- MODULE GatedChannel ----------------------------
(***************************************************************************)
(* A Sample/Gate jack and the quantizer channel behind it: the gate moves  *)
(* at any time, also between the two reads of a tick, and a tick ends with *)
(* the channel's sample of what was read.  Between two ticks somebody      *)
(* edits the configuration or loads one.  History variables keep what the  *)
(* player and the panel did, to say what may make the channel change.      *)
(***************************************************************************)
EXTENDS QuantizerChannel

CONSTANT CountMaximum  \* where activationCount_ saturates, 0xFF

ASSUME CountAssumption == CountMaximum \in Nat \ {0}

VARIABLES
    gate, activationCount, activations, rose,   \* of the jack
    input,      \* history: the input at the last sample
    cause,      \* history: who may have caused the next change of note
    edge        \* history: the last rising edge of the gate, and its use

historyVars == <<channelVars, input, cause, edge>>

Cause == {"player", "edit", "load"}

HistoryTypeOK ==
    /\ ChannelTypeOK
    /\ input \in Inputs
    /\ cause \in Cause
    /\ edge \in {"none", "open", "used"}

HistoryInit ==
    /\ ChannelInit
    /\ input \in Inputs
    /\ cause = "player"
    /\ edge = "none"

-----------------------------------------------------------------------------

TargetChanges == lastGlideTarget' # lastGlideTarget
PulseStarts == outputTriggerCountdown' > outputTriggerCountdown

Sample(x, trigger) ==
    /\ Step(x, trigger)
    /\ input' = x
    /\ cause' = IF x # input \/ trigger # lastTriggerInput THEN "player" ELSE cause
    /\ edge' = IF TargetChanges THEN "used"
               ELSE IF hasLastOutput /\ RisingEdge(trigger) THEN "open" ELSE edge

\* A tick samples before it reads the panel. A sample the gate has already asked
\* for stays the player's.
Edit ==
    /\ hasLastOutput
    /\ \E new \in Configs, force \in BOOLEAN : EditConfig(new, force)
    /\ cause' = IF cause = "player" /\ ~triggerDelayPending THEN "edit" ELSE cause
    /\ edge' = "none"
    /\ UNCHANGED input

Load ==
    /\ hasLastOutput
    /\ \E new \in Configs, force \in BOOLEAN : LoadConfig(new, force)
    /\ cause' = "load"
    /\ edge' = "none"
    /\ UNCHANGED input

IsTick == Sample(input', lastTriggerInput')

-----------------------------------------------------------------------------
(***************************************************************************)
(* The jack and the channel                                                *)
(***************************************************************************)

Jack == INSTANCE TriggerInputs

jackVars == <<gate, activationCount, activations, rose>>
vars == <<historyVars, jackVars>>

TypeOK == HistoryTypeOK /\ Jack!JackTypeOK

Init == HistoryInit /\ Jack!JackInit

GateMoves == (Jack!Rise \/ Jack!Fall) /\ UNCHANGED historyVars

TakeCount == Jack!ConsumeActivations /\ UNCHANGED historyVars

TakeSample ==
    /\ Jack!Process
    /\ \E x \in Inputs : Sample(x, Jack!TriggerLevel)

\* The panel is served after the sample of a tick, before the next one starts.
BetweenTicks == activations = Jack!NotTaken

EditTick == BetweenTicks /\ Edit /\ UNCHANGED jackVars
LoadTick == BetweenTicks /\ Load /\ Jack!ForgetLevel

Next == GateMoves \/ TakeCount \/ TakeSample \/ EditTick \/ LoadTick

Spec == Init /\ [][Next]_vars

\* Timer2 calls for a tick every millisecond, whatever the gate and the panel do.
FairSpec == Spec /\ WF_vars(TakeCount \/ TakeSample)

-----------------------------------------------------------------------------
(***************************************************************************)
(* Properties                                                              *)
(***************************************************************************)

\* Sample-and-Hold gives at most one new note for each rising edge of the gate:
\* the held note does not move again, however the input moves, until the gate
\* rises again or somebody uses the panel.
OneNotePerEdge ==
    [][ (IsTick /\ config.sampleMode = "SampleAndHold" /\ ~forceContinuous
            /\ cause' = "player" /\ TargetChanges)
        => (edge # "used" \/ RisingEdge(lastTriggerInput')) ]_historyVars

\* An edit on the panel gives no trigger: while neither input nor gate has moved
\* since, and no sample was being waited for, no output pulse starts.
EditsGiveNoPulse == [][ (IsTick /\ cause' = "edit") => ~PulseStarts ]_historyVars

\* The same for a configuration that is loaded: not kept by the code when the
\* sample waits for a delay.
LoadsGiveNoPulse == [][ (IsTick /\ cause' = "load") => ~PulseStarts ]_historyVars

\* Track-and-Hold holds its note while the gate is low: after a gate that has
\* ended nothing is sampled until the next one. Not kept by the code when the gate
\* is shorter than the delay.
TracksOnlyWhileHigh ==
    [][ (IsTick /\ config.sampleMode = "TrackAndHold" /\ ~forceContinuous
            /\ edge = "open" /\ ~lastTriggerInput')
        => ~TargetChanges ]_historyVars

\* A sample that was asked for is taken once the gate stops rising, also when
\* the gate stays high or the delay is changed meanwhile.
GateAnswered ==
    []<>(~triggerDelayPending) \/ []<><<lastTriggerInput' /\ ~lastTriggerInput>>_historyVars

NoPhantomRise == Jack!NoPhantomRise
=============================================================================
