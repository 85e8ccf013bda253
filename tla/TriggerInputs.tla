--------------------------- MODULE TriggerInputs ---------------------------
(***************************************************************************)
(* One Sample/Gate jack: AvrTriggerInputs counts its edges in an interrupt *)
(* while FirmwareController::run takes the count and then reads the level, *)
(* once per millisecond. The quantizer channel sees a level made of both   *)
(* and looks for a rise between two ticks.                                 *)
(***************************************************************************)
EXTENDS Integers

CONSTANT CountMaximum   \* where activationCount_ saturates, 0xFF

VARIABLES
    gate,               \* the level at the jack
    activationCount,    \* activationCount_, written by the interrupt
    activations,        \* what the current tick took, or NotTaken
    lastTriggerInput,   \* lastTriggerInput_ of the channel
    rose                \* history: a rise since the channel last saw one

jackVars == <<gate, activationCount, activations, rose>>

NotTaken == -1

JackTypeOK ==
    /\ gate \in BOOLEAN
    /\ activationCount \in 0 .. CountMaximum
    /\ activations \in 0 .. CountMaximum \cup {NotTaken}
    /\ lastTriggerInput \in BOOLEAN
    /\ rose \in BOOLEAN

\* An unpatched jack is high, and the first sample takes that for a rise.
JackInit ==
    /\ gate \in BOOLEAN
    /\ activationCount = 0
    /\ activations = NotTaken
    /\ lastTriggerInput = FALSE
    /\ rose = gate

-----------------------------------------------------------------------------

CountedUp(count) == IF count = CountMaximum THEN count ELSE count + 1

\* The interrupt runs at once: the loop only takes the count with interrupts off.
Rise ==
    /\ ~gate
    /\ gate' = TRUE
    /\ activationCount' = CountedUp(activationCount)
    /\ rose' = TRUE
    /\ UNCHANGED <<activations, lastTriggerInput>>

Fall ==
    /\ gate
    /\ gate' = FALSE
    /\ UNCHANGED <<activationCount, activations, lastTriggerInput, rose>>

ConsumeActivations ==
    /\ activations = NotTaken
    /\ activations' = activationCount
    /\ activationCount' = 0
    /\ UNCHANGED <<gate, lastTriggerInput, rose>>

(* Mutant of TriggerLevel: every other source of a high level is ignored once
   the level is known, so that a rise already seen comes back from the counter. *)
TriggerLevelOnce == IF lastTriggerInput THEN gate /\ activations = 0 ELSE gate \/ activations # 0

TriggerLevel == gate \/ activations # 0

\* The rest of the tick, where the level is read after the count was taken.
Process ==
    /\ activations # NotTaken
    /\ lastTriggerInput' = TriggerLevel
    /\ rose' = (rose /\ (lastTriggerInput \/ ~TriggerLevel))
    /\ activations' = NotTaken
    /\ UNCHANGED <<gate, activationCount>>

(* setConfig() forgets the last level: the first sample is asked for by the load. *)
ForgetLevel ==
    /\ lastTriggerInput' = FALSE
    /\ rose' = TRUE
    /\ UNCHANGED <<gate, activationCount, activations>>

-----------------------------------------------------------------------------
SeesRise == lastTriggerInput' /\ ~lastTriggerInput

\* A gate is never taken twice, although the level and the count of one gate may
\* reach the channel in different ticks: the channel sees a rise only when the
\* jack has risen, or a configuration was loaded, since it last saw one.
NoPhantomRise == [][SeesRise => rose]_<<jackVars, lastTriggerInput>>
=============================================================================
