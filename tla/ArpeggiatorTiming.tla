------------------------- MODULE ArpeggiatorTiming -------------------------
(***************************************************************************)
(* When an Arpeggiator steps: its own timer in FREE and RESET, or counted  *)
(* clock edges, divided or multiplied, in CLOCK.  The edges come between   *)
(* two control ticks and are handed over as a number and the time of the   *)
(* latest one.                                                             *)
(*                                                                         *)
(* The code keeps points in time and only ever subtracts them from now:    *)
(* the model keeps the differences, and lets those grow that are read      *)
(* before they are next set.                                               *)
(***************************************************************************)
EXTENDS Integers

CONSTANTS
    Rate,           \* the positions of the rate
    FreeRate,       \* kFreeRatesMs
    ClockDivider,   \* kClockDividers
    ClockMultiplier,\* kClockMultipliers
    Configs,        \* the configurations the panel sets
    CounterModulus, \* values of stepCounter_, 256
    WordModulus,    \* values of uint16_t, 65536
    MaxTick,        \* bound: longest time between two ticks
    MaxInterval,    \* bound: longest time between two clock edges
    MaxEdges        \* bound: edges between two ticks

SyncMode == {"Free", "Reset", "Clock"}

ArpeggiatorConfig ==
    [enabled: BOOLEAN, rateIndex: Rate, syncMode: SyncMode, swing: 0 .. 11]

ASSUME TimingAssumption ==
    /\ {FreeRate, ClockDivider, ClockMultiplier} \subseteq [Rate -> Nat \ {0}]
    /\ \A rate \in Rate : ClockDivider[rate] = 1 \/ ClockMultiplier[rate] = 1
    /\ Configs \subseteq ArpeggiatorConfig
    /\ {CounterModulus, WordModulus, MaxTick, MaxInterval, MaxEdges} \subseteq Nat \ {0}
    /\ CounterModulus % 2 = 0 /\ MaxTick <= MaxInterval

VARIABLES
    config,     \* config_
    phase,      \* what resetPhase() sets
    edges,      \* activations not yet consumed
    age,        \* time since the latest of them
    sinceTick,  \* time since the last tick
    heard,      \* history: edges since the last one that is due a step
    due         \* history: steps due to edges not yet consumed

vars == <<config, phase, edges, age, sinceTick, heard, due>>

Phase == [stepCounter: 0 .. CounterModulus - 1,
          sinceStep: Nat,           \* nowMs - lastStepMs_
          sinceEdge: Nat,           \* nowUs - lastClockEdgeUs_
          sinceClockStep: Nat,      \* nowUs - lastClockStepUs_
          clockPeriod: Nat,
          dividerEdgeCount: Nat,
          generatedSubsteps: Nat,
          clockSeen: BOOLEAN]

\* Also the bounds that no guard states.
TypeOK ==
    /\ config \in Configs
    /\ phase \in Phase
    /\ edges \in 0 .. MaxEdges
    /\ {age, sinceTick} \subseteq 0 .. MaxTick
    /\ heard \in 0 .. ClockDivider[config.rateIndex]
    /\ due \in 0 .. MaxEdges
    /\ phase.clockPeriod <= MaxInterval
    /\ phase.sinceClockStep <= phase.sinceEdge
    /\ phase.clockSeen => phase.dividerEdgeCount \in 1 .. ClockDivider[config.rateIndex]

ResetPhase ==
    [stepCounter |-> 0, sinceStep |-> 0, sinceEdge |-> 0, sinceClockStep |-> 0,
     clockPeriod |-> 0, dividerEdgeCount |-> 0, generatedSubsteps |-> 0,
     clockSeen |-> FALSE]

Init ==
    /\ config \in Configs
    /\ phase = ResetPhase
    /\ edges = 0 /\ age = 0 /\ sinceTick = 0
    /\ heard = 0 /\ due = 0

-----------------------------------------------------------------------------
(***************************************************************************)
(* Time and the clock at the jack                                          *)
(***************************************************************************)

Clocked == config.enabled /\ config.syncMode = "Clock"

TimePasses ==
    /\ sinceTick < MaxTick
    /\ phase.sinceEdge < MaxInterval
    /\ sinceTick' = sinceTick + 1
    /\ age' = IF edges = 0 THEN 0 ELSE age + 1
    /\ phase' = IF ~config.enabled THEN phase
                ELSE IF ~Clocked THEN [phase EXCEPT !.sinceStep = @ + 1]
                ELSE IF phase.clockSeen
                     THEN [phase EXCEPT !.sinceEdge = @ + 1, !.sinceClockStep = @ + 1]
                     ELSE phase
    /\ UNCHANGED <<config, edges, heard, due>>

EdgeIsDue(count) == count \in {0, ClockDivider[config.rateIndex]}

ClockEdge ==
    /\ edges < MaxEdges
    /\ edges' = edges + 1
    /\ age' = 0
    /\ heard' = IF EdgeIsDue(heard) THEN 1 ELSE heard + 1
    /\ due' = IF EdgeIsDue(heard) THEN due + 1 ELSE due
    /\ UNCHANGED <<config, phase, sinceTick>>

-----------------------------------------------------------------------------
(***************************************************************************)
(* One tick: the panel may set a configuration, then the phase is advanced *)
(***************************************************************************)

\* setConfig: the phase starts again when timing or enabling changes.
Configured(new) ==
    IF <<new.enabled, new.rateIndex, new.syncMode, new.swing>>
         # <<config.enabled, config.rateIndex, config.syncMode, config.swing>>
    THEN ResetPhase ELSE phase

\* Linking the channels restarts the phase of both, of one whose settings stay the same too.
LinkFromA ==
    /\ phase' = ResetPhase
    /\ UNCHANGED <<config, edges, age, sinceTick, heard, due>>

AdvancedBy(counter, steps) == (counter + steps) % CounterModulus

LongPercent(swing) == 50 + (swing * 16 + 5) \div 11

\* Of a pair of steps the first is the short one, the second the long one.
Swung(pair, long, counter) == IF counter % 2 = 0 THEN pair - long ELSE long

\* Mutant of FreeDuration: the longer part is taken from one step, not from the pair.
FreeDurationOfOne(c, counter) ==
    LET base == FreeRate[c.rateIndex]
    IN  IF c.swing = 0 THEN base
        ELSE Swung(2 * base, ((base * LongPercent(c.swing)) % WordModulus) \div 100, counter)

\* The product is a word: pair and percentage both are, and an int is no wider.
FreeDuration(c, counter) ==
    LET pair == 2 * FreeRate[c.rateIndex]
    IN  IF c.swing = 0 THEN FreeRate[c.rateIndex]
        ELSE Swung(pair, ((pair * LongPercent(c.swing)) % WordModulus) \div 100, counter)

ResetByEdge(p, c) ==
    /\ c.enabled /\ c.syncMode = "Reset" /\ edges # 0
    /\ phase' = [p EXCEPT !.stepCounter = 0, !.sinceStep = 0]

FreeStepIsDue(p, c) ==
    p.sinceStep >= FreeDuration(c, p.stepCounter)

Free(p, c) ==
    /\ c.enabled /\ c.syncMode # "Clock"
    /\ c.syncMode = "Reset" => edges = 0
    /\ phase' = IF FreeStepIsDue(p, c)
                THEN [p EXCEPT !.stepCounter = AdvancedBy(@, 1), !.sinceStep = 0]
                ELSE p

\* Mutant of EdgesToApply: several edges of one tick are one event.
EdgesCollapsed(p) == IF p.clockSeen THEN 1 ELSE 0

EdgesToApply(p) == IF p.clockSeen THEN edges ELSE edges - 1

\* The first edge sets the phase and plays the root.
FirstEdge(p) ==
    IF p.clockSeen THEN p
    ELSE [p EXCEPT !.clockSeen = TRUE, !.dividerEdgeCount = 1, !.stepCounter = 0]

\* Mutant of MeasuredPeriod: the mean is rounded up.
MeasuredPeriodRoundedUp(p) ==
    LET measured == (p.sinceEdge - age) \div edges
    IN  IF ~p.clockSeen \/ measured = 0 THEN p.clockPeriod
        ELSE IF p.clockPeriod = 0 THEN measured
        ELSE (3 * p.clockPeriod + measured + 3) \div 4

MeasuredPeriod(p) ==
    LET elapsed  == p.sinceEdge - age
        measured == IF elapsed < edges THEN 1 ELSE elapsed \div edges
    IN  IF ~p.clockSeen \/ elapsed = 0 THEN p.clockPeriod
        ELSE IF p.clockPeriod = 0 THEN measured
        ELSE (3 * p.clockPeriod + measured) \div 4

\* The loop over the edges: a count from 1 to the divider, a step when it starts again.
Edges(p, c) ==
    LET divider == ClockDivider[c.rateIndex]
        first   == FirstEdge(p)
        count   == first.dividerEdgeCount - 1 + EdgesToApply(p)
    IN  /\ c.enabled /\ c.syncMode = "Clock" /\ edges # 0
        /\ phase' = [first EXCEPT
                        !.clockPeriod = MeasuredPeriod(p),
                        !.sinceEdge = age,
                        !.sinceClockStep = age,
                        !.generatedSubsteps = 0,
                        !.dividerEdgeCount = (count % divider) + 1,
                        !.stepCounter = AdvancedBy(@, count \div divider)]

SubstepBase(p, c) ==
    LET base == p.clockPeriod \div ClockMultiplier[c.rateIndex]
    IN  IF base = 0 THEN 1 ELSE base

\* In 32 bits.  No base is so short that a part of the pair is empty.
SubstepPart(base, swing, counter) ==
    IF swing = 0 THEN base
    ELSE Swung(2 * base, (2 * base * LongPercent(swing)) \div 100, counter)

SubstepDuration(p, c) == SubstepPart(SubstepBase(p, c), c.swing, p.stepCounter)

SubstepIsDue(p, c) ==
    /\ p.clockSeen /\ p.clockPeriod # 0
    /\ p.generatedSubsteps < ClockMultiplier[c.rateIndex] - 1
    /\ p.sinceClockStep >= SubstepDuration(p, c)

\* Mutant of Rescheduled: from the observed instant.
RescheduledFromNow(p, c) == 0

\* From the ideal instant, not from the one it was observed at.
Rescheduled(p, c) == p.sinceClockStep - SubstepDuration(p, c)

Substep(p, c) ==
    /\ c.enabled /\ c.syncMode = "Clock" /\ edges = 0
    /\ phase' = IF SubstepIsDue(p, c)
                THEN [p EXCEPT !.stepCounter = AdvancedBy(@, 1),
                               !.generatedSubsteps = @ + 1,
                               !.sinceClockStep = Rescheduled(p, c)]
                ELSE p

Bypassed(p, c) == ~c.enabled /\ phase' = p

Tick ==
    \E new \in Configs :
        LET p == Configured(new)
        IN  /\ config' = new
            /\ \/ ResetByEdge(p, new)
               \/ Free(p, new)
               \/ Edges(p, new)
               \/ Substep(p, new)
               \/ Bypassed(p, new)
            /\ edges' = 0 /\ age' = 0 /\ sinceTick' = 0
            /\ due' = 0
            /\ heard' = IF new.enabled /\ new.syncMode = "Clock" /\ phase'.clockSeen
                        THEN IF p.clockSeen THEN heard
                             ELSE ((edges - 1) % ClockDivider[new.rateIndex]) + 1
                        ELSE 0

Next == TimePasses \/ ClockEdge \/ LinkFromA \/ Tick

Spec == Init /\ [][Next]_vars

-----------------------------------------------------------------------------
(***************************************************************************)
(* Properties                                                              *)
(***************************************************************************)

HearsEdges == Clocked /\ phase.clockSeen /\ edges # 0 /\ edges' = 0

\* "For divisions, the Arpeggiator advances only after the required number of
\* real rising clock edges": as many steps as edges are due one, counted at the
\* jack one by one, however the ticks batch them.
StepsFollowEdges ==
    [][(HearsEdges /\ config' = config)
         => phase'.stepCounter = AdvancedBy(phase.stepCounter, due)]_vars

Ideal(count) ==
    LET c == config
        base == SubstepBase(phase, c)
        other == (phase.stepCounter + phase.generatedSubsteps) % 2
    IN  2 * base * (count \div 2)
          + (IF count % 2 = 0 THEN 0 ELSE SubstepPart(base, c.swing, other))

\* The code: "phase error no longer accumulates from one multiplied step to the
\* next".  The k-th step between two edges is taken in the first tick after its
\* ideal time, counted from the edge, as long as the steps are not denser than the ticks.
MultipliedStepsDoNotDrift ==
    [][(/\ Clocked /\ config' = config
        /\ phase'.generatedSubsteps = phase.generatedSubsteps + 1
        /\ SubstepPart(SubstepBase(phase, config), config.swing, 0) >= MaxTick)
         => phase.sinceEdge - Ideal(phase'.generatedSubsteps) \in 0 .. MaxTick]_vars

\* A clock that keeps its tempo or slows down is multiplied in full: every step
\* between two edges is played before the second one.
MultipliedInFull ==
    [][(/\ HearsEdges /\ config' = config /\ edges = 1
        /\ phase.clockPeriod # 0 /\ phase.sinceEdge - age >= phase.clockPeriod
        /\ SubstepBase(phase, config) >= 2 * MaxTick)
         => phase.generatedSubsteps = ClockMultiplier[config.rateIndex] - 1]_vars

\* A multiplied clock: every step, at its time.
MultipliedInTime == MultipliedStepsDoNotDrift /\ MultipliedInFull

\* The smoothed period moves towards the measured one and never past it.
PeriodApproaches ==
    [][(HearsEdges /\ config' = config /\ edges = 1 /\ phase.clockPeriod # 0)
         => LET old == phase.clockPeriod
                new == phase'.clockPeriod
                measured == phase.sinceEdge - age
            IN  \/ measured <= new /\ new < old
                \/ old <= new /\ new <= measured
                \/ measured = 0 /\ new = old]_vars

FreeStep == /\ Tick /\ config.enabled /\ config.syncMode = "Free" /\ config' = config
            /\ phase'.stepCounter # phase.stepCounter

\* "B is approximately 66:34": neither step of a pair is shorter than a third of
\* the pair, or longer than two thirds and a tick.
SwingStaysBounded ==
    [][FreeStep => LET pair == 2 * FreeRate[config.rateIndex]
                   IN  /\ 3 * phase.sinceStep >= pair
                       /\ 3 * (phase.sinceStep - MaxTick) <= 2 * pair]_vars
=============================================================================
