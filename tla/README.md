# A TLA+ model of the FM Quantizer firmware

This directory models the firmware of the FM Quantizer, a two-channel Eurorack
pitch quantizer with an arpeggiator layer on an ATmega328P. The modules follow
the C++ sources under `lib/fmq` and `src/platform/nano_atmega328p`. TLC checks
them on small instances, and TLAPS proves the central properties of persistence, of
the calibration panel, of the front panel, of the quantizer channel, of the control
loop and of the arpeggiator for every value of the constants.
`PROJECT.json` maps each definition to the lines it models, and lists runs, mutants,
hazards, findings and theorems.

    tlc  -config MCMenu.cfg MCMenu          # a run: the cfg and its module
    tlapm QuantizerPersistenceProofs.tla    # a proof module

## 1. The system

Two images run on the board, one at a time: the **product image**
(`FirmwareController.cpp`) and the **maintenance image**
(`CalibrationFirmwareController.cpp`). They share the EEPROM. A Timer2 interrupt
counts milliseconds; the main loop takes the count, and when it is not zero runs
one control tick: ADC snapshot, trigger inputs, quantizer channels, buttons and
menu, arpeggiators, outputs, autosave. Otherwise it services the EEPROM writer.
Interrupts are few: Timer2, the ADC, the two trigger inputs.

| Component | State | Operations | What makes it correct |
|---|---|---|---|
| EEPROM and asynchronous writer (`AvrEeprom.h`, `AsyncEepromWriter.h`) | cells, queue, position | submit, service, byte done, power loss | one job at a time; a byte is old, new or torn |
| Live-state store (`LiveStateStore.cpp`) | `head_`, `seq_`, pending commit | load, migrate, commit, observe | power-up restores the last completed commit |
| Preset store (`SaveSlotStore.cpp`) | slots, occupancy | save, load, erase all | a marked slot is complete |
| Calibration journal and certificate | two records, generation, certificate | load, commit, certify, invalidate | old or new profile, certificate only after verification |
| Maintenance panel | active profile, workflow step | six blocking workflows | cancel and failure restore, PASS means stored |
| Stored configuration and panel operations (`Serialization.cpp`, `Menu.cpp`, `ArpeggiatorBank.cpp`) | both channels, both arpeggiators, link, layer | every SHIFT menu, load, restart | linked channels agree, no hidden arpeggio, every change is marked |
| Menu pages (`Menu.cpp`) | page, sub-menu status, timers | `update` with SHIFT, SAVE, LOAD, notes | pages close, belong to their layer |
| Buttons, key ladder (`Button.cpp`, `ButtonLadder.cpp`, `ControlInputProcessor.cpp`) | candidate and debounced level | decode, sample | a voltage is one key or none, levels are taken over when they are stable |
| Layer gesture (`UiLayerGesture.cpp`) | debounced SHIFT, click times | update, reset | nothing but a double-click switches |
| Note selection, hysteresis, channel (`ScaleMath.cpp`, `Quantizer.cpp`) | hold band, delay, glide, trigger timers | step, edit, setConfig | no chatter, one note per edge, glide arrives |
| Trigger inputs (`AvrTriggerInputs.h`) | edge count | interrupt, consume | no gate counted twice |
| Arpeggiator (`Arpeggiator.cpp`) | phase, clock period, counters | processTimed, setConfig, resetPhase | steps follow the clock, notes of the scale |
| ADC acquisition (`AvrAnalogInputs.h`) | channel, window of samples, snapshot | conversion interrupt, copy by the loop | only voltages of the right jack reach the loop |
| Control loop (`FirmwareController.cpp`) | pending ticks, last DAC code, trigger countdown | timer interrupt, a pass | late passes lose no pulse, a pitch comes with its trigger |
| Pitch conversion and calibration arithmetic (`PitchConversion.cpp`, `AdcCalibration.cpp`, `SelfCalibration.cpp`) | a line for each converter | convert, fit, verify | accepted converters play in tune, good ones are accepted |
| Drivers, rendering, diagnostics | | | not modelled, see section 8 |

The channels, arpeggiators and menu meet in the configuration: the menu edits
it in place, a load replaces it, the live store and the presets keep it. The
live store, the presets and the autosave share one writer. The calibration
journal reuses the cells of a former live slot, so even the two images interact.
The SHIFT button is read by the menu directly and by the gesture recogniser
through a debouncer of its own.

The hard behaviours are the power loss between any two bytes, commits that are
accepted long before they are complete, cached state (head, occupancy, dirty
flag, suppression flag), inputs that bounce or move between the instructions of
a tick, several events arriving in one tick, fixed-point and 8- or 16-bit
arithmetic, and panel operations in orders no test tries. `hazards` in
`PROJECT.json` has each one with its line.

## 2. Modules

**Persistence.** `EepromWriter` (cells, one-byte programming, queue) is extended
by `LiveStateStore` and `SaveSlotStore`; `QuantizerPersistence` composes them
with boot, control loop, autosave and the other image's migration and reuse of
the former twelfth slot. `DurableRegister` is the abstract specification: a
stored value that changes only to a requested one. `ImplementsRegister`
instantiates it with what a power-up would restore and what the writer holds.

**Calibration.** `CalibrationJournal` has the redundant records and the
certificate, with their two writers; `CalibrationPanel` the six workflows, each
as the sequence of steps it has left. `MCCalibrationHistory` adds, for the run
`false_certificate`, which profiles were verified.

**Front panel.** `StoredConfiguration` has the encoded record with all the
corrections decoding makes; `PanelConfiguration` one action per panel operation;
`Menu` the page machine of `Menu::update` and `handleCalibration`, in which a
button leads to these operations. `Menu` implements `PanelConfiguration`
(`ImplementsPanel`): the pages add no way to change the configuration.
`ButtonReports` states the order in which the buttons report their events: it is
what `Menu` assumes, and what `Debouncer` and `LongPressButton` are checked to
provide. `UiLayerGesture` is the double-click recogniser. `ControlInputs`
decodes the voltage of the key ladder and composes them all: ladder, one
long-press button and SHIFT, sampled at the same times, with the gesture looking
at each of them.

**Pitch.** `NoteSelection` has the pure operators (search, hold band, walk in a
scale); `QuantizerChannel` is one step of a channel, an edit and a load;
`PitchPath` runs it with every scale and input and remembers where a note was
left. `TriggerInputs` has the edge counter, the level and the instant between
reading the two; `GatedChannel` composes jack and channel and remembers who
caused what. `AnalogInputs` is the ADC with its interrupt and the
copy the loop takes, `PitchConversion` the arithmetic between codes and pitches.
`ControlLoop` composes the two with a channel: interrupts at any moment, the pass
of the loop, the panel between the quantizer's step and the outputs.

**Measuring.** `CalibrationSolver` fits the line of an input and of an output,
with the integer arithmetic of the code; `CalibrationBench` takes the
measurements of one channel, point after point, on converters that are wrong in
gain, offset and curvature. `CalibrationPanel` has the same two workflows as steps
that succeed or fail, and what is stored of them.

**Arpeggiator.** `ArpeggiatorTiming` says when it steps, `ArpeggiatorFigure`
what it plays at each step.

Modules whose name begins with `MC` give the constants their values for TLC;
those ending in `Proofs` hold theorems. Operators named in a comment "Mutant of"
are deliberate faults of the definition that follows them: replacing it by them
must break the property `PROJECT.json` names.

### How state and actions correspond to the code

- One action is a whole handler up to the point where another actor can run. The
  writer's `service` and `observeWriter` are separate because a byte may finish,
  or power may fail, in between; a channel step is one action because nothing
  interrupts its state.
- EEPROM: a record is a marker cell and `BodyLen` body cells, each holding old
  byte, erased, torn, or the content its job writes. A CRC that does not match
  is a body with cells of different jobs. A torn marker never reads as written.
- Sequence numbers of the live ring are not bounded by a word, the calibration
  generations wrap (4 in the runs, 16 in the firmware).
- The points in time the code stores become durations since then. `Menu` does
  not count them: a timeout may come in any tick after its start.
- Scalar settings share one range `0 .. MaxScalar`; their clamping is the same
  code for each. The LED brightness is one value.
- Pitch units, hysteresis and glide resolution are parameters. In the firmware a
  semitone has 256 units and the glide 2^24; the largest values, 120 * 256 and
  120 * 2^24, fit their types, so widths play no part there. In
  `ArpeggiatorTiming` one does: the swing product is a 16-bit word.
- The two converters of `CalibrationBench` are external: a line in percent and
  codes, bent by a parabola, with a noise of a code that averaging leaves. Its
  widths are those of the firmware (1023 and 4095 codes, gain in units of 1/2^15).
  The products the code forms in 64 bits are divided bit by bit, which gives the
  same quotient.
- A spike of an input lasts one conversion and does not come twice in a filter's
  window; the first conversion after a change of the multiplexer may read any code.
  The first round fills each window with its one sample. When that is a spike, the loop
  reads it until new samples are the majority; `stuck` excepts such an input until one
  sample of the spike is left.
- In `ControlLoop` a pass has three steps, at each of which interrupts may come:
  samples and channel, panel and pitch, trigger. Nothing is shared with interrupts
  inside a step but the copies taken with interrupts off. A pass finds the gate high or
  low as it likes, and the panel may switch the sample mode, the Arpeggiator and its
  clock mode, in which the channel samples in every pass.
- The countdown of a channel's input LED is left out, as it decides nothing.
- The two EEPROM writers of the calibration image take turns of their own, one step
  each, in any order, whenever the EEPROM is ready. In the code the second writer
  moves in the same poll when the first has met a byte that its cell holds already,
  and otherwise waits for it; the steps of the code are among those of the model.
- Linking the channels restarts the phase of both arpeggiators (`LinkFromA` of
  `ArpeggiatorTiming`), also of one whose settings were those of A already. That they
  get A's settings is in `PanelConfiguration`.
- Relative mode of channel B only gives it another input of the same range.
- Edges inside the microsecond in which the count is taken with interrupts off
  belong to the next tick.

## 3. Runs

Ten runs check what holds, two show what does not (section 4).

| Run | Shows | Bounds |
|---|---|---|
| `persistence` | markers, head, the cached dirty flag and occupancy (`CachesAreTrue`); the ring is a durable register; an edit left alone is kept | 3 ring slots and the legacy one, 2 body cells, 1 preset of each kind, 2 user operations, blank and old memories |
| `calibration` | workflows end with the stored profile in use, cancel writes nothing, the signals are true, journal and certificate survive power loss, timeouts, bouncing LOAD | 2 profiles, 4 generations, 2 residuals (1 where waits may be cut short) |
| `menu` | pages, chord, layers; link, hidden arpeggio, round trip, change mark; `ImplementsPanel` | 1 note, 1 setting of each kind, one old record with a value out of range |
| `control_inputs` | a voltage is one key or none, stable levels only and all of them, event order, only double-clicks switch, and nothing else happens in that tick | the firmware's ladder table, 3 codes as input (a key, the narrowest gap, the edge of the rest), windows 2 and 1 ms, gesture limits 2 and 3 ms, 1 or 2 ms between samples |
| `pitch_path` | no chatter, notes fit the input, the glide goes straight and all the way | every scale of 2 pitch classes, 4 semitones of 4 units, every input |
| `gated_channel` | one note per edge, silent edits, no gate counted twice, every gate answered | 2 inputs, 2 scales, delays 0 and 3, counters of 1 and 2 |
| `control_loop` | no spike or foreign voltage reaches the loop, pulses last, pitch and trigger come together, a steady voltage is played | 2 ADC channels, window of 3, 2 voltages and a spike, 1 scale, Continuous and Track-and-Hold, the Arpeggiator off or on its clock, gate free, pulses of 2 ticks, 2 pending ticks |
| `measurement` | accepted channels are in tune, as voltage and through the loop; good ones pass | real widths; gains of 96, 100 and 103 percent and off, offsets to 12 codes (input) and 20 (output), curvatures to 16 and 60 codes, noise of 0 or 1 code |
| `arpeggiator_timing` | division counts every edge, the period follows, multiplied steps neither drift nor get lost, swing within a third and two thirds | ticks to 2 units, intervals to 14, 3 edges a tick, rates of 3, 12 and 250 ms, real 16-bit word |
| `arpeggiator_figure` | complete sweeps and turns without repetition (`PatternsVisitAll`), notes of the scale | every scale of 4 pitch classes, 17 semitones, lengths 1, 2, 3, 5, 6, counter of 12 |

The bounds are the smallest at which every case of the code occurs. A ring needs
a head, a next and an older slot; two body cells can hold two different jobs; a
generation is newer or older than another only among four. Two residuals make
a certificate that is overwritten differ from its successor. Two clicks and a bounce of each
fit into the gesture's limits, and a window outlives one gap between samples. A
delay of three ticks outlives a gate and the saturated timer, an interval of twelve units holds
three multiplied steps of two ticks. Four pitch classes have sparse, dense and
one-note scales. User operations (2, presets and erasing), edges per tick (3)
and residuals are the only limits on what a user does; between them everything
interleaves. The panel's settings are few in `menu` because each is edited by the same
operation; `MenuProofs` has its properties for any number of them.

In `control_loop` a pulse of two ticks outlives a pass, and a late pass takes two
ticks at once; two voltages are a change and its reverse, and a
window of three is the firmware's. The second ADC channel is the key ladder at
rest: its voltage is what a wrong multiplexer would read. The gate is high or low as
every pass finds it; `SteadyInputIsPlayed` is about Continuous mode, and about
Track-and-Hold while the gate stays high, as it does without a cable. Sample-and-Hold,
which plays a voltage only when asked to, is in `gated_channel`.

`measurement` states two bounds, `OutputAccuracy` (51 half codes of the DAC) and
`LoopAccuracy` (192 of 256 units), both three quarters of a semitone. The
tolerances of the code add up to them: a verified point may be off by 15 DAC codes
(0.44 semitones), a reading by one code (0.12), and between two points the line
may bend further. The instance reaches 0.66 and 0.70: half a semitone, at which a
note would still be nearest to itself, is **not** guaranteed by an accepted
calibration. The errors include good converters, each kind of bad one on its own,
curvatures just inside and just outside the tolerances, and one far outside that
only a residual with its sign lost would let through.

`steady`, in the calibration modules, is chosen once and never changes: a LOAD
press that lasts until the firmware reads it again, and an EEPROM that answers
before `waitForPersistence` gives up. `RunningIsStored` and
the part `CancelCommitsNothing` of `OnlySavesChangeTheStore` need it; the other properties hold without.

Deadlock is checked in every run but `measurement`, whose workflow ends. Type invariants that are no property of a run
(`InputTypeOK`, and `TypeOK` of calibration, bench, control loop, channel and
arpeggiators) hold in
the same instances.

### Fairness

Four runs have liveness properties; the safety properties need none of it.

- `persistence`: the loop goes on with its phases, a programmed byte completes
  (weakly fair), quiet time elapses whenever it can again and again (strongly
  fair): the loop never blocks, the EEPROM hardware finishes in milliseconds.
  User operations and power losses are not fair.
- `gated_channel`: the loop takes the count and the sample of each tick, whatever
  gate and panel do. Timer2 starts every tick, and a handler ends.
- `pitch_path`: there are infinitely many ticks.
- `control_loop`: Timer2 fires and conversions end whatever the program does, and
  the program goes on unless it waits for a tick (weakly fair each). Knobs, gate and panel
  are not fair: `SteadyInputIsPlayed` is about a voltage that is left alone.
  `ConversionsEnd`, `TimerFires` and `ProgramRuns` state this by what each alone does:
  to the channel of the ADC, to the pending ticks, to the phase of the program.

## 4. Where code and documents disagree

Two runs state a sentence of the documentation or of a comment, and find it
violated. They are in `findings` with their lines.

- `false_certificate`: a power loss between certificate and profile lets a later
  ADC-only calibration be reported as verified.
- `swing_wraps`: at 500 ms and full swing the product overflows 16 bits, and the
  steps take 996 and 4 ms.

Further properties are stated in the modules and not kept by the code. Each is
violated when it is added to the run named here.

- `BounceIsNoPress` (of `Debouncer`; in `control_inputs` for `Button`):
  a contact of a held button that opens for less than the window is reported as a
  second press (`Button.cpp:22`; `Button.h:23` says that bounce "does not register
  as extra presses"). A held SAVE or LOAD so closes the page it has just opened.
- `DoubleClicksToggle` (`control_inputs`): a bounce of SHIFT while a control is
  touched leaves `suppressUntilRelease_` set (`UiLayerGesture.cpp:64`), and the next
  clean double-click goes unrecognised, however much later it comes.
- `LoadsGiveNoPulse` (`gated_channel`): with a trigger delay pending, loading a
  configuration fires the output.
- `TracksOnlyWhileHigh` (`gated_channel`): a gate shorter than the delay samples
  after it has ended.
- `SampleModeShared` (`menu`): SHIFT + 4 on linked channels edits only one.
- `CancelCommitsNothing` without `steady` (`calibration`): a cancelled prompt
  counts as confirmed when LOAD has opened by the second read.
- `SweepsStayComplete` (`arpeggiator_figure`): the step counter wraps at 256, and
  patterns of most lengths stumble.
- `RotateVisitsAll` (`arpeggiator_figure`): Rotate with an even length plays every
  second position.

Three more were only read. An input with a positive offset and a gain below one
saturates early: `applyAdcCalibration` cuts the sum at 1023 before it multiplies
(`PitchConversion.cpp:28`), so that with 8 codes and 0.96 everything above 9.6 V reads
the same. A gate that falls and rises again within a tick may
give no rise (`FirmwareController.cpp:409`), and 1-5-8 in the default range of an
octave plays 1-5-7 (`Arpeggiator.cpp:273`).

## 5. Proofs

`QuantizerPersistenceProofs` proves for rings, records, presets and initial
memories of any size that types are kept (`TypeCorrect`), that a marked record
is complete (`MarkersDisciplined`), that the head describes the newest record
(`HeadDescribesNewest`), and that the ring implements the durable register
(`StoreIsDurableRegister`). The properties alone are not inductive: that a
record is complete when its marker is written depends on what the job in the
queue has already done. `IInv` says it, between any two bytes: the queue is the
image of one record (`WriterInv`), as many cells as `Done` carry it, and the
newest record lies outside the slot in work until the marker is on (`HeadInv`).
`HasNewest` is assumed of the initial memories, which is what the firmware
leaves behind. One lemma per action keeps `IInv`; the refinement needs in
addition that a byte outside the newest record, or before the marker, leaves
what power-up restores as it was. `CachesStayTrue` is about the copies of the
EEPROM's contents the image keeps in RAM, the dirty flag and the occupancy bits.
They are written when a job is queued, so that they speak of the future: `CachesInv`
says of an unchanged configuration that it is what is stored, or what is on its way
(`CleanInv`), and of the occupancy bits that they are those of the EEPROM, but for the
preset a save in the writer is about to fill, or those an erase in the writer is going
to leave (`SaveAhead`, `EraseAhead`, `OccupancyInv`).

`CalibrationProofs` proves the four properties of the maintenance panel for every
set of profiles and residuals, every record length and any number of generations
from four: `JournalAlwaysSound`, `SignalsAlwaysTrue`, `RunningAlwaysStored` and
`StoreOnlyChangesBySaves`. They are consequences of one invariant, `PanelInv`,
whose parts need each other:

- `JournalInv` speaks of the two writers and the EEPROM. `WritersInv` says what each
  of the four jobs (`SaveJob`, `EraseJob`, `CertifyJob`, `ClearJob`) has done so far.
  Both writers may be at work: the certificate may be cleared while the journal is
  written or erased, though never certified. The cell of the byte in programming
  tells whose it is (`OfCertificate`), and a byte of one leaves the job of the other
  as it was. `Consecutive` is the heart of the
  wrap: a save takes the generation after the head's and overwrites the *other*
  record, so that two valid records are always one generation apart, and at that
  distance the code's cyclic comparison (`IsNewer`) is right for any number of
  generations from four (`ConsecutiveOrder`). `HeadInv` says whose generation that is: the
  head is the record a power-up loads, until the marker of a save is programmed,
  and from then on the record that save has written.
- `FlowInv` says where a workflow stands (32 positions in 16 places, from `Resting` to
  `Wiped`) and what is then true: what the job behind it will have stored (`SaveKept`,
  `CertifyKept`, `ClearAhead`, `EraseKept`), when no writer may be active, and, under
  `steady`, that the profile a failure would restore is the stored one. A PASS is true
  because the two last waits only end when both jobs are done.

`JournalInv` has a lemma for each effect on the journal (`...KeepsJournal`), whoever
causes it; the byte that is programmed, and the one a power loss cuts short, are one
lemma for each of the jobs (`SaveByte` and the like), stated of two memories of which
the second differs in one cell. `FlowInv` has one lemma per action of the panel. The action properties
come out of the same steps (`StoredStep`, `CancelStep`). `CellAssumption` is what
`EepromWriter` assumes of its bytes: markers, erased and torn cells differ from each
other and from any body.

`MenuProofs` first proves the five properties of the panel from `Sound`,
a predicate on a configuration: its type, linked channels with equal settings,
no arpeggio enabled in the quantizer layer. Every panel operation keeps it, and
decoding any record, also one with bytes out of range, establishes it. Restoring
exactly what is set then follows because a sound configuration is left alone by
the corrections of decoding. It then proves that every tick of the menu is one panel operation or leaves
the configuration alone, so that the properties of the panel hold of the menu. Its
pages are proved consistent (`PagesAlwaysConsistent`) with `PageInv`, which adds to
the property the type of what is shown (`PageShown`) and of what is held down
(`HeldTyped`).

`ControlInputsProofs` proves for every table of voltages, and whatever the voltage
does, that the debouncer looks at a key exactly while the last reading is within the
acceptance of that key (`KeysAreApartAlways`): the candidate follows every sample
(`CandidateIsRead`, the inductive part), and `LadderDecodes` says of every code what
it is decoded as.
`LadderAssumption` asks for what the firmware's table has: neighbours further apart
than two acceptances, and a rest range above the keys. The `static_assert` of
`AnalogConfig.h` states it of the last gap only. The scan picks the nearest value;
every other value is farther than the key, so the tie rule plays no part.
The other three properties of the inputs are proved as well, for windows and limits
of any length. `OnlyStableLevels` needs of both debouncers that the time a candidate has
lasted is the time it has been read (`LadderInv`, `ContactInv`); `ReportsAlwaysFollow` that the
button's and the keys' reports remember what the menu was told (`ReportInv`);
`GestureAlwaysDeliberate` that the recogniser's state and the clicks seen from
outside agree (`GestureInv`).

`QuantizerChannelProofs` has the lemmas about the operators of note selection and
about a step of the channel, for every scale, unit, range and width of the timers.
Its two difficulties are data. That `Min` and `Max` of the library, with which the
search is written, return what they should rests on `LeastExists`: a set of naturals
has a least element, which also stands in for induction wherever a counterexample
could be the least one. So `StepInScaleType` proves of the recursive walk in a scale
that it exists and stays in the range: no length of walk can be the first at which it
fails. `NearestIsNearest` says that the search outwards from the input finds the
nearest selected note, the upper one of two: it may stop in the first round that
finds one, because each round looks at both sides. `HoldBand` and `ThresholdsEncloseNote`
say what the hysteresis does to a note, `OppositeChangesLieApart` that the hold bands
of two notes overlap by twice the hysteresis. They need the hysteresis to be at most
half a semitone (`PitchAssumption`; the firmware has 102 units of 256).

`PitchAndGateProofs` proves with these, in `PitchPath`, that a note which has just been left is taken
again only when the input has moved by more than the overlap (`PathNeverChatters`),
that notes are of the scale and near the input (`NotesAlwaysFit`), and that a glide
never turns round or overshoots (`GlidesAlwaysApproach`). `TurnInv` keeps what the
history knows of the last change: the note left was not held there, the one taken
was the nearest.

In `GatedChannel` it proves, with the gate moving between any two reads and the panel
used at any time, that every rise the channel sees is one of the jack (`RisesAreReal`), that
Sample-and-Hold gives one note for each (`EdgesGiveOneNote`), and that an edit is
silent (`EditsStaySilent`). Each has its part of the invariant: `JackInv` says which
counts and levels are possible when nothing has risen since the channel saw it,
`EdgeInv` that a used edge has left no sample to wait for, and `EditInv` that after
an edit a change is either suppressed, or not looked for, or there is none to be
found (`Settled`), as the input has been quantized with the new settings already.

`ControlLoopProofs` proves three action properties of the loop and its interrupts, for
every length of the pulse, any number of ticks that wait, every odd window of the
filter and any calibration.

- `LevelsAreReal`: a filtered level lies between two voltages its own jack has had.
  `SampleInv` says that after the first round, which fills whole windows, at most one
  sample of a window is foreign, and that `quiet` tells which; where that round has
  read a spike (`stuck`), also those beyond it. When the next one may
  come, the window has moved on far enough for the last to have left it. With an odd
  window the median of three or more samples then has real ones on both sides
  (`MedianIsReal`), whatever the foreign one reads.
- `PulsesAlwaysLast`: a pulse that has started lasts, less the tick that may have been
  waiting when it rose. The loop counts a pulse in samples it has processed, while
  time passes in ticks it may not have taken yet, so `PulseInv` relates
  them: while the output is high, the ticks since it rose and the samples still to come
  make up the pulse, less the tick that may have waited when it rose, and all of it while
  another tick waits (`FallInv`); while it is low, only
  complete pulses are on their way (`RiseInv`); and the result of a pass is the
  channel's until the output has been written, unless a preset is loaded in between
  (`ResultInv`).
- `PitchesAlwaysComeWithTriggers`: a pass that moves the note at the DAC raises the
  trigger, and no other does. It does not hold of every configuration: a
  change of note is a change of pitch in the same pass only without a glide, and for
  every note only without a shift behind the scale, which is cut off at the ends of the
  range (`PlainConfigs`); and it shows at the jack only when two notes have different codes
  (`NotesHaveCodes`). Those are the theorem's hypotheses; the gate, the sample mode, the
  clock mode, the shifts before and in the scale and the trigger delay are free. With the factory calibration
  and at least as many codes as semitones the second follows
  (`FactoryPitchesComeWithTriggers`). `AnnounceInv` relates what the DAC was last sent to
  the channel's note: they agree between two passes (`SentInv`), except while an edit
  waits for the pass that sends what it has changed, which is the pass whose trigger is
  suppressed; within a pass the DAC is at the note before, and the channel has fired
  exactly if that is another one (`SteppedInv`, `MovedInv`). A bounded instance with all
  three sample modes, delays and both shifts agrees with the invariant.

`ArpeggiatorProofs` proves what the arpeggiator plays and when, for every length,
scale, range, rate, divider and multiplier, and any time between two ticks.

- What it plays. `FigureInv` says what the history keeps of a sweep: the positions of
  the last steps, each at its value of the counter, back to the last edit and to where
  the counter started again (`SweepInv`). A complete sweep then visits every position
  (`PatternsAlwaysVisitAll`), because so many consecutive counts leave every remainder,
  and each of these patterns has a step for every position
  (`EveryPositionHasItsStep`). `FiguresAlwaysPlayTheScale` is about the search for a
  degree: an octave passes each note of the scale once, wherever it starts
  (`OctavePassesScale`, a bijection), so that the range holds as many notes as it has
  degrees, and the least interval that has passed enough of them ends on a note
  (`DegreeIsFound`). The search must be able to go as far as the widest range
  (`FigureAssumption`: four octaves, where the firmware has ten).
- When it steps. `TimingInv` has the count of the divider agree with the edges heard
  at the jack (`EdgesAgree`), from which `StepsAlwaysFollowEdges` follows by division;
  and the time of the last multiplied step agree with its ideal time (`OnTime`), where
  a wrap of the counter keeps the short and the long part of a pair apart, the modulus
  being even. So `MultipliedAlwaysInTime`: no drift, and all the steps before the next
  edge. `PeriodAlwaysApproaches` only needs that the latest edge is younger than the
  one before the last tick.
- Swing in FREE is proved of the rates whose product fits its 16-bit word
  (`SwingHoldsInAWord`), and of every step when the panel sets no others
  (`SwingAlwaysBounded`). That hypothesis is needed: `swing_wraps` shows what the slow
  rates do.

Assumptions are the named `ASSUME`s of the modules, which TLC evaluates in the
runs. The invariants the proofs add to the properties were checked by TLC on the
instances of the runs before they were proved.

## 6. What is only model-checked

Liveness (`EditsEventuallyKept`, `GateAnswered`, `GlideArrives`,
`SteadyInputIsPlayed`), which is out of the prover's reach; and the three invariants of
the measurements of the calibration (`NotesSurviveTheLoop`, `VoltagesAreTrue`,
`GoodModulesPass`). Their accuracies are numbers of the instance, which depend on how
the error of a converter is distributed over its range; and the gains they speak of are
reduced by `Gcd`, a recursive function of which nothing can be proved without an
induction over its arguments. Every other property of a passing run is proved.

## 7. Plan

Order of work, the most important behaviour first:

1. Persistence with its proofs (done), calibration (done).
2. Panel configuration and menu with proofs (done), buttons, ladder and gesture
   (done).
3. Quantizer and trigger inputs with proofs (done), arpeggiator with proofs (done).
4. ADC interrupt, control loop, conversion and calibration arithmetic (done;
   the loop with proofs, the arithmetic model-checked).
5. Proofs of persistence, calibration panel, front panel and its inputs, quantizer
   channel, control loop and arpeggiator (done). What is left to TLC is in section 6.
6. Next modules: both channels with the relative mode in `ControlLoop`, and its
   arpeggiator in place of an interval of free choice.

## 8. Not modelled

The DAC, LED and SPI drivers and the rendering of LED frames (`MenuRenderer.cpp`,
`LedFrameEncoder.cpp`, `StartupAnimation.cpp`) are output without state that flows
back; what the loop sends to the DAC and to the trigger output is in `ControlLoop`.
The countdowns of the status LEDs count like the trigger's and are left out with
them. `MaintenanceFeedback.cpp` is blocking light patterns, `RuntimeDiagnostics.h`
counters of a timing build; build constants appear as CONSTANTS where they matter.
`AvrAnalogInputs::end` has no caller.
