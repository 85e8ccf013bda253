------------------------- MODULE ControlLoopProofs -------------------------
(***************************************************************************)
(* Proofs about module ControlLoop, for every odd window of the input      *)
(* filter, every length of the pulses, any number of pending ticks, any    *)
(* calibration and whatever the gate does: a filtered level is a voltage   *)
(* of its jack, a pulse that has started lasts, and a pitch comes with its *)
(* trigger.                                                                *)
(***************************************************************************)
EXTENDS ControlLoop, QuantizerChannelProofs, SequenceTheorems

Window == 1 .. FilterWindow

\* At most one sample of a window is no voltage of its jack, and quiet tells which one;
\* unless the first round, which fills whole windows, has read a spike: then all of the
\* samples up to that one may be none.
SampleInv ==
    /\ ~discard => settled
    /\ fresh => primed
    /\ level \in [Channel -> Nat] /\ \A c \in Channel : level[c] \in Levels[c]
    /\ \A c \in Channel : stuck[c] => quiet[c] # 0
    /\ \A c \in Channel : (primed \/ c < channel) =>
         \A i \in Window : history[c][i] \in Levels[c] \/ i = quiet[c] + 1
                             \/ (stuck[c] /\ i <= quiet[c] + 1)

\* What is still to come of a pulse the quantizer has started.
OutputLeft == outputTriggerCountdown - (TriggerLedTimeSamples - TriggerCvTimeSamples)

Waiting == IF pending = 0 THEN 0 ELSE 1

InPass == phase \in {"stepped", "written"}

\* Between step and output the result is that of the channel, unless a preset has
\* just reset it.
ResultInv ==
    /\ phase = "stepped" => hasLastOutput
    /\ (InPass /\ hasLastOutput) => (result.trigger <=> OutputTrigger)
    /\ ~hasLastOutput => ~OutputTrigger
    /\ phase = "boot" => ~triggerOut /\ pending = 0

\* While the output is low, the only pulses on their way are complete ones.
RiseInv ==
    ~triggerOut =>
      /\ OutputTrigger => InPass /\ OutputLeft = TriggerCvTimeSamples
      /\ arpTriggerTicks # 0 =>
           phase = "written" /\ arpTriggerTicks = TriggerCvTimeSamples

\* While it is high, the ticks since it rose and the samples still to come make up
\* the pulse, less the tick that may have waited when it rose. That tick is made good
\* for as long as another one waits.
FallInv ==
    triggerOut =>
      /\ (InPass /\ ~result.trigger /\ arpTriggerTicks = 0)
           => high >= TriggerCvTimeSamples - 1
      /\ hasLastOutput =>
           \/ high + OutputLeft >= TriggerCvTimeSamples - 1 + Waiting
           \/ high + arpTriggerTicks >= TriggerCvTimeSamples - 1 + Waiting
           \/ /\ phase = "idle"
              /\ high + arpTriggerTicks >= TriggerCvTimeSamples - 2 + Waiting

PulseInv == ResultInv /\ RiseInv /\ FallInv

LoopInv == TypeOK /\ SampleInv /\ PulseInv

\* Without a glide and a shift behind the scale, a change of note is a change of pitch.
PlainConfigs == \A c \in Configs : c.glideAmount = 0 /\ c.postShift = 0

CodeOf(note) == SemitonesToDac(note * One, DacCalibration)

NotesHaveCodes == \A m, n \in Semitone : CodeOf(m) = CodeOf(n) => m = n

JustFired == outputTriggerCountdown = TriggerLedTimeSamples

\* The pitch is that of the note at every moment.
NoteInv ==
    /\ config \in Configs
    /\ lastGlideTarget = lastNominalSemitones * GlideOne
    /\ lastGlideCurrent = lastGlideTarget

\* Outside a pass the DAC has the note of the channel, unless the panel has just been
\* used: it takes a pass to send what an edit has made of the note, and in that pass
\* the trigger is suppressed.
SentInv ==
    (phase # "stepped" /\ panel # "now") =>
      /\ ~suppressNextOutputTrigger
      /\ IF hasLastOutput THEN ~arpEnabled => dac = CodeOf(lastNominalSemitones)
         ELSE phase # "written" /\ dac = Unwritten

\* After the step it has the note before, and the step has fired if that is another one.
SteppedInv ==
    phase = "stepped" =>
      /\ ~suppressNextOutputTrigger
      /\ result.pitch = lastNominalSemitones * One
      /\ (panel # "now" /\ ~arpEnabled) =>
           \/ dac = Unwritten /\ ~JustFired
           \/ \E note \in Semitone :
                dac = CodeOf(note) /\ (JustFired <=> note # lastNominalSemitones)

MovedInv ==
    (phase = "written" /\ panel = "no" /\ ~arpEnabled) => (moved <=> JustFired)

AnnounceInv == NoteInv /\ SentInv /\ SteppedInv /\ MovedInv

-----------------------------------------------------------------------------
(***************************************************************************)
(* The median of a window                                                  *)
(***************************************************************************)

LEMMA WindowSize ==
    /\ FilterWindow \in Nat /\ FilterWindow \div 2 \in Nat
    /\ FilterWindow \div 2 >= 1 /\ FilterWindow \div 2 < FilterWindow - 1
  BY AnalogAssumption

LEMMA WindowIsFinite == IsFiniteSet(Window) /\ Cardinality(Window) = FilterWindow
<1>1. FilterWindow \in Nat /\ FilterWindow >= 3
  BY AnalogAssumption
<1> QED
  BY <1>1, FS_Interval DEF Window

LEMMA PartOfWindow ==
    ASSUME NEW S \in SUBSET Window
    PROVE  Cardinality(S) \in Nat
<1>1. IsFiniteSet(S)
  BY WindowIsFinite, FS_Subset
<1> QED
  BY <1>1, FS_CardinalityType

\* Every window has a median: the least code that more than half of the samples do
\* not exceed is one of them, and not more than half of them lie below it.
LEMMA MedianIsMiddle ==
    ASSUME NEW samples \in [Window -> AdcCode]
    PROVE  /\ Median(samples) \in Range(samples)
           /\ Cardinality({i \in Window : samples[i] < Median(samples)}) <= FilterWindow \div 2
           /\ Cardinality({i \in Window : samples[i] <= Median(samples)}) > FilterWindow \div 2
<1> DEFINE upTo(v) == {i \in Window : samples[i] <= v}
           below(v) == {i \in Window : samples[i] < v}
           Enough == {v \in Nat : Cardinality(upTo(v)) > FilterWindow \div 2}
<1>1. /\ AdcMaximumCode \in Nat
      /\ \A i \in Window : samples[i] \in Nat /\ samples[i] <= AdcMaximumCode
  BY ConverterAssumption DEF AdcCode
<1>2. AdcMaximumCode \in Enough
  <2>1. upTo(AdcMaximumCode) = Window
    BY <1>1
  <2> QED
    BY <1>1, <2>1, WindowIsFinite, WindowSize
<1>3. PICK v \in Enough : \A w \in Enough : v <= w
  BY <1>2, LeastExists
<1>4. v \in Nat /\ Cardinality(upTo(v)) > FilterWindow \div 2
  BY <1>3
<1>5. Cardinality(below(v)) <= FilterWindow \div 2
  <2>1. CASE v = 0
    <3>1. below(v) = {}
      BY <1>1, <2>1
    <3> QED
      BY <3>1, FS_EmptySet, WindowSize
  <2>2. CASE v # 0
    <3>1. v - 1 \in Nat /\ ~(v <= v - 1)
      BY <1>4, <2>2
    <3>2. below(v) = upTo(v - 1)
      BY <1>1, <1>4, <3>1
    <3>3. ~(Cardinality(upTo(v - 1)) > FilterWindow \div 2)
      BY <1>3, <3>1
    <3>4. upTo(v - 1) \in SUBSET Window
      OBVIOUS
    <3>5. Cardinality(upTo(v - 1)) \in Nat
      BY <3>4, PartOfWindow
    <3>6. Cardinality(upTo(v - 1)) <= FilterWindow \div 2
      BY <3>3, <3>5, WindowSize
    <3> QED
      BY <3>2, <3>6
  <2> QED
    BY <2>1, <2>2
<1>6. v \in Range(samples)
  <2>1. upTo(v) \in SUBSET Window /\ below(v) \in SUBSET Window
    OBVIOUS
  <2>2. Cardinality(upTo(v)) \in Nat /\ Cardinality(below(v)) \in Nat
    BY <2>1, PartOfWindow
  <2>3. upTo(v) # below(v)
    BY <1>4, <1>5, <2>2, WindowSize
  <2>4. \E i \in Window : samples[i] = v
    BY <1>1, <1>4, <2>3
  <2> QED
    BY <2>4 DEF Range
<1>7. DOMAIN samples = Window
  OBVIOUS
<1>8. \E code \in Range(samples) :
        LET low == {i \in DOMAIN samples : samples[i] < code}
            most == {i \in DOMAIN samples : samples[i] <= code}
        IN  /\ Cardinality(low) <= FilterWindow \div 2
            /\ Cardinality(most) > FilterWindow \div 2
  BY <1>4, <1>5, <1>6, <1>7
<1> QED
  BY <1>7, <1>8 DEF Median

\* When all samples but one are voltages of the jack, the median lies between two.
LEMMA MedianIsReal ==
    ASSUME NEW samples \in [Window -> AdcCode], NEW levels \in SUBSET Nat, NEW odd \in Nat,
           \A i \in Window : samples[i] \in levels \/ i = odd
    PROVE  \E low, top \in levels : low <= Median(samples) /\ Median(samples) <= top
<1> DEFINE median == Median(samples)
           below == {i \in Window : samples[i] < median}
           upTo == {i \in Window : samples[i] <= median}
<1>1. /\ median \in Range(samples)
      /\ Cardinality(below) <= FilterWindow \div 2
      /\ Cardinality(upTo) > FilterWindow \div 2
  BY MedianIsMiddle
<1>2. /\ median \in Nat
      /\ \A i \in Window : samples[i] \in Nat
  BY <1>1, ConverterAssumption DEF AdcCode, Range
<1> HIDE DEF median
<1>3. \E low \in levels : low <= median
  <2> SUFFICES ASSUME \A low \in levels : ~(low <= median) PROVE FALSE
    OBVIOUS
  <2>1. upTo \subseteq {odd}
    BY <1>2
  <2>2. IsFiniteSet({odd}) /\ Cardinality({odd}) = 1
    BY FS_Singleton
  <2>3. Cardinality(upTo) <= 1
    BY <2>1, <2>2, FS_Subset
  <2>4. upTo \in SUBSET Window
    OBVIOUS
  <2>5. Cardinality(upTo) \in Nat
    BY <2>4, PartOfWindow
  <2> QED
    BY <1>1, <2>3, <2>5, WindowSize
<1>4. \E top \in levels : median <= top
  <2> SUFFICES ASSUME \A top \in levels : ~(median <= top) PROVE FALSE
    OBVIOUS
  <2>1. Window \ {odd} \subseteq below
    BY <1>2
  <2>2. IsFiniteSet(Window \ {odd}) /\ Cardinality(Window \ {odd}) >= FilterWindow - 1
    <3>1. /\ IsFiniteSet(Window \ {odd})
          /\ Cardinality(Window \ {odd}) = IF odd \in Window THEN Cardinality(Window) - 1
                                            ELSE Cardinality(Window)
      BY WindowIsFinite, FS_RemoveElement
    <3>2. Cardinality(Window) = FilterWindow
      BY WindowIsFinite
    <3>3. Cardinality(Window \ {odd}) >= FilterWindow - 1
      BY <3>1, <3>2, WindowSize
    <3> QED
      BY <3>1, <3>3
  <2>3. below \in SUBSET Window
    OBVIOUS
  <2>4. IsFiniteSet(below) /\ Cardinality(below) \in Nat
    BY <2>3, PartOfWindow, WindowIsFinite, FS_Subset
  <2>5. Cardinality(Window \ {odd}) <= Cardinality(below)
    BY <2>1, <2>4, FS_Subset
  <2>6. Cardinality(Window \ {odd}) \in Nat
    BY <2>2, FS_CardinalityType
  <2> QED
    BY <1>1, <2>2, <2>4, <2>5, <2>6, WindowSize
<1> QED
  BY <1>3, <1>4 DEF median

-----------------------------------------------------------------------------
(***************************************************************************)
(* The converters                                                          *)
(***************************************************************************)

LEMMA QuotientBound ==
    ASSUME NEW a \in Nat, NEW b \in Nat, NEW d \in Nat \ {0}, a <= b * d
    PROVE  a \div d \in 0 .. b
<1>1. a \div d \in Nat /\ (a \div d) * d <= a
  OBVIOUS
<1>2. ASSUME NEW q \in Nat, q * d <= a, ~(q <= b) PROVE FALSE
  <2>1. q - b - 1 \in Nat /\ q = b + 1 + (q - b - 1)
    BY <1>2
  <2>2. PICK r \in Nat : q = b + 1 + r
    BY <2>1
  <2>3. q * d = b * d + d + r * d
    BY <2>2
  <2>4. r * d \in Nat /\ b * d \in Nat
    OBVIOUS
  <2> QED
    BY <1>2, <2>3, <2>4
<1> QED
  BY <1>1, <1>2

LEMMA RoundedBound ==
    ASSUME NEW a \in Nat, NEW b \in Nat, NEW d \in Nat \ {0}, a <= b * d
    PROVE  RoundedQuotient(a, d) \in 0 .. b
<1>1. d \div 2 \in Nat /\ d \div 2 < d
  OBVIOUS
<1> DEFINE sum == a + d \div 2
<1>2. sum \in Nat /\ sum < b * d + d
  <2>1. b * d \in Nat
    OBVIOUS
  <2> QED
    BY <1>1, <2>1
<1> HIDE DEF sum
<1>3. sum \div d \in Nat /\ (sum \div d) * d <= sum
  BY <1>2
<1>4. ASSUME NEW q \in Nat, q * d <= sum, ~(q <= b) PROVE FALSE
  <2>1. q - b - 1 \in Nat /\ q = b + 1 + (q - b - 1)
    BY <1>4
  <2>2. PICK r \in Nat : q = b + 1 + r
    BY <2>1
  <2>3. q * d = b * d + d + r * d
    BY <2>2
  <2>4. r * d \in Nat /\ b * d \in Nat
    OBVIOUS
  <2> QED
    BY <1>2, <1>4, <2>3, <2>4
<1>5. RoundedQuotient(a, d) = sum \div d
  BY DEF RoundedQuotient, sum
<1> QED
  BY <1>3, <1>4, <1>5

\* A code times the highest pitch, or a pitch times the highest code.
LEMMA ProductBound ==
    ASSUME NEW top \in Nat, NEW part \in 0 .. top, NEW scale \in Nat
    PROVE  part * scale \in Nat /\ part * scale <= scale * top
<1>1. top - part \in Nat /\ top = part + (top - part)
  OBVIOUS
<1>2. PICK rest \in Nat : top = part + rest
  BY <1>1
<1>3. scale * top = part * scale + rest * scale
  BY <1>2
<1>4. part * scale \in Nat /\ rest * scale \in Nat
  OBVIOUS
<1> QED
  BY <1>3, <1>4

LEMMA ConverterRanges ==
    /\ AdcMaximumCode \in Nat \ {0} /\ DacMaximumCode \in Nat \ {0} /\ MaxPitch \in Nat \ {0}
    /\ AdcCode = 0 .. AdcMaximumCode /\ DacCode = 0 .. DacMaximumCode /\ Pitch = 0 .. MaxPitch
<1>1. MaxSemitone \in Nat \ {0} /\ One \in Nat \ {0}
  BY PitchAssumption, ConverterAssumption
<1>2. MaxSemitone * One \in Nat \ {0}
  BY <1>1
<1> QED
  BY <1>2, ConverterAssumption DEF AdcCode, DacCode, MaxPitch, Pitch

LEMMA ScaledType ==
    ASSUME NEW calibration \in LinearCalibration, NEW code \in Nat
    PROVE  Scaled(code, calibration) \in Int
<1>1. calibration.gainNumerator \in Nat /\ calibration.gainDenominator \in Nat \ {0}
  BY DEF LinearCalibration
<1>2. code * calibration.gainNumerator \in Nat
  BY <1>1
<1>3. ASSUME NEW a \in Nat, NEW d \in Nat \ {0} PROVE (a + d \div 2) \div d \in Int
  OBVIOUS
<1> QED
  BY <1>1, <1>2, <1>3 DEF Scaled, RoundedQuotient

LEMMA AdcToSemitonesType ==
    ASSUME NEW calibration \in LinearCalibration, NEW raw \in AdcCode
    PROVE  AdcToSemitones(raw, calibration) \in Pitch
<1> DEFINE code == ApplyAdcCalibration(raw, calibration)
<1>1. raw \in Int /\ calibration.offset \in Int /\ AdcMaximumCode \in Nat
  BY ConverterRanges DEF LinearCalibration
<1>2. Clamp(raw + calibration.offset, 0, AdcMaximumCode) \in 0 .. AdcMaximumCode
  <2>1. raw + calibration.offset \in Int
    BY <1>1
  <2> QED
    BY <1>1, <2>1, ClampType
<1>3. Scaled(Clamp(raw + calibration.offset, 0, AdcMaximumCode), calibration) \in Int
  BY <1>2, ScaledType, ConverterRanges
<1>4. code \in 0 .. AdcMaximumCode
  BY <1>3, ClampType, ConverterRanges DEF ApplyAdcCalibration
<1> HIDE DEF code
<1>5. code * MaxPitch \in Nat /\ code * MaxPitch <= MaxPitch * AdcMaximumCode
  BY <1>4, ProductBound, ConverterRanges
<1>6. RoundedQuotient(code * MaxPitch, AdcMaximumCode) \in 0 .. MaxPitch
  BY <1>5, RoundedBound, ConverterRanges
<1> QED
  BY <1>6, ConverterRanges DEF AdcToSemitones, code

LEMMA SemitonesToDacType ==
    ASSUME NEW calibration \in LinearCalibration, NEW pitch \in Pitch
    PROVE  SemitonesToDac(pitch, calibration) \in DacCode
<1> DEFINE code == SemitonesToNominalDac(pitch)
<1>1. pitch \in Int /\ calibration.offset \in Int /\ MaxPitch \in Nat /\ DacMaximumCode \in Nat
  BY ConverterRanges DEF LinearCalibration
<1>2. Clamp(pitch, 0, MaxPitch) \in 0 .. MaxPitch
  BY <1>1, ClampType
<1>3. /\ Clamp(pitch, 0, MaxPitch) * DacMaximumCode \in Nat
      /\ Clamp(pitch, 0, MaxPitch) * DacMaximumCode <= DacMaximumCode * MaxPitch
  BY <1>1, <1>2, ProductBound
<1>4. code \in 0 .. DacMaximumCode
  BY <1>3, RoundedBound, ConverterRanges DEF SemitonesToNominalDac
<1> HIDE DEF code
<1>5. Clamp(code, 0, DacMaximumCode) \in 0 .. DacMaximumCode
  <2>1. code \in Int
    BY <1>1, <1>4
  <2> QED
    BY <1>1, <2>1, ClampType
<1>6. Scaled(Clamp(code, 0, DacMaximumCode), calibration) \in Int
  BY <1>5, ScaledType
<1>7. Scaled(Clamp(code, 0, DacMaximumCode), calibration) + calibration.offset \in Int
  BY <1>1, <1>6
<1>8. ApplyDacCalibration(code, calibration) \in 0 .. DacMaximumCode
  BY <1>7, ClampType, ConverterRanges DEF ApplyDacCalibration
<1> QED
  BY <1>8, ConverterRanges DEF SemitonesToDac, code

LEMMA GlideIsPitch ==
    ASSUME NEW glide \in Glide
    PROVE  (glide * One) \div GlideOne \in Pitch
<1>1. One \in Nat /\ GlideOne \in Nat \ {0} /\ MaxSemitone \in Nat
  BY PitchAssumption, ChannelAssumption
<1>2. MaxSemitone * GlideOne \in Nat /\ glide \in 0 .. MaxSemitone * GlideOne
  BY <1>1 DEF Glide
<1>3. glide * One \in Nat /\ glide * One <= One * (MaxSemitone * GlideOne)
  BY <1>1, <1>2, ProductBound
<1>4. One * (MaxSemitone * GlideOne) = (MaxSemitone * One) * GlideOne
  BY <1>1
<1>5. MaxSemitone * One \in Nat
  BY <1>1
<1> QED
  BY <1>1, <1>3, <1>4, <1>5, QuotientBound DEF Pitch

-----------------------------------------------------------------------------
(***************************************************************************)
(* The samples                                                             *)
(***************************************************************************)

LEMMA CodeSets ==
    /\ Codes \cup {0} \subseteq AdcCode /\ AdcCode \subseteq Nat
    /\ \A c \in Channel : Levels[c] \in SUBSET Nat /\ Levels[c] \subseteq Codes /\ Spikes[c] \subseteq Codes
    /\ LastChannel \in Nat /\ Channel = 0 .. LastChannel
<1>1. Codes \cup {0} \subseteq AdcCode /\ AdcCode \subseteq Nat
  BY LoopAssumption, ConverterRanges
<1>2. \A c \in Channel : Levels[c] \in SUBSET Nat /\ Levels[c] \subseteq Codes /\ Spikes[c] \subseteq Codes
  BY AnalogAssumption DEF Codes
<1>3. LastChannel \in Nat /\ Channel = 0 .. LastChannel
  BY AnalogAssumption DEF Channel
<1> QED
  BY <1>1, <1>2, <1>3

LEMMA ShiftedWindow ==
    ASSUME NEW old \in [Window -> Codes \cup {0}], NEW code \in Codes \cup {0}
    PROVE  /\ Append(Tail(old), code) \in [Window -> Codes \cup {0}]
           /\ \A i \in Window : i # FilterWindow =>
                i + 1 \in Window /\ Append(Tail(old), code)[i] = old[i + 1]
           /\ Append(Tail(old), code)[FilterWindow] = code
<1> DEFINE S == Codes \cup {0}
           new == Append(Tail(old), code)
<1>0. old \in [Window -> S] /\ code \in S
  OBVIOUS
<1> HIDE DEF S
<1>1. FilterWindow \in Nat /\ FilterWindow >= 3
  BY AnalogAssumption
<1>2. old \in Seq(S) /\ Len(old) = FilterWindow /\ old # << >>
  BY <1>0, <1>1 DEF Window
<1>3. /\ Tail(old) \in Seq(S) /\ Len(Tail(old)) = FilterWindow - 1
      /\ \A i \in 1 .. FilterWindow - 1 : Tail(old)[i] = old[i + 1]
  BY <1>1, <1>2, HeadTailProperties
<1>4. /\ new \in Seq(S) /\ Len(new) = FilterWindow
      /\ \A i \in 1 .. FilterWindow - 1 : new[i] = Tail(old)[i]
      /\ new[FilterWindow] = code
  BY <1>0, <1>1, <1>3, AppendProperties
<1> HIDE DEF new
<1>5. new \in [Window -> S]
  BY <1>4, LenProperties DEF Window
<1>6. \A i \in Window : i # FilterWindow => i + 1 \in Window /\ new[i] = old[i + 1]
  BY <1>1, <1>3, <1>4 DEF Window
<1> QED
  BY <1>4, <1>5, <1>6 DEF new, S

LEMMA TurnKeepsSamples ==
    ASSUME AnalogTypeOK, SampleInv, NEW c \in Channel, Turn(c)
    PROVE  AnalogTypeOK' /\ SampleInv'
<1>1. PICK code \in Levels[c] : level' = [level EXCEPT ![c] = code]
  BY DEF Turn
<1>2. code \in Codes /\ code \in Nat
  BY CodeSets
<1>3. UNCHANGED <<settled, quiet, channel, discard, primed, history, fresh, snapshot, stuck>>
  BY DEF Turn, adcVars
<1>4. level' \in [Channel -> Codes]
  BY <1>1, <1>2 DEF AnalogTypeOK
<1>5. level' \in [Channel -> Nat] /\ \A d \in Channel : level'[d] \in Levels[d]
  BY <1>1, <1>2 DEF SampleInv
<1>6. AnalogTypeOK'
  BY <1>3, <1>4 DEF AnalogTypeOK
<1> QED
  BY <1>3, <1>5, <1>6 DEF SampleInv

\* What a conversion that is kept may read.
LEMMA ReadIsReal ==
    ASSUME AnalogTypeOK, SampleInv, ~discard, NEW code \in Codes, Reads(code)
    PROVE  /\ code = level[channel] => code \in Levels[channel]
           /\ code # level[channel] => quiet[channel] = 0
<1>1. settled /\ channel \in Channel
  BY DEF SampleInv, AnalogTypeOK
<1> QED
  BY <1>1 DEF SampleInv, Reads, MayBeDisturbed

LEMMA ConversionTypes ==
    ASSUME AnalogTypeOK, Convert
    PROVE  AnalogTypeOK'
<1>1. PICK code \in Codes :
        /\ Reads(code)
        /\ history' = Keep(code)
        /\ quiet' = [quiet EXCEPT ![channel] =
                        IF code # level[channel] THEN FilterWindow - 1
                        ELSE IF @ = 0 THEN 0 ELSE @ - 1]
        /\ stuck' = [stuck EXCEPT ![channel] =
                        quiet'[channel] # 0 /\ (@ \/ ~primed)]
  BY DEF Convert
<1>2. channel \in Channel /\ LastChannel \in Nat /\ Channel = 0 .. LastChannel
  BY CodeSets DEF AnalogTypeOK
<1>3. history \in [Channel -> [Window -> Codes \cup {0}]] /\ code \in Codes \cup {0}
  BY DEF AnalogTypeOK, Window
<1>4. history' \in [Channel -> [Window -> Codes \cup {0}]]
  <2>1. Append(Tail(history[channel]), code) \in [Window -> Codes \cup {0}]
    BY <1>2, <1>3, ShiftedWindow
  <2>2. [i \in Window |-> code] \in [Window -> Codes \cup {0}]
    BY <1>3
  <2> QED
    BY <1>1, <1>2, <1>3, <2>1, <2>2 DEF Keep, Window
<1>5. quiet' \in [Channel -> 0 .. FilterWindow - 1]
  <2>1. FilterWindow - 1 \in Nat /\ quiet \in [Channel -> 0 .. FilterWindow - 1]
    BY WindowSize DEF AnalogTypeOK
  <2>2. quiet[channel] \in 0 .. FilterWindow - 1
    BY <1>2, <2>1
  <2>3. (IF code # level[channel] THEN FilterWindow - 1
         ELSE IF quiet[channel] = 0 THEN 0 ELSE quiet[channel] - 1) \in 0 .. FilterWindow - 1
    BY <2>1, <2>2
  <2> QED
    BY <1>1, <1>2, <2>1, <2>3
<1>6. channel' \in Channel
  BY <1>2 DEF Convert, SelectChannel
<1>7. settled' \in BOOLEAN /\ discard' \in BOOLEAN /\ primed' \in BOOLEAN /\ fresh' \in BOOLEAN
  BY DEF Convert, SelectChannel, AnalogTypeOK
<1>8. level' = level /\ snapshot' = snapshot
  BY DEF Convert
<1>9. stuck' \in [Channel -> BOOLEAN]
  BY <1>1, <1>2 DEF AnalogTypeOK
<1> QED
  BY <1>4, <1>5, <1>6, <1>7, <1>8, <1>9 DEF AnalogTypeOK, Window

LEMMA ConversionKeepsSamples ==
    ASSUME AnalogTypeOK, SampleInv, Convert
    PROVE  SampleInv'
<1>1. PICK code \in Codes :
        /\ Reads(code)
        /\ history' = Keep(code)
        /\ quiet' = [quiet EXCEPT ![channel] =
                        IF code # level[channel] THEN FilterWindow - 1
                        ELSE IF @ = 0 THEN 0 ELSE @ - 1]
        /\ stuck' = [stuck EXCEPT ![channel] =
                        quiet'[channel] # 0 /\ (@ \/ ~primed)]
  BY DEF Convert
<1>2. /\ channel \in Channel /\ LastChannel \in Nat /\ Channel = 0 .. LastChannel
      /\ channel' = IF channel = LastChannel THEN 0 ELSE channel + 1
      /\ primed => primed'
      /\ channel = LastChannel => primed'
      /\ primed' => primed \/ channel = LastChannel
  BY CodeSets DEF AnalogTypeOK, Convert, SelectChannel, EndsRound
<1>3. ~discard /\ discard' /\ level' = level
  BY DEF Convert, SelectChannel
<1>4. /\ code = level[channel] => code \in Levels[channel]
      /\ code # level[channel] => quiet[channel] = 0
  BY <1>1, <1>3, ReadIsReal
<1>5. /\ history \in [Channel -> [Window -> Codes \cup {0}]] /\ code \in Codes \cup {0}
      /\ quiet \in [Channel -> 0 .. FilterWindow - 1] /\ FilterWindow \in Nat
      /\ stuck \in [Channel -> BOOLEAN]
  BY WindowSize DEF AnalogTypeOK, Window
<1>6. fresh' => primed'
  BY DEF Convert, SampleInv
<1>7. \A c \in Channel : stuck'[c] => quiet'[c] # 0
  <2> SUFFICES ASSUME NEW c \in Channel, stuck'[c] PROVE quiet'[c] # 0
    OBVIOUS
  <2>1. CASE c = channel
    BY <1>1, <1>2, <1>5, <2>1
  <2>2. CASE c # channel
    BY <1>1, <1>2, <1>5, <2>2 DEF SampleInv
  <2> QED
    BY <2>1, <2>2
<1>8. ASSUME NEW c \in Channel, primed' \/ c < channel', NEW i \in Window
      PROVE  history'[c][i] \in Levels[c] \/ i = quiet'[c] + 1
             \/ (stuck'[c] /\ i <= quiet'[c] + 1)
  <2>1. CASE c # channel
    <3>1. history'[c] = history[c] /\ quiet'[c] = quiet[c] /\ stuck'[c] = stuck[c]
      BY <1>1, <1>2, <1>5, <2>1 DEF Keep
    <3>2. primed \/ c < channel
      BY <1>2, <1>8, <2>1
    <3> QED
      BY <1>2, <3>1, <3>2 DEF SampleInv
  <2>2. CASE c = channel /\ ~primed
    <3>1. history'[c] = [j \in Window |-> code]
      BY <1>1, <1>2, <1>5, <2>2 DEF Keep, Window
    <3>2. CASE code = level[c]
      BY <1>4, <2>2, <3>1, <3>2
    <3>3. CASE code # level[c]
      <4>1. quiet'[c] = FilterWindow - 1 /\ stuck'[c] = (quiet'[c] # 0)
        BY <1>1, <1>2, <1>5, <2>2, <3>3
      <4>2. FilterWindow - 1 # 0 /\ i <= FilterWindow - 1 + 1
        BY <1>5, WindowSize DEF Window
      <4> QED
        BY <4>1, <4>2
    <3> QED
      BY <3>2, <3>3
  <2>3. CASE c = channel /\ primed
    <3> DEFINE old == history[c]
    <3>1. history'[c] = Append(Tail(old), code) /\ old \in [Window -> Codes \cup {0}]
      BY <1>1, <1>2, <1>5, <2>3 DEF Keep
    <3>2. /\ i # FilterWindow => i + 1 \in Window /\ history'[c][i] = old[i + 1]
          /\ history'[c][FilterWindow] = code
      <4>1. old \in [Window -> Codes \cup {0}] /\ code \in Codes \cup {0}
        BY <1>5, <3>1
      <4> HIDE DEF old
      <4>2. /\ \A j \in Window : j # FilterWindow => j + 1 \in Window /\ history'[c][j] = old[j + 1]
            /\ history'[c][FilterWindow] = code
        BY <3>1, <4>1, ShiftedWindow
      <4> QED
        BY <4>2
    <3>3. \A j \in Window : old[j] \in Levels[c] \/ j = quiet[c] + 1
                             \/ (stuck[c] /\ j <= quiet[c] + 1)
      BY <2>3 DEF SampleInv
    <3>4. quiet'[c] = IF code # level[c] THEN FilterWindow - 1
                      ELSE IF quiet[c] = 0 THEN 0 ELSE quiet[c] - 1
      BY <1>1, <1>2, <1>5, <2>3
    <3>5. quiet[c] \in Nat /\ i \in Nat /\ i >= 1
      BY <1>5 DEF Window
    <3> HIDE DEF old
    <3>6. CASE i = FilterWindow
      <4>1. CASE code = level[c]
        BY <1>4, <2>3, <3>2, <3>6, <4>1
      <4>2. CASE code # level[c]
        <5>1. i = quiet'[c] + 1
          BY <1>5, <3>4, <3>6, <4>2
        <5> QED
          BY <5>1
      <4> QED
        BY <4>1, <4>2
    <3>7. CASE i # FilterWindow
      <4>1. CASE old[i + 1] \in Levels[c]
        BY <3>2, <3>7, <4>1
      <4>2. CASE old[i + 1] \notin Levels[c]
        <5>1. i + 1 = quiet[c] + 1 \/ (stuck[c] /\ i + 1 <= quiet[c] + 1)
          BY <3>2, <3>3, <3>7, <4>2
        <5>2. i <= quiet[c] /\ (i # quiet[c] => stuck[c])
          BY <3>5, <5>1
        <5>3. quiet'[c] = quiet[c] - 1
          BY <1>4, <2>3, <3>4, <3>5, <5>2
        <5>4. CASE i = quiet[c]
          BY <3>5, <5>3, <5>4
        <5>5. CASE i # quiet[c]
          <6>1. quiet'[c] # 0 /\ i <= quiet'[c] + 1
            BY <3>5, <5>2, <5>3, <5>5
          <6>2. stuck'[c] = (quiet'[c] # 0 /\ (stuck[c] \/ ~primed))
            BY <1>1, <1>2, <1>5, <2>3
          <6>3. stuck'[c]
            BY <5>2, <5>5, <6>1, <6>2
          <6> QED
            BY <6>1, <6>3
        <5> QED
          BY <5>4, <5>5
      <4> QED
        BY <4>1, <4>2
    <3> QED
      BY <3>6, <3>7
  <2> QED
    BY <2>1, <2>2, <2>3
<1> QED
  BY <1>3, <1>6, <1>7, <1>8 DEF SampleInv

LEMMA InterruptKeepsSamples ==
    ASSUME AnalogTypeOK, SampleInv, OnConversion
    PROVE  AnalogTypeOK' /\ SampleInv'
<1>1. CASE Discard
  BY <1>1 DEF Discard, AnalogTypeOK, SampleInv
<1>2. CASE Convert
  BY <1>2, ConversionTypes, ConversionKeepsSamples
<1> QED
  BY <1>1, <1>2 DEF OnConversion

LEMMA CopyKeepsSamples ==
    ASSUME AnalogTypeOK, SampleInv, BeginCycle
    PROVE  AnalogTypeOK' /\ SampleInv'
<1>1. ASSUME NEW c \in Channel PROVE Published(c) \in Codes \cup {0}
  <2>1. history[c] \in [Window -> Codes \cup {0}]
    BY DEF AnalogTypeOK, Window
  <2>2. history[c] \in [Window -> AdcCode]
    BY <2>1, CodeSets
  <2>3. Median(history[c]) \in Range(history[c])
    BY <2>2, MedianIsMiddle
  <2> QED
    BY <2>1, <2>3 DEF Published, Range
<1>2. snapshot' \in [Channel -> Codes \cup {0}]
  BY <1>1 DEF BeginCycle
<1>3. fresh' = FALSE /\ UNCHANGED <<level, settled, quiet, channel, discard, primed, history, stuck>>
  BY DEF BeginCycle, adcVars
<1>4. AnalogTypeOK'
  BY <1>2, <1>3 DEF AnalogTypeOK
<1>5. SampleInv'
  BY <1>3 DEF SampleInv
<1> QED
  BY <1>4, <1>5

\* The copy of a complete round lies between two voltages of the jack.
LEMMA CopyIsReal ==
    ASSUME AnalogTypeOK, SampleInv, fresh, NEW c \in Channel, ~stuck[c]
    PROVE  \E low, top \in Levels[c] : low <= Published(c) /\ Published(c) <= top
<1>1. history[c] \in [Window -> AdcCode]
  BY CodeSets DEF AnalogTypeOK, Window
<1>2. \A i \in Window : history[c][i] \in Levels[c] \/ i = quiet[c] + 1
  BY DEF SampleInv
<1>3. quiet[c] + 1 \in Nat /\ Levels[c] \in SUBSET Nat
  BY CodeSets, WindowSize DEF AnalogTypeOK
<1> QED
  BY <1>1, <1>2, <1>3, MedianIsReal DEF Published

-----------------------------------------------------------------------------
(***************************************************************************)
(* Types                                                                   *)
(***************************************************************************)

LEMMA UnreadSamples ==
    ASSUME AnalogTypeOK, SampleInv, UNCHANGED analogVars
    PROVE  AnalogTypeOK' /\ SampleInv'
<1>1. /\ UNCHANGED <<level, settled, quiet, channel, discard, primed, history, fresh, snapshot>>
      /\ UNCHANGED stuck
  BY DEF analogVars, adcVars
<1>2. AnalogTypeOK'
  BY <1>1 DEF AnalogTypeOK
<1>3. SampleInv'
  BY <1>1 DEF SampleInv
<1> QED
  BY <1>2, <1>3

LEMMA UnusedChannel ==
    ASSUME ChannelTypeOK, UNCHANGED channelVars
    PROVE  ChannelTypeOK'
  BY DEF channelVars, ChannelTypeOK

LEMMA PulseSizes ==
    /\ TriggerLedTimeSamples \in Nat /\ TriggerCvTimeSamples \in Nat
    /\ TriggerCvTimeSamples >= 1 /\ TriggerCvTimeSamples <= TriggerLedTimeSamples
    /\ PendingMaximum \in Nat /\ PendingMaximum >= 1
  BY ChannelAssumption, LoopAssumption

LEMMA ProcessTypes ==
    ASSUME TypeOK, SampleInv, Process
    PROVE  TypeOK' /\ SampleInv'
<1>1. AnalogTypeOK' /\ SampleInv'
  <2>1. CASE fresh
    BY <2>1, CopyKeepsSamples DEF Process, TypeOK
  <2>2. CASE ~fresh
    BY <2>2, UnreadSamples DEF Process, TypeOK
  <2> QED
    BY <2>1, <2>2
<1>2. AdcToSemitones(snapshot'[CvInput], AdcCalibration) \in Pitch
  <2>1. snapshot'[CvInput] \in AdcCode
    BY <1>1, LoopAssumption, CodeSets DEF AnalogTypeOK
  <2>2. AdcCalibration \in LinearCalibration
    BY LoopAssumption
  <2> QED
    BY <2>1, <2>2, AdcToSemitonesType
<1>3. ChannelTypeOK'
  <2>1. PICK trigger \in BOOLEAN : Step(AdcToSemitones(snapshot'[CvInput], AdcCalibration), trigger)
    BY DEF Process
  <2>2. ChannelTypeOK
    BY DEF TypeOK
  <2> QED
    BY <1>2, <2>1, <2>2, StepType
<1>4. result' \in [pitch : Pitch, trigger : BOOLEAN]
  <2>1. ActualSemitones' \in Pitch
    <3>1. lastGlideCurrent' \in Glide
      BY <1>3 DEF ChannelTypeOK
    <3> QED
      BY <3>1, GlideIsPitch DEF ActualSemitones
  <2>2. OutputTrigger' \in BOOLEAN
    BY DEF OutputTrigger
  <2> QED
    BY <2>1, <2>2 DEF Process
<1>5. /\ pending' \in 0 .. PendingMaximum /\ phase' \in Phase
      /\ high' \in 0 .. TriggerCvTimeSamples
  BY PulseSizes DEF Process, TakeTicks, Phase, TypeOK
<1>6. /\ arpEnabled' \in BOOLEAN /\ arpTriggerTicks' \in 0 .. TriggerCvTimeSamples
      /\ dac' \in DacCode \cup {Unwritten} /\ triggerOut' \in BOOLEAN
      /\ panel' \in {"now", "before", "no"} /\ moved' \in BOOLEAN
  BY DEF Process, TypeOK, outputVars
<1> QED
  BY <1>1, <1>3, <1>4, <1>5, <1>6 DEF TypeOK

LEMMA SettingTypes ==
    \A s \in PanelSettings :
        s.config \in Configs /\ s.arpEnabled \in BOOLEAN /\ s.forceContinuous \in BOOLEAN
  BY LoopAssumption DEF ChannelSetting

\* The panel is left alone, or edits the channel, or loads it.
LEMMA PanelCases ==
    ASSUME WritePitch
    PROVE  \/ UNCHANGED channelVars
           \/ \E new \in Configs, force \in BOOLEAN :
                EditConfig(new, force) \/ LoadConfig(new, force)
<1>1. CASE LeavePanel
  BY <1>1 DEF LeavePanel
<1>2. CASE UsePanel
  <2>1. PICK new \in PanelSettings :
          \/ EditConfig(new.config, new.forceContinuous)
          \/ LoadConfig(new.config, new.forceContinuous)
    BY <1>2 DEF UsePanel
  <2>2. new.config \in Configs /\ new.forceContinuous \in BOOLEAN
    BY SettingTypes
  <2> QED
    BY <2>1, <2>2
<1> QED
  BY <1>1, <1>2 DEF WritePitch

LEMMA WritePitchTypes ==
    ASSUME TypeOK, SampleInv, WritePitch
    PROVE  TypeOK' /\ SampleInv'
<1>1. AnalogTypeOK' /\ SampleInv'
  BY UnreadSamples DEF WritePitch, TypeOK
<1>2. ChannelTypeOK'
  <2>1. ChannelTypeOK
    BY DEF TypeOK
  <2>2. CASE UNCHANGED channelVars
    BY <2>1, <2>2, UnusedChannel
  <2>3. ASSUME NEW new \in Configs, NEW force \in BOOLEAN,
               EditConfig(new, force) \/ LoadConfig(new, force)
        PROVE  ChannelTypeOK'
    BY <2>1, <2>3, PanelType
  <2> QED
    BY <2>2, <2>3, PanelCases
<1>3. PICK interval \in ArpIntervals, stepAdvanced \in BOOLEAN :
        /\ dac' = SemitonesToDac(Voice(interval), DacCalibration)
        /\ arpTriggerTicks' = IF stepAdvanced THEN TriggerCvTimeSamples ELSE arpTriggerTicks
  BY DEF WritePitch, SendPitch
<1>4. dac' \in DacCode \cup {Unwritten}
  <2>1. result.pitch \in Pitch /\ interval \in Pitch /\ Pitch = 0 .. MaxPitch /\ MaxPitch \in Nat
    BY LoopAssumption, ConverterRanges DEF TypeOK
  <2>2. Clamp(result.pitch + interval, 0, MaxPitch) \in Pitch
    <3>1. result.pitch + interval \in Int
      BY <2>1
    <3> QED
      BY <2>1, <3>1, ClampType
  <2>3. Voice(interval) \in Pitch
    BY <2>1, <2>2 DEF Voice
  <2>4. DacCalibration \in LinearCalibration
    BY LoopAssumption
  <2> HIDE DEF Voice
  <2> QED
    BY <1>3, <2>3, <2>4, SemitonesToDacType
<1>5. arpTriggerTicks' \in 0 .. TriggerCvTimeSamples
  BY <1>3, PulseSizes DEF TypeOK
<1>6. arpEnabled' \in BOOLEAN /\ panel' \in {"now", "before", "no"} /\ moved' \in BOOLEAN
  BY SettingTypes DEF WritePitch, LeavePanel, UsePanel, TypeOK
<1>7. phase' \in Phase
  BY DEF WritePitch, Phase
<1>8. UNCHANGED <<pending, result, triggerOut, high>>
  BY DEF WritePitch
<1> QED
  BY <1>1, <1>2, <1>4, <1>5, <1>6, <1>7, <1>8 DEF TypeOK

LEMMA WriteTriggerTypes ==
    ASSUME TypeOK, SampleInv, WriteTrigger
    PROVE  TypeOK' /\ SampleInv'
<1>1. AnalogTypeOK' /\ SampleInv'
  BY UnreadSamples DEF WriteTrigger, TypeOK
<1>2. ChannelTypeOK'
  BY UnusedChannel DEF WriteTrigger, TypeOK
<1>3. result' \in [pitch : Pitch, trigger : BOOLEAN]
  BY ConverterRanges DEF WriteTrigger, NoResult
<1>4. /\ arpTriggerTicks' \in 0 .. TriggerCvTimeSamples
      /\ high' \in 0 .. TriggerCvTimeSamples
  BY PulseSizes DEF WriteTrigger, SaturatingDec, TypeOK
<1>5. triggerOut' \in BOOLEAN /\ moved' \in BOOLEAN /\ phase' \in Phase
  BY DEF WriteTrigger, TypeOK, Phase
<1>6. UNCHANGED <<pending, arpEnabled, dac, panel>>
  BY DEF WriteTrigger
<1> QED
  BY <1>1, <1>2, <1>3, <1>4, <1>5, <1>6 DEF TypeOK

LEMMA AroundTypes ==
    ASSUME TypeOK, SampleInv,
           TurnKnob \/ AdcInterrupt \/ TimerInterrupt \/ BootRead \/ StartTimer \/ UNCHANGED vars
    PROVE  TypeOK' /\ SampleInv'
<1>1. AnalogTypeOK' /\ SampleInv'
  <2>1. CASE TurnKnob
    BY <2>1, TurnKeepsSamples DEF TurnKnob, TypeOK
  <2>2. CASE AdcInterrupt
    BY <2>2, InterruptKeepsSamples DEF AdcInterrupt, TypeOK
  <2>3. CASE BootRead
    BY <2>3, CopyKeepsSamples DEF BootRead, TypeOK
  <2>4. CASE TimerInterrupt \/ StartTimer \/ UNCHANGED vars
    BY <2>4, UnreadSamples DEF TimerInterrupt, StartTimer, vars, TypeOK
  <2> QED
    BY <2>1, <2>2, <2>3, <2>4
<1>2. ChannelTypeOK'
  BY UnusedChannel DEF TypeOK, TurnKnob, AdcInterrupt, TimerInterrupt, BootRead, StartTimer, vars
<1>3. UNCHANGED <<result, arpEnabled, arpTriggerTicks, dac, triggerOut, panel, moved>>
  BY DEF TurnKnob, AdcInterrupt, TimerInterrupt, BootRead, StartTimer, vars, loopVars, pastVars,
         outputVars
<1>4. pending' \in 0 .. PendingMaximum /\ phase' \in Phase /\ high' \in 0 .. TriggerCvTimeSamples
  <2>1. CASE TimerInterrupt
    BY <2>1, PulseSizes DEF TimerInterrupt, TypeOK
  <2>2. CASE StartTimer
    BY <2>2, PulseSizes DEF StartTimer, TypeOK, Phase, pastVars
  <2>3. CASE TurnKnob \/ AdcInterrupt \/ BootRead \/ UNCHANGED vars
    BY <2>3 DEF TurnKnob, AdcInterrupt, BootRead, vars, loopVars, pastVars, TypeOK
  <2> QED
    BY <2>1, <2>2, <2>3
<1> QED
  BY <1>1, <1>2, <1>3, <1>4 DEF TypeOK

LEMMA InitTypes == ASSUME Init PROVE TypeOK /\ SampleInv
<1>1. AnalogTypeOK
  <2>1. 0 \in Channel /\ 0 \in 0 .. FilterWindow - 1
    BY CodeSets, WindowSize
  <2> QED
    BY <2>1 DEF Init, AnalogInit, AnalogTypeOK
<1>2. SampleInv
  <2>1. level \in [Channel -> Nat] /\ \A c \in Channel : level[c] \in Levels[c]
    BY CodeSets DEF Init, AnalogInit
  <2>2. \A c \in Channel : ~(c < channel)
    BY CodeSets DEF Init, AnalogInit
  <2> QED
    BY <2>1, <2>2 DEF Init, AnalogInit, SampleInv
<1>3. ChannelTypeOK
  BY ChannelInitType DEF Init
<1>4. /\ pending \in 0 .. PendingMaximum /\ phase \in Phase
      /\ arpTriggerTicks \in 0 .. TriggerCvTimeSamples /\ high \in 0 .. TriggerCvTimeSamples
  BY PulseSizes DEF Init, Phase
<1>5. result \in [pitch : Pitch, trigger : BOOLEAN]
  BY ConverterRanges DEF Init, NoResult
<1>6. arpEnabled \in BOOLEAN
  BY SettingTypes DEF Init
<1> QED
  BY <1>1, <1>2, <1>3, <1>4, <1>5, <1>6 DEF Init, TypeOK

-----------------------------------------------------------------------------
(***************************************************************************)
(* The pulses of the trigger output                                        *)
(***************************************************************************)

LEMMA PulseTypes ==
    ASSUME TypeOK
    PROVE  /\ outputTriggerCountdown \in Int /\ outputTriggerCountdown >= 0
           /\ outputTriggerCountdown <= TriggerLedTimeSamples
           /\ high \in Int /\ high >= 0 /\ high <= TriggerCvTimeSamples
           /\ arpTriggerTicks \in Int /\ arpTriggerTicks >= 0
           /\ arpTriggerTicks <= TriggerCvTimeSamples
           /\ pending \in Int /\ pending >= 0
<1>1. /\ outputTriggerCountdown \in 0 .. TriggerLedTimeSamples
      /\ high \in 0 .. TriggerCvTimeSamples /\ arpTriggerTicks \in 0 .. TriggerCvTimeSamples
      /\ pending \in 0 .. PendingMaximum
  BY DEF TypeOK, ChannelTypeOK
<1> QED
  BY <1>1, PulseSizes

\* A tick lengthens the pulse by one, unless it is complete already.
LEMMA TimerKeepsPulses ==
    ASSUME TypeOK, PulseInv, TimerInterrupt
    PROVE  PulseInv'
<1>1. /\ pending' > 0 /\ pending' \in Int /\ phase # "boot" /\ phase' = phase
      /\ high' = IF high = TriggerCvTimeSamples THEN high ELSE high + 1
  BY PulseTypes, PulseSizes DEF TimerInterrupt
<1>2. UNCHANGED <<hasLastOutput, outputTriggerCountdown, result, arpTriggerTicks, triggerOut>>
  BY DEF TimerInterrupt, channelVars, outputVars
<1>3. ResultInv'
  BY <1>1, <1>2 DEF PulseInv, ResultInv, InPass, OutputTrigger
<1>4. RiseInv'
  BY <1>1, <1>2 DEF PulseInv, RiseInv, InPass, OutputTrigger, OutputLeft
<1>5. ASSUME triggerOut, InPass, ~result.trigger, arpTriggerTicks = 0
      PROVE  high' >= TriggerCvTimeSamples - 1
  <2>1. high >= TriggerCvTimeSamples - 1
    BY <1>5 DEF PulseInv, FallInv
  <2> QED
    BY <1>1, <2>1, PulseTypes, PulseSizes
<1>6. ASSUME triggerOut, hasLastOutput
      PROVE  \/ high' + OutputLeft >= TriggerCvTimeSamples
             \/ high' + arpTriggerTicks >= TriggerCvTimeSamples
             \/ phase = "idle" /\ high' + arpTriggerTicks >= TriggerCvTimeSamples - 1
  <2>1. Waiting \in {0, 1}
    BY DEF Waiting
  <2>2. CASE high = TriggerCvTimeSamples
    BY <1>1, <2>2, PulseTypes, PulseSizes
  <2>3. CASE high # TriggerCvTimeSamples
    <3>1. \/ high + OutputLeft >= TriggerCvTimeSamples - 1 + Waiting
          \/ high + arpTriggerTicks >= TriggerCvTimeSamples - 1 + Waiting
          \/ phase = "idle" /\ high + arpTriggerTicks >= TriggerCvTimeSamples - 2 + Waiting
      BY <1>6 DEF PulseInv, FallInv
    <3>2. high' = high + 1 /\ OutputLeft \in Int
      BY <1>1, <2>3, PulseTypes, PulseSizes DEF OutputLeft
    <3> QED
      BY <2>1, <3>1, <3>2, PulseTypes, PulseSizes
  <2> QED
    BY <2>2, <2>3
<1>7. Waiting' = 1 /\ OutputLeft' = OutputLeft /\ (InPass' <=> InPass)
  BY <1>1, <1>2 DEF Waiting, OutputLeft, InPass
<1>8. FallInv'
  <2>1. ASSUME triggerOut', hasLastOutput'
        PROVE  \/ high' + OutputLeft' >= TriggerCvTimeSamples - 1 + Waiting'
               \/ high' + arpTriggerTicks' >= TriggerCvTimeSamples - 1 + Waiting'
               \/ phase' = "idle" /\ high' + arpTriggerTicks' >= TriggerCvTimeSamples - 2 + Waiting'
    BY <1>1, <1>2, <1>6, <1>7, <2>1, PulseSizes
  <2> QED
    BY <1>1, <1>2, <1>5, <1>7, <2>1 DEF FallInv
<1> QED
  BY <1>3, <1>4, <1>8 DEF PulseInv

\* What the step of the channel does to the countdown of its pulse.
LEMMA StepCountsDown ==
    ASSUME TypeOK, Process
    PROVE  /\ outputTriggerCountdown' \in Int
           /\ outputTriggerCountdown' >= outputTriggerCountdown - 1
           /\ \/ outputTriggerCountdown' = TriggerLedTimeSamples
              \/ outputTriggerCountdown' <= outputTriggerCountdown
<1>1. \/ outputTriggerCountdown' = TriggerLedTimeSamples
      \/ outputTriggerCountdown' = SaturatingDec(outputTriggerCountdown)
  BY DEF Process, Step, FireTrigger
<1>2. CASE outputTriggerCountdown' = TriggerLedTimeSamples
  BY <1>2, PulseTypes, PulseSizes
<1>3. CASE outputTriggerCountdown' = SaturatingDec(outputTriggerCountdown)
  BY <1>3, PulseTypes DEF SaturatingDec
<1> QED
  BY <1>1, <1>2, <1>3

LEMMA ProcessKeepsPulses ==
    ASSUME TypeOK, PulseInv, Process
    PROVE  PulseInv'
<1>1. /\ phase = "idle" /\ phase' = "stepped" /\ pending > 0 /\ pending' = 0
      /\ hasLastOutput' /\ UNCHANGED <<arpTriggerTicks, triggerOut>>
      /\ high' = IF hasLastOutput THEN high ELSE TriggerCvTimeSamples
  BY DEF Process, TakeTicks, Step, outputVars
<1>2. result'.trigger <=> OutputTrigger'
  BY DEF Process, OutputTrigger
<1>3. /\ outputTriggerCountdown' \in Int
      /\ outputTriggerCountdown' >= outputTriggerCountdown - 1
      /\ \/ outputTriggerCountdown' = TriggerLedTimeSamples
         \/ outputTriggerCountdown' <= outputTriggerCountdown
  BY StepCountsDown
<1>4. Waiting = 1 /\ Waiting' = 0 /\ InPass'
  BY <1>1, PulseTypes DEF Waiting, InPass
<1>5. ResultInv'
  BY <1>1, <1>2 DEF ResultInv
<1>6. RiseInv'
  <2>1. ASSUME ~triggerOut PROVE ~OutputTrigger /\ arpTriggerTicks = 0
    BY <1>1, <2>1 DEF PulseInv, RiseInv, InPass
  <2>2. ASSUME ~OutputTrigger, OutputTrigger' PROVE OutputLeft' = TriggerCvTimeSamples
    <3>1. /\ ~(outputTriggerCountdown > TriggerLedTimeSamples - TriggerCvTimeSamples)
          /\ outputTriggerCountdown' > TriggerLedTimeSamples - TriggerCvTimeSamples
      BY <2>2 DEF OutputTrigger
    <3>2. outputTriggerCountdown' = TriggerLedTimeSamples
      BY <1>3, <3>1, PulseTypes, PulseSizes
    <3> QED
      BY <3>2, PulseSizes DEF OutputLeft
  <2> QED
    BY <1>1, <1>4, <2>1, <2>2 DEF RiseInv
<1>7. ASSUME triggerOut
      PROVE  \/ high' + OutputLeft' >= TriggerCvTimeSamples - 1
             \/ high' + arpTriggerTicks >= TriggerCvTimeSamples - 1
  <2>1. CASE ~hasLastOutput
    BY <1>1, <2>1, PulseTypes, PulseSizes
  <2>2. CASE hasLastOutput
    <3>1. \/ high + OutputLeft >= TriggerCvTimeSamples
          \/ high + arpTriggerTicks >= TriggerCvTimeSamples - 1
      <4>1. \/ high + OutputLeft >= TriggerCvTimeSamples - 1 + Waiting
            \/ high + arpTriggerTicks >= TriggerCvTimeSamples - 1 + Waiting
            \/ high + arpTriggerTicks >= TriggerCvTimeSamples - 2 + Waiting
        BY <1>7, <2>2 DEF PulseInv, FallInv
      <4> QED
        BY <1>4, <4>1, PulseTypes, PulseSizes DEF OutputLeft
    <3>2. high' = high
      BY <1>1, <2>2
    <3> QED
      BY <1>3, <3>1, <3>2, PulseTypes, PulseSizes DEF OutputLeft
  <2> QED
    BY <2>1, <2>2
<1>8. FallInv'
  <2>1. ASSUME triggerOut', ~result'.trigger, arpTriggerTicks' = 0
        PROVE  high' >= TriggerCvTimeSamples - 1
    <3>1. high' \in Int
      BY <1>1, PulseTypes, PulseSizes
    <3>2. ~(outputTriggerCountdown' > TriggerLedTimeSamples - TriggerCvTimeSamples)
      BY <1>2, <2>1 DEF OutputTrigger
    <3>3. outputTriggerCountdown' \in Int
      BY <1>3
    <3>4. outputTriggerCountdown' <= TriggerLedTimeSamples - TriggerCvTimeSamples
      BY <3>2, <3>3, PulseSizes
    <3>5. triggerOut /\ arpTriggerTicks = 0
      BY <1>1, <2>1
    <3>6. \/ high' + OutputLeft' >= TriggerCvTimeSamples - 1
          \/ high' + 0 >= TriggerCvTimeSamples - 1
      BY <1>7, <3>5
    <3>7. ASSUME NEW h \in Int, NEW left \in Int, NEW length \in Nat, left <= 0,
                 h + left >= length - 1 \/ h + 0 >= length - 1
          PROVE  h >= length - 1
      BY <3>7
    <3>8. OutputLeft' \in Int /\ OutputLeft' <= 0 /\ TriggerCvTimeSamples \in Nat
      <4>1. ASSUME NEW c \in Int, c <= TriggerLedTimeSamples - TriggerCvTimeSamples
            PROVE  /\ c - (TriggerLedTimeSamples - TriggerCvTimeSamples) \in Int
                   /\ c - (TriggerLedTimeSamples - TriggerCvTimeSamples) <= 0
        BY <4>1, PulseSizes
      <4> QED
        BY <3>3, <3>4, <4>1, PulseSizes DEF OutputLeft
    <3> QED
      BY <3>1, <3>6, <3>7, <3>8
  <2>2. ASSUME triggerOut'
        PROVE  \/ high' + OutputLeft' >= TriggerCvTimeSamples - 1 + Waiting'
               \/ high' + arpTriggerTicks' >= TriggerCvTimeSamples - 1 + Waiting'
    BY <1>1, <1>4, <1>7, <2>2, PulseSizes
  <2> QED
    BY <2>1, <2>2 DEF FallInv
<1> QED
  BY <1>5, <1>6, <1>8 DEF PulseInv

\* An edit leaves the pulse alone, a load ends that of the channel.
LEMMA PanelAndPulses ==
    ASSUME WritePitch
    PROVE  \/ UNCHANGED <<hasLastOutput, outputTriggerCountdown>>
           \/ hasLastOutput' = FALSE /\ outputTriggerCountdown' = 0
<1>1. ASSUME NEW new \in Configs, NEW force \in BOOLEAN, EditConfig(new, force)
      PROVE  UNCHANGED <<hasLastOutput, outputTriggerCountdown>>
  BY <1>1 DEF EditConfig
<1>2. ASSUME NEW new \in Configs, NEW force \in BOOLEAN, LoadConfig(new, force)
      PROVE  hasLastOutput' = FALSE /\ outputTriggerCountdown' = 0
  BY <1>2 DEF LoadConfig
<1> QED
  BY <1>1, <1>2, PanelCases DEF channelVars

LEMMA WritePitchKeepsPulses ==
    ASSUME TypeOK, PulseInv, WritePitch
    PROVE  PulseInv'
<1>1. /\ phase = "stepped" /\ phase' = "written"
      /\ UNCHANGED <<pending, result, triggerOut, high>>
      /\ arpTriggerTicks' \in {TriggerCvTimeSamples, arpTriggerTicks}
  BY DEF WritePitch
<1>2. \/ UNCHANGED <<hasLastOutput, outputTriggerCountdown>>
      \/ hasLastOutput' = FALSE /\ outputTriggerCountdown' = 0
  BY PanelAndPulses
<1>3. InPass /\ InPass' /\ hasLastOutput /\ Waiting' = Waiting /\ Waiting \in {0, 1}
  BY <1>1 DEF InPass, PulseInv, ResultInv, Waiting
<1>4. ResultInv'
  <2>1. result.trigger <=> OutputTrigger
    BY <1>3 DEF PulseInv, ResultInv
  <2>2. outputTriggerCountdown' = 0 => ~OutputTrigger'
    BY PulseSizes DEF OutputTrigger
  <2> QED
    BY <1>1, <1>2, <1>3, <2>1, <2>2 DEF ResultInv, OutputTrigger
<1>5. RiseInv'
  <2>1. ASSUME ~triggerOut, OutputTrigger' PROVE OutputLeft' = TriggerCvTimeSamples
    <3>1. UNCHANGED outputTriggerCountdown
      BY <1>2, <2>1, PulseSizes DEF OutputTrigger
    <3> QED
      BY <2>1, <3>1 DEF PulseInv, RiseInv, OutputTrigger, OutputLeft
  <2>2. ASSUME ~triggerOut, arpTriggerTicks' # 0 PROVE arpTriggerTicks' = TriggerCvTimeSamples
    BY <1>1, <2>2 DEF PulseInv, RiseInv
  <2> QED
    BY <1>1, <1>3, <2>1, <2>2 DEF RiseInv
<1>6. ASSUME triggerOut, ~result.trigger, arpTriggerTicks' = 0
      PROVE  high >= TriggerCvTimeSamples - 1
  <2>1. arpTriggerTicks = 0
    BY <1>1, <1>6, PulseSizes
  <2> QED
    BY <1>3, <1>6, <2>1 DEF PulseInv, FallInv
<1>7. ASSUME triggerOut, hasLastOutput'
      PROVE  \/ high + OutputLeft' >= TriggerCvTimeSamples - 1 + Waiting
             \/ high + arpTriggerTicks' >= TriggerCvTimeSamples - 1 + Waiting
  <2>1. CASE arpTriggerTicks' = TriggerCvTimeSamples
    BY <1>3, <2>1, PulseTypes, PulseSizes
  <2>2. CASE arpTriggerTicks' = arpTriggerTicks
    <3>1. OutputLeft' = OutputLeft
      BY <1>2, <1>7 DEF OutputLeft
    <3> QED
      BY <1>1, <1>3, <1>7, <2>2, <3>1 DEF PulseInv, FallInv
  <2> QED
    BY <1>1, <2>1, <2>2
<1>8. FallInv'
  BY <1>1, <1>3, <1>6, <1>7 DEF FallInv
<1> QED
  BY <1>4, <1>5, <1>8 DEF PulseInv

LEMMA WriteTriggerKeepsPulses ==
    ASSUME TypeOK, PulseInv, WriteTrigger
    PROVE  PulseInv'
<1>1. /\ phase = "written" /\ phase' = "idle" /\ InPass /\ ~InPass'
      /\ UNCHANGED <<pending, hasLastOutput, outputTriggerCountdown>>
      /\ arpTriggerTicks' = SaturatingDec(arpTriggerTicks)
      /\ Waiting' = Waiting /\ Waiting \in {0, 1}
      /\ OutputLeft' = OutputLeft /\ OutputLeft \in Int
  BY PulseTypes, PulseSizes DEF WriteTrigger, channelVars, InPass, Waiting, OutputLeft
<1>2. triggerOut' <=> result.trigger \/ arpTriggerTicks # 0
  BY DEF WriteTrigger
<1>3. /\ triggerOut' /\ ~triggerOut => high' = 0
      /\ ~(triggerOut' /\ ~triggerOut) => high' = high
  BY DEF WriteTrigger
<1>4. hasLastOutput => (result.trigger <=> OutputTrigger)
  BY <1>1 DEF PulseInv, ResultInv
<1>5. ResultInv'
  BY <1>1 DEF PulseInv, ResultInv, OutputTrigger
<1>6. RiseInv'
  <2>1. ASSUME ~triggerOut' PROVE arpTriggerTicks' = 0 /\ ~OutputTrigger'
    <3>1. ~result.trigger /\ arpTriggerTicks = 0
      BY <1>2, <2>1
    <3>2. arpTriggerTicks' = 0
      BY <1>1, <3>1 DEF SaturatingDec
    <3>3. ~OutputTrigger
      BY <1>4, <3>1 DEF PulseInv, ResultInv
    <3> QED
      BY <1>1, <3>2, <3>3 DEF OutputTrigger
  <2> QED
    BY <2>1 DEF RiseInv
<1>7. ASSUME triggerOut', hasLastOutput
      PROVE  \/ high' + OutputLeft >= TriggerCvTimeSamples - 1 + Waiting
             \/ high' + arpTriggerTicks' >= TriggerCvTimeSamples - 2 + Waiting
  <2>1. CASE triggerOut
    <3>1. \/ high + OutputLeft >= TriggerCvTimeSamples - 1 + Waiting
          \/ high + arpTriggerTicks >= TriggerCvTimeSamples - 1 + Waiting
      BY <1>1, <1>7, <2>1 DEF PulseInv, FallInv
    <3>2. high' = high /\ arpTriggerTicks' \in Int /\ arpTriggerTicks' >= arpTriggerTicks - 1
      BY <1>1, <1>3, <2>1, PulseTypes DEF SaturatingDec
    <3> QED
      BY <1>1, <3>1, <3>2, PulseTypes, PulseSizes
  <2>2. CASE ~triggerOut
    <3>1. high' = 0
      BY <1>3, <1>7, <2>2
    <3>2. OutputLeft = TriggerCvTimeSamples \/ arpTriggerTicks = TriggerCvTimeSamples
      BY <1>2, <1>4, <1>7, <2>2 DEF PulseInv, RiseInv
    <3> QED
      BY <1>1, <3>1, <3>2, PulseTypes, PulseSizes DEF SaturatingDec
  <2> QED
    BY <2>1, <2>2
<1>8. FallInv'
  <2>1. ASSUME triggerOut', hasLastOutput'
        PROVE  \/ high' + OutputLeft' >= TriggerCvTimeSamples - 1 + Waiting'
               \/ /\ phase' = "idle"
                  /\ high' + arpTriggerTicks' >= TriggerCvTimeSamples - 2 + Waiting'
    BY <1>1, <1>7, <2>1
  <2> QED
    BY <1>1, <2>1 DEF FallInv
<1> QED
  BY <1>5, <1>6, <1>8 DEF PulseInv

LEMMA AroundKeepsPulses ==
    ASSUME TypeOK, PulseInv,
           TurnKnob \/ AdcInterrupt \/ BootRead \/ StartTimer \/ UNCHANGED vars
    PROVE  PulseInv'
<1>1. /\ UNCHANGED <<hasLastOutput, outputTriggerCountdown, result, arpTriggerTicks, triggerOut, high>>
      /\ pending' = pending /\ (phase' = phase \/ (phase = "boot" /\ phase' = "idle"))
  BY DEF TurnKnob, AdcInterrupt, BootRead, StartTimer, vars, channelVars, loopVars, pastVars,
         outputVars, PulseInv, ResultInv
<1>2. /\ (InPass' <=> InPass) /\ (phase' = "boot" => phase = "boot")
      /\ (phase' = "written" <=> phase = "written") /\ (phase' = "stepped" <=> phase = "stepped")
      /\ (phase = "idle" => phase' = "idle")
      /\ Waiting' = Waiting /\ OutputLeft' = OutputLeft /\ (OutputTrigger' <=> OutputTrigger)
  BY <1>1 DEF InPass, Waiting, OutputLeft, OutputTrigger
<1>3. ResultInv'
  BY <1>1, <1>2 DEF PulseInv, ResultInv
<1>4. RiseInv'
  BY <1>1, <1>2 DEF PulseInv, RiseInv
<1>5. FallInv'
  BY <1>1, <1>2 DEF PulseInv, FallInv
<1> QED
  BY <1>3, <1>4, <1>5 DEF PulseInv

LEMMA InitPulses == ASSUME Init PROVE PulseInv
<1>1. ~triggerOut /\ phase = "boot" /\ pending = 0 /\ arpTriggerTicks = 0
  BY DEF Init
<1>2. ~OutputTrigger
  BY PulseSizes DEF Init, ChannelInit, OutputTrigger
<1> QED
  BY <1>1, <1>2 DEF PulseInv, ResultInv, RiseInv, FallInv, InPass

-----------------------------------------------------------------------------
(***************************************************************************)
(* A pitch and its trigger in one pass                                     *)
(***************************************************************************)

LEMMA PitchOfNote ==
    ASSUME NEW note \in Semitone
    PROVE  /\ note * One \in Pitch
           /\ ((note * GlideOne) * One) \div GlideOne = note * One
<1>1. One \in Nat /\ GlideOne \in Nat \ {0} /\ note \in Nat
  BY PitchAssumption, ChannelAssumption DEF Semitone
<1>2. ASSUME NEW a \in Nat, NEW d \in Nat \ {0} PROVE (a * d) \div d = a
  OBVIOUS
<1>3. (note * GlideOne) * One = (note * One) * GlideOne /\ note * One \in Nat
  BY <1>1
<1>4. ((note * One) * GlideOne) \div GlideOne = note * One
  BY <1>1, <1>2, <1>3
<1>5. note * GlideOne \in Glide
  BY GlideType
<1>6. ((note * GlideOne) * One) \div GlideOne \in Pitch
  BY <1>5, GlideIsPitch
<1> QED
  BY <1>3, <1>4, <1>6

LEMMA CodeOfType ==
    ASSUME NEW note \in Semitone
    PROVE  CodeOf(note) \in DacCode /\ CodeOf(note) # Unwritten
<1>1. CodeOf(note) \in DacCode
  BY PitchOfNote, SemitonesToDacType, LoopAssumption DEF CodeOf
<1> QED
  BY <1>1, ConverterRanges DEF Unwritten

\* Numbers that lie a divisor apart have different quotients.
LEMMA QuotientsDiffer ==
    ASSUME NEW a \in Nat, NEW b \in Nat, NEW d \in Nat \ {0}, a + d <= b
    PROVE  RoundedQuotient(a, d) < RoundedQuotient(b, d)
<1> DEFINE low == a + d \div 2
           top == b + d \div 2
<1>1. low \in Nat /\ top \in Nat /\ low + d <= top
  <2>1. d \div 2 \in Nat
    OBVIOUS
  <2> QED
    BY <2>1
<1>2. RoundedQuotient(a, d) = low \div d /\ RoundedQuotient(b, d) = top \div d
  BY DEF RoundedQuotient
<1> HIDE DEF low, top
<1>3. low \div d \in Nat /\ (low \div d) * d <= low
  BY <1>1
<1>4. top \div d \in Nat /\ top < (top \div d) * d + d
  BY <1>1
<1>5. ASSUME NEW p \in Nat, NEW q \in Nat, p * d <= low, top < q * d + d, ~(p < q)
      PROVE  FALSE
  <2>1. p - q \in Nat /\ p = q + (p - q)
    BY <1>5
  <2>2. PICK r \in Nat : p = q + r
    BY <2>1
  <2>3. p * d = q * d + r * d /\ q * d \in Nat /\ r * d \in Nat
    BY <2>2
  <2> QED
    BY <1>1, <1>5, <2>3
<1> QED
  BY <1>2, <1>3, <1>4, <1>5

LEMMA FactoryCode ==
    ASSUME NEW code \in DacCode
    PROVE  ApplyDacCalibration(code, FactoryCalibration) = code
<1>1. code \in Int /\ 0 <= code /\ code <= DacMaximumCode /\ DacMaximumCode \in Int
  BY ConverterRanges
<1>2. Clamp(code, 0, DacMaximumCode) = code
  BY <1>1 DEF Clamp
<1>3. RoundedQuotient(code * 1, 1) = code
  <2>1. \A number \in Int : (number * 1 + (1 \div 2)) \div 1 = number
    OBVIOUS
  <2> QED
    BY <1>1, <2>1 DEF RoundedQuotient
<1>4. Scaled(code, FactoryCalibration) = code
  BY <1>3 DEF Scaled, FactoryCalibration
<1>5. Scaled(code, FactoryCalibration) + FactoryCalibration.offset = code
  <2>1. \A number \in Int : number + 0 = number
    OBVIOUS
  <2> QED
    BY <1>1, <1>4, <2>1 DEF FactoryCalibration
<1> QED
  BY <1>2, <1>5 DEF ApplyDacCalibration

\* With the factory calibration and a code for each semitone the notes lie apart.
LEMMA FactoryKeepsNotes ==
    ASSUME DacCalibration = FactoryCalibration, MaxSemitone <= DacMaximumCode
    PROVE  NotesHaveCodes
<1>1. /\ One \in Nat \ {0} /\ MaxSemitone \in Nat /\ DacMaximumCode \in Nat
      /\ MaxPitch \in Nat \ {0} /\ MaxPitch = MaxSemitone * One
  BY PitchAssumption, ConverterRanges DEF MaxPitch
<1> DEFINE product(note) == (note * One) * DacMaximumCode
<1>2. ASSUME NEW note \in Semitone
      PROVE  /\ product(note) \in Nat /\ note \in Nat
             /\ CodeOf(note) = RoundedQuotient(product(note), MaxPitch)
  <2>1. note * One \in Pitch /\ note \in Nat
    <3>1. note * One \in Pitch
      BY PitchOfNote
    <3>2. note \in Nat
      BY <1>1 DEF Semitone
    <3> QED
      BY <3>1, <3>2
  <2>2. note * One \in 0 .. MaxPitch
    BY <2>1, ConverterRanges
  <2>3. Clamp(note * One, 0, MaxPitch) = note * One
    BY <1>1, <2>2 DEF Clamp
  <2>4. product(note) \in Nat /\ product(note) <= DacMaximumCode * MaxPitch
    BY <1>1, <2>2, ProductBound
  <2>5. RoundedQuotient(product(note), MaxPitch) \in DacCode
    BY <1>1, <2>4, RoundedBound, ConverterRanges
  <2>6. SemitonesToNominalDac(note * One) = RoundedQuotient(product(note), MaxPitch)
    BY <2>3 DEF SemitonesToNominalDac
  <2> QED
    BY <2>1, <2>4, <2>5, <2>6, FactoryCode DEF CodeOf, SemitonesToDac
<1>3. ASSUME NEW m \in Semitone, NEW n \in Semitone, m < n PROVE CodeOf(m) < CodeOf(n)
  <2>1. m \in Nat /\ n \in Nat /\ n - m - 1 \in Nat /\ n = m + 1 + (n - m - 1)
    BY <1>2, <1>3
  <2>2. PICK r \in Nat : n = m + 1 + r
    BY <2>1
  <2>3. PICK s \in Nat : DacMaximumCode = MaxSemitone + s
    <3>1. DacMaximumCode - MaxSemitone \in Nat
      BY <1>1
    <3> QED
      BY <1>1, <3>1
  <2>4. product(n) = product(m) + One * DacMaximumCode + (r * One) * DacMaximumCode
    BY <1>1, <2>1, <2>2
  <2>5. One * DacMaximumCode = MaxPitch + One * s
    BY <1>1, <2>3
  <2>6. One * s \in Nat /\ (r * One) * DacMaximumCode \in Nat
    BY <1>1
  <2>7. product(m) \in Nat /\ product(n) \in Nat
    BY <1>2
  <2> HIDE DEF product
  <2>8. product(m) + MaxPitch <= product(n)
    BY <1>1, <2>4, <2>5, <2>6, <2>7
  <2>9. RoundedQuotient(product(m), MaxPitch) < RoundedQuotient(product(n), MaxPitch)
    BY <1>1, <2>7, <2>8, QuotientsDiffer
  <2> QED
    BY <1>2, <2>9
<1>4. ASSUME NEW m \in Semitone, NEW n \in Semitone, CodeOf(m) = CodeOf(n) PROVE m = n
  <2>1. m \in Nat /\ n \in Nat /\ CodeOf(m) \in Int
    BY <1>2, CodeOfType, ConverterRanges
  <2>2. ~(m < n) /\ ~(n < m)
    <3>1. ~(CodeOf(m) < CodeOf(n)) /\ ~(CodeOf(n) < CodeOf(m))
      BY <1>4, <2>1
    <3> QED
      BY <1>3, <3>1
  <2> QED
    BY <2>1, <2>2
<1> QED
  BY <1>4 DEF NotesHaveCodes

\* Amount 0 divides by one.
LEMMA GlideAtOnce ==
    ASSUME config.glideAmount = 0, NEW current \in Int, NEW target \in Int
    PROVE  CalculateGlide(current, target) = target
<1>1. Clamp(config.glideAmount, 0, MaxGlideAmount) = 0
  BY ChannelAssumption DEF Clamp
<1>2. 2 ^ 0 = 1
  <2>1. SUBSET {} = {{}}
    OBVIOUS
  <2>2. IsFiniteSet({}) /\ Cardinality({}) = 0
    BY FS_EmptySet
  <2>3. Cardinality(SUBSET {}) = 2 ^ Cardinality({})
    BY <2>2, FS_SUBSET
  <2>4. Cardinality({{}}) = 1
    BY FS_Singleton
  <2> QED
    BY <2>1, <2>2, <2>3, <2>4
<1>3. ASSUME NEW gap \in Int PROVE gap \div 1 = gap
  OBVIOUS
<1>4. (target - current) \div 2 ^ 0 = target - current
  <2>1. target - current \in Int
    OBVIOUS
  <2> QED
    BY <1>2, <1>3, <2>1
<1> DEFINE step == target - current
           next == current + (IF step # 0 THEN step ELSE IF target > current THEN 1 ELSE -1)
<1>5. CalculateGlide(current, target) =
        IF current = target THEN current
        ELSE IF current < target THEN Clamp(next, next, target)
        ELSE Clamp(next, target, next)
  BY <1>1, <1>4 DEF CalculateGlide
<1>6. current # target => next = target
  OBVIOUS
<1> HIDE DEF next
<1>7. Clamp(target, target, target) = target
  BY DEF Clamp
<1> QED
  BY <1>5, <1>6, <1>7

LEMMA FollowedNote ==
    ASSUME ChannelTypeOK, config.postShift = 0, NEW x \in Pitch, Follow(x)
    PROVE  lastGlideTarget' = lastNominalSemitones' * GlideOne
<1>1. lastNominalSemitones' \in Semitone
  BY FollowType
<1>2. lastGlideTarget' =
        Clamp(lastNominalSemitones' + config.postShift, 0, MaxSemitone) * GlideOne
  BY DEF Follow
<1>3. lastNominalSemitones' \in Int /\ 0 <= lastNominalSemitones'
      /\ lastNominalSemitones' <= MaxSemitone /\ MaxSemitone \in Int
  BY <1>1, PitchAssumption DEF Semitone
<1>4. lastNominalSemitones' + config.postShift = lastNominalSemitones'
  <2>1. ASSUME NEW note \in Int PROVE note + 0 = note
    OBVIOUS
  <2> QED
    BY <1>3, <2>1
<1>5. Clamp(lastNominalSemitones', 0, MaxSemitone) = lastNominalSemitones'
  BY <1>3 DEF Clamp
<1> QED
  BY <1>2, <1>4, <1>5

\* What a step does, with or without a sample.
LEMMA SteppedNote ==
    ASSUME ChannelTypeOK, PlainConfigs, NoteInv, NEW x \in Pitch, NEW trigger \in BOOLEAN,
           Step(x, trigger)
    PROVE  /\ NoteInv'
           /\ lastNominalSemitones \in Semitone /\ lastNominalSemitones' \in Semitone
           /\ hasLastOutput' /\ ~suppressNextOutputTrigger'
           /\ JustFired' <=> /\ hasLastOutput /\ ~suppressNextOutputTrigger
                             /\ lastNominalSemitones' # lastNominalSemitones
<1>1. ChannelTypeOK'
  BY StepType
<1>2. config' = config /\ config \in Configs /\ config.glideAmount = 0 /\ config.postShift = 0
  BY DEF Step, settings, NoteInv, PlainConfigs
<1>3. lastNominalSemitones \in Semitone /\ lastNominalSemitones' \in Semitone
  BY <1>1 DEF ChannelTypeOK
<1>4. lastGlideTarget' = lastNominalSemitones' * GlideOne
  <2>1. CASE Updates(trigger)
    <3>1. Follow(x)
      BY <2>1 DEF Step
    <3> QED
      BY <1>2, <3>1, FollowedNote
  <2>2. CASE ~Updates(trigger)
    BY <2>2 DEF Step, Hold, NoteInv
  <2> QED
    BY <2>1, <2>2
<1>5. lastGlideCurrent' = lastGlideTarget'
  <2>1. Glide \subseteq Int /\ 0 \in Int
    BY PitchAssumption, ChannelAssumption DEF Glide
  <2>2. lastGlideCurrent \in Int /\ lastGlideTarget' \in Int
    BY <1>1, <2>1 DEF ChannelTypeOK
  <2>3. \/ lastGlideCurrent' = CalculateGlide(lastGlideCurrent, lastGlideTarget')
        \/ lastGlideCurrent' = CalculateGlide(0, lastGlideTarget')
    BY DEF Step
  <2> QED
    BY <1>2, <2>1, <2>2, <2>3, GlideAtOnce
<1>6. hasLastOutput' /\ ~suppressNextOutputTrigger'
  BY DEF Step, FireTrigger
<1>7. DidChange <=> hasLastOutput /\ lastNominalSemitones' # lastNominalSemitones
  BY <1>4 DEF DidChange, NoteInv
<1>8. JustFired' <=> DidChange /\ ~suppressNextOutputTrigger
  <2>1. outputTriggerCountdown' = IF DidChange /\ ~suppressNextOutputTrigger
                                  THEN TriggerLedTimeSamples
                                  ELSE SaturatingDec(outputTriggerCountdown)
    BY DEF Step, FireTrigger
  <2>2. outputTriggerCountdown \in 0 .. TriggerLedTimeSamples
    BY DEF ChannelTypeOK
  <2>3. SaturatingDec(outputTriggerCountdown) # TriggerLedTimeSamples
    BY <2>2, PulseSizes DEF SaturatingDec
  <2> QED
    BY <2>1, <2>3 DEF JustFired
<1> QED
  BY <1>2, <1>3, <1>4, <1>5, <1>6, <1>7, <1>8 DEF NoteInv

LEMMA ProcessAnnounces ==
    ASSUME TypeOK, SampleInv, PulseInv, PlainConfigs, AnnounceInv, Process
    PROVE  AnnounceInv'
<1>1. ChannelTypeOK /\ NoteInv /\ SentInv
  BY DEF TypeOK, AnnounceInv
<1>2. PICK x \in Pitch, trigger \in BOOLEAN : Step(x, trigger)
  <2>1. TypeOK'
    BY ProcessTypes
  <2>2. snapshot'[CvInput] \in AdcCode
    BY <2>1, LoopAssumption, CodeSets DEF AnalogTypeOK, TypeOK
  <2>3. AdcToSemitones(snapshot'[CvInput], AdcCalibration) \in Pitch
    BY <2>2, AdcToSemitonesType, LoopAssumption
  <2>4. \E trigger \in BOOLEAN : Step(AdcToSemitones(snapshot'[CvInput], AdcCalibration), trigger)
    BY DEF Process
  <2> QED
    BY <2>3, <2>4
<1>3. /\ NoteInv'
      /\ lastNominalSemitones \in Semitone /\ lastNominalSemitones' \in Semitone
      /\ hasLastOutput' /\ ~suppressNextOutputTrigger'
      /\ JustFired' <=> /\ hasLastOutput /\ ~suppressNextOutputTrigger
                        /\ lastNominalSemitones' # lastNominalSemitones
  BY <1>1, <1>2, SteppedNote
<1>4. phase = "idle" /\ phase' = "stepped" /\ result'.pitch = ActualSemitones'
      /\ UNCHANGED <<arpEnabled, dac, panel>>
  BY DEF Process, outputVars
<1>5. result'.pitch = lastNominalSemitones' * One
  <2>1. lastGlideCurrent' = lastNominalSemitones' * GlideOne
    BY <1>3 DEF NoteInv
  <2>2. result'.pitch = ((lastNominalSemitones' * GlideOne) * One) \div GlideOne
    BY <1>4, <2>1 DEF ActualSemitones
  <2> QED
    BY <1>3, <2>2, PitchOfNote
<1>6. ASSUME panel # "now", ~arpEnabled
      PROVE  \/ dac = Unwritten /\ ~JustFired'
             \/ \E note \in Semitone :
                  dac = CodeOf(note) /\ (JustFired' <=> note # lastNominalSemitones')
  <2>1. CASE hasLastOutput
    <3>1. dac = CodeOf(lastNominalSemitones) /\ ~suppressNextOutputTrigger
      BY <1>1, <1>4, <1>6, <2>1 DEF SentInv
    <3> QED
      BY <1>3, <2>1, <3>1
  <2>2. CASE ~hasLastOutput
    <3>1. dac = Unwritten
      BY <1>1, <1>4, <1>6, <2>2 DEF SentInv
    <3> QED
      BY <1>3, <2>2, <3>1
  <2> QED
    BY <2>1, <2>2
<1>7. SteppedInv'
  <2>1. CodeOf(lastNominalSemitones)' = CodeOf(lastNominalSemitones')
    BY DEF CodeOf
  <2> QED
    BY <1>3, <1>4, <1>5, <1>6 DEF SteppedInv, CodeOf
<1> QED
  BY <1>3, <1>4, <1>7 DEF AnnounceInv, SentInv, MovedInv

\* An edit moves no note, and a preset starts from the lowest one.
LEMMA PanelKeepsNote ==
    ASSUME NoteInv, WritePitch
    PROVE  NoteInv'
<1>1. CASE UNCHANGED channelVars
  BY <1>1 DEF channelVars, NoteInv
<1>2. ASSUME NEW new \in Configs, NEW force \in BOOLEAN, EditConfig(new, force) PROVE NoteInv'
  BY <1>2 DEF EditConfig, NoteInv
<1>3. ASSUME NEW new \in Configs, NEW force \in BOOLEAN, LoadConfig(new, force) PROVE NoteInv'
  <2>1. 0 * GlideOne = 0
    BY ChannelAssumption
  <2> QED
    BY <1>3, <2>1 DEF LoadConfig, NoteInv
<1> QED
  BY <1>1, <1>2, <1>3, PanelCases

LEMMA WritePitchAnnounces ==
    ASSUME TypeOK, PulseInv, PlainConfigs, NotesHaveCodes, AnnounceInv, WritePitch
    PROVE  AnnounceInv'
<1>1. phase = "stepped" /\ phase' = "written" /\ hasLastOutput
  BY DEF WritePitch, PulseInv, ResultInv
<1>2. NoteInv'
  BY PanelKeepsNote DEF AnnounceInv
<1>3. /\ ~suppressNextOutputTrigger /\ result.pitch = lastNominalSemitones * One
      /\ (panel # "now" /\ ~arpEnabled) =>
           \/ dac = Unwritten /\ ~JustFired
           \/ \E note \in Semitone :
                dac = CodeOf(note) /\ (JustFired <=> note # lastNominalSemitones)
  BY <1>1 DEF AnnounceInv, SteppedInv
<1>4. lastNominalSemitones \in Semitone
  BY DEF TypeOK, ChannelTypeOK
<1>5. CASE UsePanel
  BY <1>1, <1>2, <1>5 DEF UsePanel, AnnounceInv, SentInv, SteppedInv, MovedInv
<1>6. CASE LeavePanel
  <2>1. /\ UNCHANGED <<hasLastOutput, lastNominalSemitones, suppressNextOutputTrigger,
                       outputTriggerCountdown, arpEnabled>>
        /\ panel' = IF panel = "now" THEN "before" ELSE "no"
    BY <1>6 DEF LeavePanel, channelVars
  <2>2. ASSUME ~arpEnabled PROVE dac' = CodeOf(lastNominalSemitones)
    <3>1. \E interval \in ArpIntervals : dac' = SemitonesToDac(Voice(interval), DacCalibration)
      BY DEF WritePitch, SendPitch
    <3>2. \A interval \in ArpIntervals : Voice(interval) = result.pitch
      BY <2>1, <2>2 DEF Voice
    <3> QED
      BY <1>3, <3>1, <3>2 DEF CodeOf
  <2>3. SentInv'
    <3>1. CodeOf(lastNominalSemitones)' = CodeOf(lastNominalSemitones)
      BY <2>1 DEF CodeOf
    <3> QED
      BY <1>1, <1>3, <2>1, <2>2, <3>1 DEF SentInv
  <2>4. ASSUME panel' = "no", ~arpEnabled PROVE moved' <=> JustFired
    <3>1. moved' <=> dac # Unwritten /\ dac' # dac
      BY DEF WritePitch
    <3>2. panel # "now"
      BY <2>1, <2>4
    <3>3. CASE dac = Unwritten /\ ~JustFired
      BY <3>1, <3>3
    <3>4. CASE \E note \in Semitone :
                 dac = CodeOf(note) /\ (JustFired <=> note # lastNominalSemitones)
      <4>1. PICK note \in Semitone :
              dac = CodeOf(note) /\ (JustFired <=> note # lastNominalSemitones)
        BY <3>4
      <4>2. dac # Unwritten
        BY <4>1, CodeOfType
      <4>3. dac' = dac <=> note = lastNominalSemitones
        BY <1>4, <2>2, <2>4, <4>1 DEF NotesHaveCodes
      <4> QED
        BY <3>1, <4>1, <4>2, <4>3
    <3> QED
      BY <1>3, <2>4, <3>2, <3>3, <3>4
  <2>5. MovedInv'
    BY <2>1, <2>4 DEF MovedInv, JustFired
  <2>6. SteppedInv'
    BY <1>1 DEF SteppedInv
  <2> QED
    BY <1>2, <2>3, <2>5, <2>6 DEF AnnounceInv
<1> QED
  BY <1>5, <1>6 DEF WritePitch

\* The rest of the loop leaves the channel, the DAC and the panel alone.
LEMMA OthersAnnounce ==
    ASSUME TypeOK, AnnounceInv,
           WriteTrigger \/ TurnKnob \/ AdcInterrupt \/ TimerInterrupt \/ BootRead \/ StartTimer
             \/ UNCHANGED vars
    PROVE  AnnounceInv'
<1>1. /\ UNCHANGED <<config, lastGlideTarget, lastGlideCurrent, lastNominalSemitones>>
      /\ UNCHANGED <<suppressNextOutputTrigger, hasLastOutput, outputTriggerCountdown>>
  BY DEF WriteTrigger, TurnKnob, AdcInterrupt, TimerInterrupt, BootRead, StartTimer, vars,
         channelVars
<1>2. UNCHANGED <<arpEnabled, dac, panel>>
  BY DEF WriteTrigger, TurnKnob, AdcInterrupt, TimerInterrupt, BootRead, StartTimer, vars,
         loopVars, pastVars, outputVars
<1>3. \/ phase = "written" /\ phase' = "idle"
      \/ phase = "boot" /\ phase' = "idle"
      \/ UNCHANGED <<phase, result, moved>>
  BY DEF WriteTrigger, TurnKnob, AdcInterrupt, TimerInterrupt, BootRead, StartTimer, vars,
         loopVars, pastVars
<1>4. NoteInv'
  BY <1>1 DEF AnnounceInv, NoteInv
<1>5. SentInv'
  BY <1>1, <1>2, <1>3 DEF AnnounceInv, SentInv, CodeOf
<1>6. SteppedInv'
  BY <1>1, <1>2, <1>3 DEF AnnounceInv, SteppedInv, CodeOf, JustFired
<1>7. MovedInv'
  BY <1>1, <1>2, <1>3 DEF AnnounceInv, MovedInv, JustFired
<1> QED
  BY <1>4, <1>5, <1>6, <1>7 DEF AnnounceInv

LEMMA InitAnnounces == ASSUME Init PROVE AnnounceInv
<1>1. 0 * GlideOne = 0
  BY ChannelAssumption
<1> QED
  BY <1>1 DEF Init, ChannelInit, AnnounceInv, NoteInv, SentInv, SteppedInv, MovedInv

LEMMA NextAnnounces ==
    ASSUME PlainConfigs, NotesHaveCodes
    PROVE  LoopInv /\ AnnounceInv /\ [Next]_vars => AnnounceInv'
<1> SUFFICES ASSUME LoopInv, AnnounceInv, [Next]_vars PROVE AnnounceInv'
  OBVIOUS
<1>1. TypeOK /\ SampleInv /\ PulseInv
  BY DEF LoopInv
<1>2. CASE Process
  BY <1>1, <1>2, ProcessAnnounces
<1>3. CASE WritePitch
  BY <1>1, <1>3, WritePitchAnnounces
<1>4. CASE WriteTrigger \/ TurnKnob \/ AdcInterrupt \/ TimerInterrupt \/ BootRead \/ StartTimer
             \/ UNCHANGED vars
  BY <1>1, <1>4, OthersAnnounce
<1> QED
  BY <1>2, <1>3, <1>4 DEF Next, Pass

-----------------------------------------------------------------------------
(***************************************************************************)
(* The theorems                                                            *)
(***************************************************************************)

LEMMA NextKeepsInv == LoopInv /\ [Next]_vars => LoopInv'
<1> SUFFICES ASSUME LoopInv, [Next]_vars PROVE LoopInv'
  OBVIOUS
<1>1. TypeOK /\ SampleInv /\ PulseInv
  BY DEF LoopInv
<1>2. CASE Process
  BY <1>1, <1>2, ProcessTypes, ProcessKeepsPulses DEF LoopInv
<1>3. CASE WritePitch
  BY <1>1, <1>3, WritePitchTypes, WritePitchKeepsPulses DEF LoopInv
<1>4. CASE WriteTrigger
  BY <1>1, <1>4, WriteTriggerTypes, WriteTriggerKeepsPulses DEF LoopInv
<1>5. CASE TimerInterrupt
  BY <1>1, <1>5, AroundTypes, TimerKeepsPulses DEF LoopInv
<1>6. CASE TurnKnob \/ AdcInterrupt \/ BootRead \/ StartTimer \/ UNCHANGED vars
  BY <1>1, <1>6, AroundTypes, AroundKeepsPulses DEF LoopInv
<1> QED
  BY <1>2, <1>3, <1>4, <1>5, <1>6 DEF Next, Pass

\* Types, the samples of the inputs and the pulses of the output, with interrupts at
\* any moment and any number of ticks waiting.
THEOREM LoopAlwaysInv == Spec => []LoopInv
<1>1. Init => LoopInv
  BY InitTypes, InitPulses DEF LoopInv
<1> QED
  BY <1>1, NextKeepsInv, PTL DEF Spec

\* What the loop copies lies between two voltages of the right jack: no spike reaches
\* it, but for one of the first round while the window has no newer samples, and nothing
\* from before the multiplexer had settled (AvrAnalogInputs).
THEOREM LevelsAreReal == Spec => OnlyRealLevels
<1>1. LoopInv /\ [Next]_vars =>
        [ snapshot' # snapshot =>
            \A c \in Channel : ~stuck[c] =>
                \E low, top \in Levels[c] : low <= snapshot'[c] /\ snapshot'[c] <= top ]_vars
  <2> SUFFICES ASSUME LoopInv, [Next]_vars, snapshot' # snapshot, NEW c \in Channel, ~stuck[c]
               PROVE  \E low, top \in Levels[c] : low <= snapshot'[c] /\ snapshot'[c] <= top
    OBVIOUS
  <2>1. fresh /\ BeginCycle
    <3>1. CASE Process
      BY <3>1 DEF Process, analogVars
    <3>2. CASE BootRead
      BY <3>2 DEF BootRead
    <3>3. CASE TurnKnob \/ AdcInterrupt
      BY <3>3 DEF TurnKnob, Turn, AdcInterrupt, OnConversion, Discard, Convert
    <3>4. CASE TimerInterrupt \/ StartTimer \/ WritePitch \/ WriteTrigger \/ UNCHANGED vars
      BY <3>4 DEF TimerInterrupt, StartTimer, WritePitch, WriteTrigger, vars, analogVars
    <3> QED
      BY <3>1, <3>2, <3>3, <3>4 DEF Next, Pass
  <2>2. snapshot'[c] = Published(c)
    BY <2>1 DEF BeginCycle
  <2>3. AnalogTypeOK /\ SampleInv
    BY DEF LoopInv, TypeOK
  <2> QED
    BY <2>1, <2>2, <2>3, CopyIsReal
<1> QED
  BY <1>1, LoopAlwaysInv, PTL DEF Spec, OnlyRealLevels

\* The trigger output stays high for its samples, less one tick, however late the
\* passes of the loop are (FirmwareController::run).
THEOREM PulsesAlwaysLast == Spec => PulsesLast
<1>1. LoopInv /\ [Next]_vars =>
        [ triggerOut /\ ~triggerOut' => high >= TriggerCvTimeSamples - 1 ]_vars
  <2> SUFFICES ASSUME LoopInv, [Next]_vars, triggerOut, ~triggerOut'
               PROVE  high >= TriggerCvTimeSamples - 1
    OBVIOUS
  <2>1. CASE WriteTrigger
    <3>1. InPass /\ ~result.trigger /\ arpTriggerTicks = 0
      BY <2>1 DEF WriteTrigger, InPass
    <3> QED
      BY <3>1 DEF LoopInv, PulseInv, FallInv
  <2>2. CASE ~WriteTrigger
    <3>1. triggerOut' = triggerOut
      BY <2>2 DEF Next, Pass, Process, WritePitch, TurnKnob, AdcInterrupt, TimerInterrupt,
                  BootRead, StartTimer, vars, loopVars, outputVars
    <3> QED
      BY <3>1
  <2> QED
    BY <2>1, <2>2
<1> QED
  BY <1>1, LoopAlwaysInv, PTL DEF Spec, PulsesLast

\* When the player moves the note, the pass that sends its pitch raises the trigger, and
\* no other pass does (FirmwareController::run): whatever the panel was used for before,
\* however late the pass is. For configurations in which a change of note is a change of
\* pitch, and a calibration that keeps the notes apart.
THEOREM PitchesAlwaysComeWithTriggers ==
    ASSUME PlainConfigs, NotesHaveCodes
    PROVE  Spec => PitchesComeWithTriggers
<1>1. Init => AnnounceInv
  BY InitAnnounces
<1>2. LoopInv /\ AnnounceInv /\ [Next]_vars => AnnounceInv'
  BY NextAnnounces
<1>3. LoopInv /\ AnnounceInv /\ [Next]_vars =>
        [ (phase = "written" /\ phase' = "idle" /\ ~arpEnabled /\ arpTriggerTicks = 0
              /\ panel = "no")
          => (moved => triggerOut') /\ (triggerOut' /\ ~triggerOut => moved) ]_vars
  <2> SUFFICES ASSUME LoopInv, AnnounceInv, [Next]_vars, phase = "written", phase' = "idle",
                      ~arpEnabled, arpTriggerTicks = 0, panel = "no"
               PROVE  (moved => triggerOut') /\ (triggerOut' /\ ~triggerOut => moved)
    OBVIOUS
  <2>1. WriteTrigger
    BY DEF Next, Pass, Process, WritePitch, TurnKnob, AdcInterrupt, TimerInterrupt, BootRead,
           StartTimer, vars, loopVars
  <2>2. triggerOut' <=> result.trigger
    BY <2>1 DEF WriteTrigger
  <2>3. hasLastOutput /\ (moved <=> JustFired)
    BY DEF AnnounceInv, SentInv, MovedInv
  <2>4. result.trigger <=> OutputTrigger
    BY <2>3 DEF LoopInv, PulseInv, ResultInv, InPass
  <2>5. JustFired => OutputTrigger
    BY PulseSizes DEF JustFired, OutputTrigger
  <2>6. ASSUME OutputTrigger, ~triggerOut PROVE JustFired
    <3>1. OutputLeft = TriggerCvTimeSamples
      BY <2>6 DEF LoopInv, PulseInv, RiseInv
    <3>2. outputTriggerCountdown \in 0 .. TriggerLedTimeSamples
      BY DEF LoopInv, TypeOK, ChannelTypeOK
    <3> QED
      BY <3>1, <3>2, PulseSizes DEF OutputLeft, JustFired
  <2> QED
    BY <2>2, <2>3, <2>4, <2>5, <2>6
<1> QED
  BY <1>1, <1>2, <1>3, LoopAlwaysInv, PTL DEF Spec, PitchesComeWithTriggers

\* The hypotheses are met as the module is shipped.
COROLLARY FactoryPitchesComeWithTriggers ==
    ASSUME PlainConfigs, DacCalibration = FactoryCalibration, MaxSemitone <= DacMaximumCode
    PROVE  Spec => PitchesComeWithTriggers
  BY FactoryKeepsNotes, PitchesAlwaysComeWithTriggers
=============================================================================
