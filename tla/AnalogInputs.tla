---------------------------- MODULE AnalogInputs ----------------------------
(***************************************************************************)
(* AvrAnalogInputs: one ADC goes round the inputs, its interrupt keeps     *)
(* every second conversion, and the control loop copies the filtered       *)
(* values when a round is new to it.                                       *)
(*                                                                         *)
(* The jacks move at any time.  After a change of the multiplexer the next *)
(* conversion starts before the input has settled and may read anything;   *)
(* later ones read the jack, or, on a disturbed input and not more than    *)
(* once in a filter's window, a spike.                                     *)
(*                                                                         *)
(* sequence_ # consumed_ is the flag fresh: a round takes 0.6 ms, so that  *)
(* the 16-bit counter would need 40 s without a read to come round.  The   *)
(* ring of a channel's samples is a sequence, the newest last: each round  *)
(* replaces the oldest one.                                                *)
(***************************************************************************)
EXTENDS Integers, FiniteSets, SequencesExt

CONSTANTS
    LastChannel,    \* kAdcChannelCount - 1; channel 0 is the key ladder
    FilterWindow,   \* kAdcMovingAverageSamples
    Levels,         \* the codes of the voltages each jack may have
    Spikes          \* what else a settled conversion of the channel may read

Channel == 0 .. LastChannel

Codes == UNION {Levels[c] \cup Spikes[c] : c \in Channel}

\* The median of an odd window withstands one spike when it holds three samples.
ASSUME AnalogAssumption ==
    /\ LastChannel \in Nat
    /\ FilterWindow \in Nat /\ FilterWindow >= 3 /\ FilterWindow % 2 = 1
    /\ Levels \in [Channel -> SUBSET Nat] /\ Spikes \in [Channel -> SUBSET Nat]
    /\ \A c \in Channel : Levels[c] # {}

VARIABLES
    level,          \* the code of the voltage on each jack
    settled,        \* the multiplexer has been left alone for one conversion
    quiet,          \* conversions of each input before it may be disturbed again
    channel,        \* channel_
    discard,        \* discard_
    primed,         \* primed_
    history,        \* history_, oldest sample first
    fresh,          \* sequence_ # consumed_
    snapshot,       \* snapshot_
    stuck           \* history: inputs that began with a spike, until one sample has it

adcVars == <<settled, quiet, channel, discard, primed, history, stuck>>
analogVars == <<level, adcVars, fresh, snapshot>>

AnalogTypeOK ==
    /\ level \in [Channel -> Codes]
    /\ settled \in BOOLEAN
    /\ quiet \in [Channel -> 0 .. FilterWindow - 1]
    /\ channel \in Channel
    /\ discard \in BOOLEAN
    /\ primed \in BOOLEAN
    /\ history \in [Channel -> [1 .. FilterWindow -> Codes \cup {0}]]
    /\ fresh \in BOOLEAN
    /\ snapshot \in [Channel -> Codes \cup {0}]
    /\ stuck \in [Channel -> BOOLEAN]

AnalogInit ==
    /\ level \in {f \in [Channel -> Codes] : \A c \in Channel : f[c] \in Levels[c]}
    /\ settled = FALSE
    /\ quiet = [c \in Channel |-> 0]
    /\ channel = 0
    /\ discard = TRUE
    /\ primed = FALSE
    /\ history = [c \in Channel |-> [i \in 1 .. FilterWindow |-> 0]]
    /\ fresh = FALSE
    /\ snapshot = [c \in Channel |-> 0]
    /\ stuck = [c \in Channel |-> FALSE]

-----------------------------------------------------------------------------
(***************************************************************************)
(* The jacks and the interrupt                                             *)
(***************************************************************************)

Turn(c) ==
    /\ \E code \in Levels[c] \ {level[c]} : level' = [level EXCEPT ![c] = code]
    /\ UNCHANGED <<adcVars, fresh, snapshot>>

MayBeDisturbed == settled /\ quiet[channel] = 0

Reads(code) ==
    \/ ~settled /\ code \in Codes
    \/ settled /\ code = level[channel]
    \/ MayBeDisturbed /\ code \in Spikes[channel]

Median(samples) ==
    CHOOSE code \in Range(samples) :
        LET below == {i \in DOMAIN samples : samples[i] < code}
            upTo == {i \in DOMAIN samples : samples[i] <= code}
        IN  /\ Cardinality(below) <= FilterWindow \div 2
            /\ Cardinality(upTo) > FilterWindow \div 2

\* published_: the interrupt sorts the samples whenever one of them is new.
Published(c) == Median(history[c])

\* The first result after a change of the channel is dropped.
Discard ==
    /\ discard
    /\ discard' = FALSE
    /\ settled' = TRUE
    /\ UNCHANGED <<level, quiet, channel, primed, history, fresh, snapshot, stuck>>

\* The first round fills the whole window with its one sample.
Keep(code) ==
    IF primed THEN [history EXCEPT ![channel] = Append(Tail(@), code)]
    ELSE [history EXCEPT ![channel] = [i \in 1 .. FilterWindow |-> code]]

(* Mutant of SelectChannel: the first conversion on a new channel is kept. *)
SelectChannelAtOnce ==
    /\ channel' = IF channel = LastChannel THEN 0 ELSE channel + 1
    /\ discard' = FALSE
    /\ settled' = FALSE

SelectChannel ==
    /\ channel' = IF channel = LastChannel THEN 0 ELSE channel + 1
    /\ discard' = TRUE
    /\ settled' = FALSE

EndsRound == channel = LastChannel

Convert ==
    /\ ~discard
    /\ \E code \in Codes :
        /\ Reads(code)
        /\ history' = Keep(code)
        /\ quiet' = [quiet EXCEPT ![channel] =
                        IF code # level[channel] THEN FilterWindow - 1
                        ELSE IF @ = 0 THEN 0 ELSE @ - 1]
        /\ stuck' = [stuck EXCEPT ![channel] =
                        quiet'[channel] # 0 /\ (@ \/ ~primed)]
    /\ SelectChannel
    /\ primed' = (primed \/ EndsRound)
    /\ fresh' = (fresh \/ EndsRound)
    /\ UNCHANGED <<level, snapshot>>

OnConversion == Discard \/ Convert

-----------------------------------------------------------------------------
(***************************************************************************)
(* The loop: sampleReady() is fresh                                        *)
(***************************************************************************)

BeginCycle ==
    /\ snapshot' = [c \in Channel |-> Published(c)]
    /\ fresh' = FALSE
    /\ UNCHANGED <<level, adcVars>>
=============================================================================
