------------------------- MODULE ArpeggiatorProofs -------------------------
(***************************************************************************)
(* Proofs about the arpeggiator, for every length, scale, rate, divider,   *)
(* multiplier and time between two ticks: what it plays (ArpeggiatorFigure)*)
(* and when it steps (ArpeggiatorTiming).                                  *)
(*                                                                         *)
(* A figure's inductive invariant says what the history keeps of a sweep;  *)
(* the notes it plays come from lemmas about the search for a degree.  The *)
(* timing's relates the count of the divider to the edges at the jack, and *)
(* the time of the last multiplied step to its ideal time.                 *)
(***************************************************************************)
EXTENDS ArpeggiatorTiming, ArpeggiatorFigure, SequenceTheorems, FiniteSetTheorems,
        WellFoundedInduction, TLAPS

-----------------------------------------------------------------------------
(***************************************************************************)
(* Division, and the least of a set of naturals                            *)
(***************************************************************************)

\* Division, said once for the provers: a product and a rest, and only one of each.
LEMMA Remainder ==
    ASSUME NEW n \in Int, NEW divisor \in Nat \ {0}
    PROVE  /\ n % divisor \in 0 .. divisor - 1 /\ n \div divisor \in Int
           /\ n = divisor * (n \div divisor) + (n % divisor)
<1>1. n \in Int /\ divisor \in Nat \ {0}
  OBVIOUS
<1>2. n = divisor * (n \div divisor) + (n % divisor) /\ (n % divisor) \in 0 .. divisor - 1
  BY <1>1
<1>3. n \div divisor \in Int
  BY <1>1
<1> QED
  BY <1>2, <1>3

LEMMA DivisionIsUnique ==
    ASSUME NEW divisor \in Nat \ {0}, NEW quotient \in Int, NEW rest \in 0 .. divisor - 1
    PROVE  /\ (divisor * quotient + rest) % divisor = rest
           /\ (divisor * quotient + rest) \div divisor = quotient
<1> DEFINE n == divisor * quotient + rest
           q == n \div divisor
           r == n % divisor
<1>1. n \in Int
  OBVIOUS
<1>2. q \in Int /\ r \in 0 .. divisor - 1 /\ divisor * q + r = divisor * quotient + rest
  BY <1>1, Remainder
<1> HIDE DEF q, r
<1>3. divisor * (q - quotient) = rest - r
  BY <1>2
<1>4. q - quotient \in Int
  BY <1>2
<1>5. ASSUME NEW k \in Int, k >= 1 PROVE divisor * k >= divisor
  <2>1. PICK j \in Nat : k = j + 1
    <3>1. k - 1 \in Nat /\ k = (k - 1) + 1
      BY <1>5
    <3> QED
      BY <3>1
  <2>2. divisor * k = divisor * j + divisor /\ divisor * j \in Nat
    BY <2>1
  <2> QED
    BY <2>2
<1>6. ~(q - quotient >= 1)
  BY <1>2, <1>3, <1>4, <1>5
<1>7. ~(quotient - q >= 1)
  <2>1. SUFFICES ASSUME quotient - q >= 1 PROVE FALSE
    OBVIOUS
  <2>2. divisor * (quotient - q) >= divisor
    BY <1>2, <1>5, <2>1
  <2>3. divisor * (quotient - q) = r - rest
    BY <1>2
  <2> QED
    BY <1>2, <2>2, <2>3
<1>8. q = quotient
  BY <1>2, <1>6, <1>7
<1>9. r = rest
  BY <1>2, <1>8
<1> QED
  BY <1>8, <1>9 DEF q, r

LEMMA RemainderOf ==
    ASSUME NEW n \in Int, NEW divisor \in Nat \ {0}
    PROVE  /\ n \in 0 .. divisor - 1 => n % divisor = n
           /\ n \in divisor .. 2 * divisor - 1 => n % divisor = n - divisor
           /\ n \in -divisor .. -1 => n % divisor = n + divisor
<1>1. CASE n \in 0 .. divisor - 1
  <2>1. n = divisor * 0 + n
    OBVIOUS
  <2> QED
    BY <1>1, <2>1, DivisionIsUnique
<1>2. CASE n \in divisor .. 2 * divisor - 1
  <2>1. n = divisor * 1 + (n - divisor) /\ n - divisor \in 0 .. divisor - 1
    BY <1>2
  <2> QED
    BY <1>2, <2>1, DivisionIsUnique
<1>3. CASE n \in -divisor .. -1
  <2>1. n = divisor * (-1) + (n + divisor) /\ n + divisor \in 0 .. divisor - 1
    BY <1>3
  <2>2. -1 \in Int
    OBVIOUS
  <2> QED
    BY <1>3, <2>1, <2>2, DivisionIsUnique
<1> QED
  BY <1>1, <1>2, <1>3

LEMMA NextRemainder ==
    ASSUME NEW n \in Int, NEW divisor \in Nat \ {0}
    PROVE  (n + 1) % divisor = IF n % divisor = divisor - 1 THEN 0 ELSE (n % divisor) + 1
<1> DEFINE q == n \div divisor
           r == n % divisor
<1>1. q \in Int /\ r \in 0 .. divisor - 1 /\ n = divisor * q + r
  BY Remainder
<1> HIDE DEF q, r
<1>2. CASE r = divisor - 1
  <2>1. n + 1 = divisor * (q + 1) + 0 /\ q + 1 \in Int /\ 0 \in 0 .. divisor - 1
    BY <1>1, <1>2
  <2>2. (n + 1) % divisor = 0
    BY <2>1, DivisionIsUnique
  <2> QED
    BY <1>2, <2>2 DEF r
<1>3. CASE r # divisor - 1
  <2>1. n + 1 = divisor * q + (r + 1) /\ r + 1 \in 0 .. divisor - 1
    BY <1>1, <1>3
  <2>2. (n + 1) % divisor = r + 1
    BY <1>1, <2>1, DivisionIsUnique
  <2> QED
    BY <1>3, <2>2 DEF r
<1> QED
  BY <1>2, <1>3

LEMMA QuotientBounds ==
    ASSUME NEW n \in Nat, NEW divisor \in Nat \ {0}
    PROVE  n \div divisor \in 0 .. n
<1> DEFINE q == n \div divisor
           r == n % divisor
<1>1. q \in Int /\ r \in 0 .. divisor - 1 /\ n = divisor * q + r
  <2>1. n \in Int
    OBVIOUS
  <2> QED
    BY <2>1, Remainder
<1> HIDE DEF q, r
<1>2. q >= 0
  <2>1. SUFFICES ASSUME q < 0 PROVE FALSE
    BY <1>1
  <2>2. PICK j \in Nat : -q = j + 1
    <3>1. -q - 1 \in Nat /\ -q = (-q - 1) + 1
      BY <1>1, <2>1
    <3> QED
      BY <3>1
  <2>3. divisor * (-q) = divisor * j + divisor /\ divisor * j \in Nat
    BY <2>2
  <2>4. divisor * q = -(divisor * (-q))
    BY <1>1
  <2> QED
    BY <1>1, <2>3, <2>4
<1>3. divisor * q >= q
  <2>1. PICK j \in Nat : divisor = j + 1
    <3>1. divisor - 1 \in Nat /\ divisor = (divisor - 1) + 1
      OBVIOUS
    <3> QED
      BY <3>1
  <2>2. divisor * q = j * q + q /\ j * q \in Nat
    BY <1>1, <1>2, <2>1
  <2> QED
    BY <1>1, <2>2
<1>4. q <= n
  BY <1>1, <1>3
<1> QED
  BY <1>1, <1>2, <1>4 DEF q

\* The order of the naturals as a set of pairs.
Below == {ss \in Nat \X Nat : ss[1] < ss[2]}

LEMMA BelowWF == IsWellFoundedOn(Below, Nat)
  BY NatLessThanWellFounded DEF OpToRel, Below

\* A least element stands in for induction on the search for a degree.
LEMMA LeastNatural ==
    ASSUME NEW S \in SUBSET Nat, S # {}
    PROVE  \E x \in S : \A y \in S : x <= y
<1>1. \E x \in S : \A y \in S : ~(<<y, x>> \in Below)
  BY BelowWF, WFMin
<1>2. PICK x \in S : \A y \in S : ~(<<y, x>> \in Below)
  BY <1>1
<1>3. ASSUME NEW y \in S PROVE x <= y
  <2>1. y \in Nat /\ x \in Nat /\ ~(<<y, x>> \in Below)
    BY <1>2
  <2>2. ~(y < x)
    BY <2>1 DEF Below
  <2> QED
    BY <2>1, <2>2
<1> QED
  BY <1>3

-----------------------------------------------------------------------------
(***************************************************************************)
(* From a step to a position                                               *)
(***************************************************************************)

LEMMA TurningType ==
    ASSUME NEW length \in Nat, length >= 2, NEW counter \in Nat
    PROVE  Turning(counter, length) \in 0 .. length - 1
<1> DEFINE period == 2 * length - 2
           p == counter % period
<1>1. period \in Nat \ {0}
  OBVIOUS
<1>2. p \in 0 .. period - 1
  BY <1>1, Remainder
<1> HIDE DEF p
<1>3. (IF p < length THEN p ELSE period - p) \in 0 .. length - 1
  BY <1>1, <1>2
<1> QED
  BY <1>3 DEF Turning, p

\* A turning pattern never stays and never jumps, at its ends either.
LEMMA TurningGoesToNeighbour ==
    ASSUME NEW length \in Nat, length >= 2, NEW counter \in Nat
    PROVE  Turning(counter + 1, length) - Turning(counter, length) \in {-1, 1}
<1> DEFINE period == 2 * length - 2
           p == counter % period
           q == (counter + 1) % period
<1>1. period \in Nat \ {0} /\ counter \in Int
  OBVIOUS
<1>2. p \in 0 .. period - 1
  BY <1>1, Remainder
<1>3. q = IF p = period - 1 THEN 0 ELSE p + 1
  BY <1>1, NextRemainder
<1> HIDE DEF p, q
<1>4. (IF q < length THEN q ELSE period - q) - (IF p < length THEN p ELSE period - p) \in {-1, 1}
  BY <1>1, <1>2, <1>3
<1> QED
  BY <1>4 DEF Turning, p, q

LEMMA FromTheMiddleOf ==
    ASSUME NEW length \in Nat \ {0}, NEW s \in 0 .. length - 1
    PROVE  FromTheMiddle(s, length) =
             IF s % 2 = 0 THEN (length - 1) \div 2 + s \div 2
             ELSE IF (s + 1) \div 2 <= (length - 1) \div 2
                  THEN (length - 1) \div 2 - (s + 1) \div 2 ELSE length - 1
<1> DEFINE middle == (length - 1) \div 2
           half == s \div 2
           up == (s + 1) \div 2
<1>1. middle \in Nat /\ half \in Nat /\ up \in Nat /\ length - 1 \in Nat /\ s \in Nat
  OBVIOUS
<1>2. CASE s % 2 = 0
  <2>1. middle + half \in 0 .. length - 1
    BY <1>1, <1>2
  <2>2. (middle + half) % length = middle + half
    BY <2>1, RemainderOf
  <2> QED
    BY <1>2, <2>2 DEF FromTheMiddle
<1>3. CASE s % 2 # 0 /\ up <= middle
  <2>1. middle - up \in 0 .. length - 1
    BY <1>1, <1>3
  <2>2. (middle - up) % length = middle - up
    BY <2>1, RemainderOf
  <2> QED
    BY <1>3, <2>2 DEF FromTheMiddle
<1>4. CASE s % 2 # 0 /\ ~(up <= middle)
  <2>1. middle - up = -1
    BY <1>1, <1>4
  <2>2. (middle - up) % length = length - 1
    <3>1. -1 \in Int /\ -1 \in -length .. -1 /\ -1 + length = length - 1
      OBVIOUS
    <3>2. (-1) % length = -1 + length
      BY <3>1, RemainderOf
    <3> QED
      BY <2>1, <3>1, <3>2
  <2> QED
    BY <1>4, <2>2 DEF FromTheMiddle
<1> QED
  BY <1>2, <1>3, <1>4

LEMMA PositionType ==
    ASSUME NEW pattern \in Pattern, NEW length \in Nat \ {0}, NEW counter \in Nat,
           NEW random \in Nat
    PROVE  PatternPosition(pattern, counter, length, random) \in 0 .. length - 1
<1> DEFINE s == counter % length
<1>1. s \in 0 .. length - 1 /\ s \in Nat /\ random % length \in 0 .. length - 1
  BY Remainder
<1>2. (2 * s) % length \in 0 .. length - 1
  BY <1>1, Remainder
<1>3. (IF s % 2 = 0 THEN s \div 2 ELSE length - (s + 1) \div 2) \in 0 .. length - 1
  BY <1>1
<1>4. FromTheMiddle(s, length) \in 0 .. length - 1
  <2>1. ((length - 1) \div 2 + s \div 2) \in Int /\ ((length - 1) \div 2 - (s + 1) \div 2) \in Int
    BY <1>1
  <2> QED
    BY <2>1, Remainder DEF FromTheMiddle
<1>5. length # 1 => Turning(counter, length) \in 0 .. length - 1
  BY TurningType
<1>6. length - 1 - s \in 0 .. length - 1
  BY <1>1
<1>7. length # 1 => length - 1 - Turning(counter, length) \in 0 .. length - 1
  BY <1>5
<1>8. 0 \in 0 .. length - 1
  OBVIOUS
<1> HIDE DEF s
<1> QED
  BY <1>1, <1>2, <1>3, <1>4, <1>5, <1>6, <1>7, <1>8 DEF PatternPosition, Pattern, s

SweepsOnce(pattern, length) ==
    \/ pattern \in {"Up", "Down", "OutsideIn", "InsideOut"}
    \/ pattern = "Rotate" /\ length % 2 = 1

\* Each position has a step of the sweep at which it is played, and the pattern
\* only looks at where in the sweep the counter is.
LEMMA EveryPositionHasItsStep ==
    ASSUME NEW length \in Nat \ {0}, NEW pattern \in Pattern, SweepsOnce(pattern, length),
           NEW position \in 0 .. length - 1
    PROVE  \E s \in 0 .. length - 1 : \A counter \in Nat, random \in Nat :
             counter % length = s
               => PatternPosition(pattern, counter, length, random) = position
<1>1. CASE length = 1
  <2>1. position = 0 /\ 0 \in 0 .. length - 1
    BY <1>1
  <2> QED
    BY <1>1, <2>1 DEF PatternPosition
<1>2. CASE length # 1 /\ pattern = "Up"
  BY <1>2 DEF PatternPosition
<1>3. CASE length # 1 /\ pattern = "Down"
  <2>1. length - 1 - position \in 0 .. length - 1
        /\ length - 1 - (length - 1 - position) = position
    OBVIOUS
  <2> QED
    BY <1>3, <2>1 DEF PatternPosition
<1>4. CASE length # 1 /\ pattern = "Rotate"
  <2> DEFINE s == IF position % 2 = 0 THEN position \div 2 ELSE (position + length) \div 2
  <2>1. length % 2 = 1
    BY <1>4 DEF SweepsOnce
  <2>2. s \in 0 .. length - 1 /\ 2 * s \in {position, position + length}
    BY <2>1
  <2>3. (2 * s) % length = position
    BY <2>2, RemainderOf
  <2> HIDE DEF s
  <2> QED
    BY <1>4, <2>2, <2>3 DEF PatternPosition
<1>5. CASE length # 1 /\ pattern = "OutsideIn"
  <2> DEFINE s == IF 2 * position <= length - 1 THEN 2 * position
                  ELSE 2 * (length - position) - 1
  <2>1. s \in 0 .. length - 1
    OBVIOUS
  <2>2. (IF s % 2 = 0 THEN s \div 2 ELSE length - (s + 1) \div 2) = position
    OBVIOUS
  <2> HIDE DEF s
  <2> QED
    BY <1>5, <2>1, <2>2 DEF PatternPosition
<1>6. CASE length # 1 /\ pattern = "InsideOut"
  <2> DEFINE middle == (length - 1) \div 2
             s == IF position >= middle /\ 2 * (position - middle) <= length - 1
                  THEN 2 * (position - middle)
                  ELSE IF position >= middle THEN length - 1
                  ELSE 2 * (middle - position) - 1
  <2>1. s \in 0 .. length - 1 /\ middle \in Nat
    OBVIOUS
  <2>2. (IF s % 2 = 0 THEN middle + s \div 2
         ELSE IF (s + 1) \div 2 <= middle THEN middle - (s + 1) \div 2 ELSE length - 1)
           = position
    OBVIOUS
  <2>3. FromTheMiddle(s, length) = position
    BY <2>1, <2>2, FromTheMiddleOf
  <2> HIDE DEF s
  <2> QED
    BY <1>6, <2>1, <2>3 DEF PatternPosition
<1> QED
  BY <1>1, <1>2, <1>3, <1>4, <1>5, <1>6 DEF SweepsOnce

-----------------------------------------------------------------------------
(***************************************************************************)
(* What is kept of a sweep                                                 *)
(***************************************************************************)

\* What the sweep remembers: the positions of the last steps, back to the last edit,
\* and back to where the counter has started again.
SweepInv ==
    /\ sweep \in Seq(0 .. figure.length - 1)
    /\ Len(sweep) \in 1 .. figure.length
    /\ figure.pattern # "Random" =>
         \A i \in 1 .. Len(sweep), random \in RandomStates :
           stepCounter - Len(sweep) + i >= 0 =>
             sweep[i] = PatternPosition(figure.pattern, stepCounter - Len(sweep) + i,
                                        figure.length, random)

FigureInv == FigureTypeOK /\ SweepInv

LEMMA PositionIgnoresRandom ==
    ASSUME NEW pattern, pattern # "Random", NEW length, NEW counter, NEW r1, NEW r2
    PROVE  PatternPosition(pattern, counter, length, r1)
             = PatternPosition(pattern, counter, length, r2)
<1>1. CASE length = 1
  BY <1>1 DEF PatternPosition
<1>2. CASE length # 1
  BY <1>2 DEF PatternPosition
<1> QED
  BY <1>1, <1>2

LEMMA FigureTypes ==
    ASSUME FigureTypeOK
    PROVE  /\ figure \in Figure /\ figure.pattern \in Pattern /\ figure.length \in Nat \ {0}
           /\ figure.range \in 1 .. 4 /\ figure.shape \in Shape
           /\ notes \in SUBSET (0 .. NoteCount - 1) /\ root \in 0 .. MaxSemitone
           /\ stepCounter \in Nat /\ stepCounter < StepModulus /\ randomState \in Nat
<1>1. figure \in Figure /\ StepModulus \in Nat \ {0}
  BY FigureAssumption DEF FigureTypeOK
<1> QED
  BY <1>1, FigureAssumption DEF FigureTypeOK, Figure

FigureParts ==
    /\ figure \in Figures /\ notes \in Scales /\ root \in Roots
    /\ stepCounter \in 0 .. StepModulus - 1 /\ randomState \in RandomStates

LEMMA FigureTypeKept == FigureParts => FigureTypeOK
<1> SUFFICES ASSUME FigureParts PROVE FigureTypeOK
  OBVIOUS
<1>1. figure \in Figure /\ StepModulus \in Nat \ {0} /\ randomState \in Nat
  BY FigureAssumption DEF FigureParts
<1>2. figure.pattern \in Pattern /\ figure.length \in Nat \ {0} /\ stepCounter \in Nat
  BY <1>1 DEF Figure, FigureParts
<1>3. Position \in 0 .. figure.length - 1
  BY <1>1, <1>2, PositionType DEF Position
<1> QED
  BY <1>3 DEF FigureTypeOK, FigureParts

\* A sweep that starts again has one position, of the step the counter is at.
SweepStarts == sweep = <<Position>>

LEMMA NewSweep == FigureTypeOK /\ SweepStarts => SweepInv
<1> SUFFICES ASSUME FigureTypeOK, SweepStarts PROVE SweepInv
  OBVIOUS
<1>1. Position \in 0 .. figure.length - 1
  BY DEF FigureTypeOK
<1>2. sweep \in Seq(0 .. figure.length - 1) /\ Len(sweep) = 1 /\ sweep[1] = Position
  BY <1>1 DEF SweepStarts
<1>3. figure.length \in Nat \ {0} /\ stepCounter \in Nat
  BY FigureTypes
<1>4. ASSUME figure.pattern # "Random", NEW i \in 1 .. Len(sweep), NEW random \in RandomStates
      PROVE  sweep[i] = PatternPosition(figure.pattern, stepCounter - Len(sweep) + i,
                                        figure.length, random)
  <2>1. i = 1 /\ stepCounter - Len(sweep) + i = stepCounter
    BY <1>2, <1>3
  <2> QED
    BY <1>2, <1>4, <2>1, PositionIgnoresRandom DEF Position
<1>5. Len(sweep) \in 1 .. figure.length
  BY <1>2, <1>3
<1> QED
  BY <1>2, <1>4, <1>5 DEF SweepInv

LEMMA NextCounter ==
    ASSUME FigureTypeOK
    PROVE  /\ (stepCounter + 1) % StepModulus \in 0 .. StepModulus - 1
           /\ (stepCounter + 1) % StepModulus \in {0, stepCounter + 1}
<1>1. stepCounter \in 0 .. StepModulus - 1 /\ stepCounter \in Nat /\ StepModulus \in Nat \ {0}
  BY FigureAssumption, FigureTypes DEF FigureTypeOK
<1>2. (stepCounter + 1) % StepModulus =
        IF stepCounter % StepModulus = StepModulus - 1 THEN 0
        ELSE (stepCounter % StepModulus) + 1
  <2>1. stepCounter \in Int
    BY <1>1
  <2> QED
    BY <1>1, <2>1, NextRemainder
<1>3. stepCounter % StepModulus = stepCounter
  BY <1>1, RemainderOf
<1>4. (stepCounter + 1) % StepModulus \in 0 .. StepModulus - 1
  BY <1>1, Remainder
<1> QED
  BY <1>2, <1>3, <1>4

LEMMA AdvanceKeepsSweep ==
    ASSUME FigureInv, AdvanceStep, FigureTypeOK'
    PROVE  SweepInv'
<1> DEFINE length == figure.length
           before == Len(sweep)
<1>1. /\ figure' = figure /\ stepCounter' = (stepCounter + 1) % StepModulus
      /\ sweep' = Appended(sweep, Position', length)
  BY DEF AdvanceStep
<1>2. /\ length \in Nat \ {0} /\ stepCounter \in Nat
      /\ Position' \in 0 .. length - 1
  BY <1>1, FigureTypes DEF FigureInv, FigureTypeOK
<1>3. sweep \in Seq(0 .. length - 1) /\ before \in 1 .. length
  BY DEF FigureInv, SweepInv
<1>4. stepCounter' = 0 \/ stepCounter' = stepCounter + 1
  BY <1>1, NextCounter DEF FigureInv
<1>5. figure.pattern # "Random" =>
        \A random \in RandomStates :
          Position' = PatternPosition(figure.pattern, stepCounter', length, random)
  BY <1>1, PositionIgnoresRandom DEF Position
<1>6. ASSUME figure.pattern # "Random", NEW i \in 1 .. before, NEW random \in RandomStates,
             stepCounter - before + i >= 0
      PROVE  sweep[i] = PatternPosition(figure.pattern, stepCounter - before + i, length, random)
  BY <1>6 DEF FigureInv, SweepInv
<1> HIDE DEF length, before
<1>7. CASE before < length
  <2>1. sweep' = Append(sweep, Position')
    BY <1>1, <1>7 DEF Appended, before
  <2>2. /\ sweep' \in Seq(0 .. length - 1) /\ Len(sweep') = before + 1
        /\ sweep'[before + 1] = Position'
        /\ \A i \in 1 .. before : sweep'[i] = sweep[i]
    BY <1>2, <1>3, <2>1 DEF before
  <2>3. ASSUME figure.pattern # "Random", NEW i \in 1 .. before + 1, NEW random \in RandomStates,
               stepCounter' - (before + 1) + i >= 0
        PROVE  sweep'[i] = PatternPosition(figure.pattern, stepCounter' - (before + 1) + i,
                                           length, random)
    <3>1. CASE i = before + 1
      <4>1. stepCounter' - (before + 1) + i = stepCounter'
        BY <1>2, <1>3, <1>4, <3>1
      <4> QED
        BY <1>5, <2>2, <2>3, <3>1, <4>1
    <3>2. CASE i \in 1 .. before
      <4>1. /\ stepCounter' = stepCounter + 1
            /\ stepCounter' - (before + 1) + i = stepCounter - before + i
        BY <1>2, <1>3, <1>4, <2>3, <3>2
      <4> QED
        BY <1>6, <2>2, <2>3, <3>2, <4>1
    <3> QED
      BY <1>3, <3>1, <3>2
  <2>4. before + 1 \in 1 .. length
    BY <1>2, <1>3, <1>7
  <2> QED
    BY <1>1, <2>2, <2>3, <2>4 DEF SweepInv, length
<1>8. CASE ~(before < length)
  <2>1. sweep' = Append(Tail(sweep), Position') /\ before = length
    BY <1>1, <1>2, <1>3, <1>8 DEF Appended, before
  <2>2. /\ sweep' \in Seq(0 .. length - 1) /\ Len(sweep') = length
        /\ sweep'[length] = Position'
        /\ \A i \in 1 .. length - 1 : sweep'[i] = sweep[i + 1]
    <3>1. /\ Tail(sweep) \in Seq(0 .. length - 1) /\ Len(Tail(sweep)) = length - 1
          /\ \A i \in 1 .. length - 1 : Tail(sweep)[i] = sweep[i + 1]
      BY <1>2, <1>3, <2>1 DEF before
    <3> QED
      BY <1>2, <2>1, <3>1
  <2>3. ASSUME figure.pattern # "Random", NEW i \in 1 .. length, NEW random \in RandomStates,
               stepCounter' - length + i >= 0
        PROVE  sweep'[i] = PatternPosition(figure.pattern, stepCounter' - length + i,
                                           length, random)
    <3>1. CASE i = length
      <4>1. stepCounter' - length + i = stepCounter'
        BY <1>2, <1>4, <3>1
      <4> QED
        BY <1>5, <2>2, <2>3, <3>1, <4>1
    <3>2. CASE i \in 1 .. length - 1
      <4>1. /\ stepCounter' = stepCounter + 1 /\ i + 1 \in 1 .. before
            /\ stepCounter' - length + i = stepCounter - before + (i + 1)
            /\ stepCounter - before + (i + 1) >= 0
        BY <1>2, <1>4, <2>1, <2>3, <3>2
      <4> QED
        BY <1>6, <2>2, <2>3, <3>2, <4>1
    <3> QED
      BY <1>2, <3>1, <3>2
  <2>4. length \in 1 .. length
    BY <1>2
  <2> QED
    BY <1>1, <2>2, <2>3, <2>4 DEF SweepInv, length
<1> QED
  BY <1>7, <1>8

LEMMA FigureStepKeepsInv ==
    ASSUME FigureInv, [FigureNext]_figureVars
    PROVE  FigureInv'
<1>T. FigureParts' => FigureTypeOK'
  BY FigureTypeKept, PTL
<1>S. FigureTypeOK' /\ SweepStarts' => SweepInv'
  BY NewSweep, PTL
<1>0. figure \in Figures /\ notes \in Scales /\ root \in Roots /\ randomState \in RandomStates
      /\ stepCounter \in 0 .. StepModulus - 1 /\ StepModulus \in Nat \ {0} /\ RandomSeed \in RandomStates
  BY FigureAssumption DEF FigureInv, FigureTypeOK
<1>1. CASE AdvanceStep
  <2>1. /\ figure' \in Figures /\ notes' \in Scales /\ root' \in Roots
        /\ randomState' \in RandomStates /\ stepCounter' \in 0 .. StepModulus - 1
    BY <1>0, <1>1, NextCounter DEF AdvanceStep, FigureInv
  <2>2. FigureTypeOK'
    BY <1>T, <2>1 DEF FigureParts
  <2> QED
    BY <1>1, <2>2, AdvanceKeepsSweep DEF FigureInv
<1>2. CASE ResetFigure \/ SetFigure
  <2>1. /\ figure' \in Figures /\ notes' \in Scales /\ root' \in Roots
        /\ randomState' \in RandomStates /\ stepCounter' \in 0 .. StepModulus - 1
    BY <1>0, <1>2 DEF ResetFigure, SetFigure
  <2>2. FigureTypeOK'
    BY <1>T, <2>1 DEF FigureParts
  <2>3. SweepStarts'
    BY <1>2 DEF ResetFigure, SetFigure, SweepStarts
  <2>4. SweepInv'
    BY <1>S, <2>2, <2>3
  <2> QED
    BY <2>2, <2>4 DEF FigureInv
<1>3. CASE ChannelMoves \/ UNCHANGED figureVars
  <2>1. /\ figure' = figure /\ stepCounter' = stepCounter /\ randomState' = randomState
        /\ sweep' = sweep /\ notes' \in Scales /\ root' \in Roots
    BY <1>0, <1>3 DEF ChannelMoves, figureVars
  <2>2. FigureTypeOK'
    BY <1>T, <1>0, <2>1 DEF FigureParts
  <2>3. SweepInv'
    BY <2>1 DEF FigureInv, SweepInv
  <2> QED
    BY <2>2, <2>3 DEF FigureInv
<1> QED
  BY <1>1, <1>2, <1>3 DEF FigureNext

\* FigureInv is an invariant: what the history keeps of a sweep.
THEOREM FigureAlwaysInv == FigureSpec => []FigureInv
<1>1. FigureInit => FigureInv
  <2> SUFFICES ASSUME FigureInit PROVE FigureInv
    OBVIOUS
  <2>1. /\ figure \in Figures /\ notes \in Scales /\ root \in Roots
        /\ randomState \in RandomStates /\ stepCounter \in 0 .. StepModulus - 1
    BY FigureAssumption DEF FigureInit
  <2>2. FigureTypeOK
    BY <2>1, FigureTypeKept DEF FigureParts
  <2> QED
    BY <2>2, NewSweep DEF FigureInit, FigureInv, SweepStarts
<1>2. FigureInv /\ [FigureNext]_figureVars => FigureInv'
  BY FigureStepKeepsInv
<1> QED
  BY <1>1, <1>2, PTL DEF FigureSpec

\* In a sweep the counter has been everywhere.
LEMMA CounterOfResidue ==
    ASSUME NEW length \in Nat \ {0}, NEW counter \in Nat, counter >= length - 1,
           NEW s \in 0 .. length - 1
    PROVE  \E i \in 1 .. length : counter - length + i >= 0
                                    /\ (counter - length + i) % length = s
<1> DEFINE q == counter \div length
           r == counter % length
<1>1. q \in Int /\ r \in 0 .. length - 1 /\ counter = length * q + r
  BY Remainder
<1> HIDE DEF q, r
<1>2. CASE s <= r
  <2>1. counter - (r - s) = length * q + s
    BY <1>1
  <2>2. (counter - (r - s)) % length = s
    BY <1>1, <2>1, DivisionIsUnique
  <2>3. /\ length - (r - s) \in 1 .. length
        /\ counter - length + (length - (r - s)) = counter - (r - s)
        /\ counter - (r - s) >= 0
    BY <1>1, <1>2
  <2> QED
    BY <2>2, <2>3
<1>3. CASE s > r
  <2>1. counter - (r - s + length) = length * (q - 1) + s /\ q - 1 \in Int
    BY <1>1
  <2>2. (counter - (r - s + length)) % length = s
    BY <2>1, DivisionIsUnique
  <2>3. /\ s - r \in 1 .. length
        /\ counter - length + (s - r) = counter - (r - s + length)
        /\ counter - (r - s + length) >= 0
    BY <1>1, <1>3
  <2> QED
    BY <2>2, <2>3
<1> QED
  BY <1>1, <1>2, <1>3

LEMMA SweepsAreSweeps == FigureInv => SweepsAreComplete
<1> SUFFICES ASSUME FigureInv, Unwrapped, SweepsOnce(figure.pattern, figure.length),
                    Len(sweep) = figure.length
             PROVE  Visited = 0 .. figure.length - 1
  BY DEF SweepsAreComplete, SweepIsComplete, SweepsOnce
<1> DEFINE length == figure.length
<1>1. /\ length \in Nat \ {0} /\ figure.pattern \in Pattern
      /\ stepCounter \in Nat /\ stepCounter >= length - 1
      /\ sweep \in Seq(0 .. length - 1) /\ figure.pattern # "Random" /\ RandomSeed \in RandomStates
      /\ RandomSeed \in Nat
  BY FigureTypes, FigureAssumption DEF FigureInv, SweepInv, Unwrapped, SweepsOnce
<1>2. DOMAIN sweep = 1 .. length
  BY <1>1
<1>3. Visited \subseteq 0 .. length - 1
  BY <1>1, <1>2 DEF Visited
<1>4. ASSUME NEW position \in 0 .. length - 1 PROVE position \in Visited
  <2>1. PICK s \in 0 .. length - 1 : \A counter \in Nat, random \in Nat :
          counter % length = s
            => PatternPosition(figure.pattern, counter, length, random) = position
    BY <1>1, EveryPositionHasItsStep
  <2>2. PICK i \in 1 .. length : stepCounter - length + i >= 0
                                   /\ (stepCounter - length + i) % length = s
    BY <1>1, CounterOfResidue
  <2>3. stepCounter - length + i \in Nat
    BY <1>1, <2>2
  <2>4. sweep[i] = PatternPosition(figure.pattern, stepCounter - length + i, length, RandomSeed)
    BY <1>1, <2>2 DEF FigureInv, SweepInv
  <2>5. sweep[i] = position
    BY <1>1, <2>1, <2>2, <2>3, <2>4
  <2> QED
    BY <1>2, <2>5 DEF Visited
<1> QED
  BY <1>3, <1>4

LEMMA TurningPatterns ==
    ASSUME FigureInv
    PROVE  GoesToNeighbour
<1> SUFFICES ASSUME figure.pattern \in {"UpDown", "DownUp"}, figure.length > 1,
                    figure' = figure, stepCounter' = stepCounter + 1
             PROVE  Position' - Position \in {-1, 1}
  BY DEF GoesToNeighbour
<1> DEFINE length == figure.length
           here == Turning(stepCounter, length)
           there == Turning(stepCounter + 1, length)
<1>1. length \in Nat /\ length >= 2 /\ stepCounter \in Nat /\ stepCounter + 1 \in Nat
  BY FigureTypes DEF FigureInv
<1>2. here \in 0 .. length - 1 /\ there \in 0 .. length - 1
  BY <1>1, TurningType
<1>3. there - here \in {-1, 1}
  BY <1>1, TurningGoesToNeighbour
<1> HIDE DEF here, there
<1>4. CASE figure.pattern = "UpDown"
  <2>1. Position = here /\ Position' = there
    BY <1>1, <1>4 DEF Position, PatternPosition, here, there
  <2> QED
    BY <1>3, <2>1
<1>5. CASE figure.pattern = "DownUp"
  <2>1. Position = length - 1 - here /\ Position' = length - 1 - there
    BY <1>1, <1>5 DEF Position, PatternPosition, here, there
  <2> QED
    BY <1>1, <1>2, <1>3, <2>1
<1> QED
  BY <1>4, <1>5

\* For every length, and whatever is edited in between, a pattern that goes one way
\* visits each position once in a sweep, and one that turns goes to a neighbour.
THEOREM PatternsAlwaysVisitAll == FigureSpec => PatternsVisitAll
<1>1. FigureInv' => SweepsAreComplete'
  BY SweepsAreSweeps, PTL
<1>2. FigureInv => GoesToNeighbour
  BY TurningPatterns
<1>3. FigureInv /\ FigureInv' => [SweepsAreComplete' /\ GoesToNeighbour]_figureVars
  BY <1>1, <1>2
<1> QED
  BY <1>3, FigureAlwaysInv, PTL DEF PatternsVisitAll

-----------------------------------------------------------------------------
(***************************************************************************)
(* From a degree to a note of the scale                                    *)
(***************************************************************************)

\* The steps up to the n-th that lead to a note of the scale.
ActiveSteps(scale, note, n) == {k \in 1 .. n : IsActive(scale, note + k)}
Passed(scale, note, n) == Cardinality(ActiveSteps(scale, note, n))

LEMMA PassedType ==
    ASSUME NEW scale, NEW note \in Nat, NEW n \in Nat
    PROVE  IsFiniteSet(ActiveSteps(scale, note, n)) /\ Passed(scale, note, n) \in Nat
<1>1. IsFiniteSet(1 .. n)
  BY FS_Interval
<1>2. ActiveSteps(scale, note, n) \subseteq 1 .. n
  BY DEF ActiveSteps
<1>3. IsFiniteSet(ActiveSteps(scale, note, n))
  BY <1>1, <1>2, FS_Subset
<1> QED
  BY <1>3, FS_CardinalityType DEF Passed

LEMMA NothingPassed ==
    ASSUME NEW scale, NEW note \in Nat
    PROVE  Passed(scale, note, 0) = 0
<1>1. ActiveSteps(scale, note, 0) = {}
  BY DEF ActiveSteps
<1> QED
  BY <1>1, FS_EmptySet DEF Passed

LEMMA PassedStep ==
    ASSUME NEW scale, NEW note \in Nat, NEW n \in Nat
    PROVE  Passed(scale, note, n + 1) =
             IF IsActive(scale, note + (n + 1)) THEN Passed(scale, note, n) + 1
             ELSE Passed(scale, note, n)
<1> DEFINE S == ActiveSteps(scale, note, n)
           T == ActiveSteps(scale, note, n + 1)
<1>1. IsFiniteSet(S) /\ n + 1 \notin S
  <2>1. n + 1 \notin S
    BY DEF ActiveSteps
  <2> QED
    BY <2>1, PassedType
<1>2. T = IF IsActive(scale, note + (n + 1)) THEN S \cup {n + 1} ELSE S
  <2>1. 1 .. n + 1 = (1 .. n) \cup {n + 1}
    OBVIOUS
  <2>2. \A x : x \in T <=> (x \in 1 .. n \/ x = n + 1) /\ IsActive(scale, note + x)
    BY <2>1 DEF ActiveSteps
  <2>3. \A x : x \in S <=> x \in 1 .. n /\ IsActive(scale, note + x)
    BY DEF ActiveSteps
  <2> HIDE DEF S, T
  <2>4. CASE IsActive(scale, note + (n + 1))
    <3>1. T = S \cup {n + 1}
      BY <2>2, <2>3, <2>4
    <3> QED
      BY <2>4, <3>1
  <2>5. CASE ~IsActive(scale, note + (n + 1))
    <3>1. T = S
      BY <2>2, <2>3, <2>5
    <3> QED
      BY <2>5, <3>1
  <2> QED
    BY <2>4, <2>5
<1> HIDE DEF S, T
<1>3. Cardinality(S \cup {n + 1}) = Cardinality(S) + 1
  BY <1>1, FS_AddElement
<1> QED
  BY <1>2, <1>3 DEF Passed, S, T

LEMMA BijectionFrom ==
    ASSUME NEW S, NEW T, NEW f \in [S -> T],
           \A k, j \in S : f[k] = f[j] => k = j,
           \A x \in T : \E k \in S : f[k] = x
    PROVE  f \in Bijection(S, T)
<1>1. f \in Injection(S, T)
  BY DEF Injection, IsInjective
<1>2. f \in Surjection(S, T)
  BY DEF Surjection
<1> QED
  BY <1>1, <1>2 DEF Bijection

\* What is passed in two stretches adds up.
LEMMA PassedAdds ==
    ASSUME NEW scale, NEW note \in Nat, NEW a \in Nat, NEW b \in Nat
    PROVE  Passed(scale, note, a + b) = Passed(scale, note, a) + Passed(scale, note + a, b)
<1> DEFINE S == ActiveSteps(scale, note, a)
           T == ActiveSteps(scale, note + a, b)
           Shifted == {a + k : k \in T}
           f == [k \in T |-> a + k]
<1>1. IsFiniteSet(S) /\ IsFiniteSet(T) /\ note + a \in Nat
  <2>1. note + a \in Nat
    OBVIOUS
  <2> QED
    BY <2>1, PassedType
<1>2. T \subseteq Nat
  BY DEF ActiveSteps
<1>3. f \in Bijection(T, Shifted)
  <2>1. f \in [T -> Shifted]
    OBVIOUS
  <2>2. \A k, j \in T : f[k] = f[j] => k = j
    BY <1>2
  <2>3. \A x \in Shifted : \E k \in T : f[k] = x
    OBVIOUS
  <2> HIDE DEF f, T, Shifted
  <2> QED
    BY <2>1, <2>2, <2>3, BijectionFrom
<1>4. IsFiniteSet(Shifted) /\ Cardinality(Shifted) = Cardinality(T)
  <2>1. ExistsBijection(T, Shifted)
    BY <1>3 DEF ExistsBijection
  <2> HIDE DEF T, Shifted
  <2> QED
    BY <1>1, <2>1, FS_Bijection
<1>5. ActiveSteps(scale, note, a + b) = S \cup Shifted
  <2>1. ASSUME NEW x \in ActiveSteps(scale, note, a + b), x \notin S PROVE x \in Shifted
    <3>1. x \in 1 .. a + b /\ IsActive(scale, note + x) /\ x > a
      BY <2>1 DEF ActiveSteps
    <3>2. x - a \in 1 .. b /\ (note + a) + (x - a) = note + x /\ a + (x - a) = x
      BY <3>1
    <3>3. x - a \in T
      BY <3>1, <3>2 DEF ActiveSteps
    <3> QED
      BY <3>2, <3>3
  <2>2. ASSUME NEW k \in T PROVE a + k \in ActiveSteps(scale, note, a + b)
    <3>1. k \in 1 .. b /\ IsActive(scale, (note + a) + k) /\ (note + a) + k = note + (a + k)
      BY DEF ActiveSteps
    <3>2. a + k \in 1 .. a + b
      BY <3>1
    <3> QED
      BY <3>1, <3>2 DEF ActiveSteps
  <2>3. S \subseteq ActiveSteps(scale, note, a + b)
    BY DEF ActiveSteps
  <2> HIDE DEF S, T
  <2> QED
    BY <2>1, <2>2, <2>3
<1>6. S \cap Shifted = {}
  BY DEF ActiveSteps
<1> HIDE DEF S, T, Shifted
<1>7. Cardinality(S \cup Shifted) = Cardinality(S) + Cardinality(Shifted)
  <2>1. /\ IsFiniteSet(S \cup Shifted)
        /\ Cardinality(S \cup Shifted)
             = Cardinality(S) + Cardinality(Shifted) - Cardinality(S \cap Shifted)
    BY <1>1, <1>4, FS_Union
  <2>2. Cardinality(S \cap Shifted) = 0
    BY <1>6, FS_EmptySet
  <2>3. Cardinality(S) \in Nat /\ Cardinality(Shifted) \in Nat
    BY <1>1, <1>4, FS_CardinalityType
  <2> QED
    BY <2>1, <2>2, <2>3
<1> QED
  BY <1>4, <1>5, <1>7 DEF Passed, S, T

LEMMA ScaleIsFinite ==
    ASSUME NEW scale \in SUBSET (0 .. NoteCount - 1)
    PROVE  IsFiniteSet(scale) /\ Cardinality(scale) \in Nat
<1>1. IsFiniteSet(0 .. NoteCount - 1)
  BY FigureAssumption, FS_Interval
<1> QED
  BY <1>1, FS_Subset, FS_CardinalityType

\* An octave passes each note of the scale once, wherever it starts.
LEMMA OctavePassesScale ==
    ASSUME NEW scale \in SUBSET (0 .. NoteCount - 1), NEW note \in Nat
    PROVE  Passed(scale, note, NoteCount) = Cardinality(scale)
<1> DEFINE S == ActiveSteps(scale, note, NoteCount)
           f == [k \in S |-> (note + k) % NoteCount]
           r == note % NoteCount
           q == note \div NoteCount
<1>1. NoteCount \in Nat \ {0}
  BY FigureAssumption
<1>2. S \subseteq 1 .. NoteCount /\ \A k \in S : (note + k) % NoteCount \in scale
  BY DEF ActiveSteps, IsActive
<1>3. q \in Int /\ r \in 0 .. NoteCount - 1 /\ note = NoteCount * q + r
  BY <1>1, Remainder
<1> HIDE DEF q, r, S, f
<1>4. ASSUME NEW k \in 1 .. NoteCount
      PROVE  (note + k) % NoteCount = IF r + k < NoteCount THEN r + k ELSE r + k - NoteCount
  <2>1. CASE r + k < NoteCount
    <3>1. note + k = NoteCount * q + (r + k) /\ r + k \in 0 .. NoteCount - 1
      BY <1>1, <1>3, <2>1
    <3>2. (NoteCount * q + (r + k)) % NoteCount = r + k
      BY <1>1, <1>3, <3>1, DivisionIsUnique
    <3> QED
      BY <2>1, <3>1, <3>2
  <2>2. CASE ~(r + k < NoteCount)
    <3>1. /\ note + k = NoteCount * (q + 1) + (r + k - NoteCount)
          /\ r + k - NoteCount \in 0 .. NoteCount - 1 /\ q + 1 \in Int
      BY <1>1, <1>3, <2>2
    <3>2. (NoteCount * (q + 1) + (r + k - NoteCount)) % NoteCount = r + k - NoteCount
      BY <1>1, <3>1, DivisionIsUnique
    <3> QED
      BY <2>2, <3>1, <3>2
  <2> QED
    BY <2>1, <2>2
<1>5. f \in [S -> scale]
  BY <1>2 DEF f
<1>6. \A k, j \in S : f[k] = f[j] => k = j
  <2> SUFFICES ASSUME NEW k \in S, NEW j \in S, f[k] = f[j] PROVE k = j
    OBVIOUS
  <2>1. (note + k) % NoteCount = (note + j) % NoteCount /\ k \in 1 .. NoteCount /\ j \in 1 .. NoteCount
    BY <1>2 DEF f
  <2>2. (IF r + k < NoteCount THEN r + k ELSE r + k - NoteCount)
          = (IF r + j < NoteCount THEN r + j ELSE r + j - NoteCount)
    BY <1>4, <2>1
  <2> QED
    BY <1>1, <1>3, <2>1, <2>2
<1>7. ASSUME NEW p \in scale PROVE \E k \in S : f[k] = p
  <2> DEFINE k == IF p > r THEN p - r ELSE p - r + NoteCount
  <2>1. p \in 0 .. NoteCount - 1
    OBVIOUS
  <2>2. k \in 1 .. NoteCount /\ (IF r + k < NoteCount THEN r + k ELSE r + k - NoteCount) = p
    BY <1>1, <1>3, <2>1
  <2>3. (note + k) % NoteCount = p
    BY <1>4, <2>2
  <2>4. k \in S
    BY <2>2, <2>3 DEF S, ActiveSteps, IsActive
  <2> QED
    BY <2>3, <2>4 DEF f
<1>8. f \in Bijection(S, scale)
  BY <1>5, <1>6, <1>7, BijectionFrom
<1>9. IsFiniteSet(S)
  BY <1>1, PassedType DEF S
<1>10. ExistsBijection(S, scale)
  BY <1>8 DEF ExistsBijection
<1>11. Cardinality(S) = Cardinality(scale)
  BY <1>9, <1>10, FS_Bijection
<1> QED
  BY <1>11 DEF Passed, S

LEMMA OctavesPassScale ==
    ASSUME NEW scale \in SUBSET (0 .. NoteCount - 1), NEW note \in Nat, NEW octaves \in 1 .. 4
    PROVE  Passed(scale, note, NoteCount * octaves) = Cardinality(scale) * octaves
<1> DEFINE N == NoteCount
           C == Cardinality(scale)
<1>1. N \in Nat /\ C \in Nat
  BY FigureAssumption, ScaleIsFinite
<1>2. ASSUME NEW n \in Nat, NEW c \in Nat, Passed(scale, note, n) = c
      PROVE  Passed(scale, note, n + N) = c + C
  <2>1. note + n \in Nat
    OBVIOUS
  <2>2. Passed(scale, note + n, N) = C
    BY <2>1, OctavePassesScale
  <2>3. Passed(scale, note, n + N) = Passed(scale, note, n) + Passed(scale, note + n, N)
    BY <1>1, PassedAdds
  <2> QED
    BY <1>2, <2>2, <2>3
<1>3. Passed(scale, note, N) = C
  BY OctavePassesScale
<1> HIDE DEF N, C
<1>4. Passed(scale, note, N + N) = C + C
  BY <1>1, <1>2, <1>3
<1>5. N + N \in Nat /\ C + C \in Nat /\ (N + N) + N \in Nat /\ (C + C) + C \in Nat
  BY <1>1
<1>6. Passed(scale, note, (N + N) + N) = (C + C) + C
  BY <1>2, <1>4, <1>5
<1>7. Passed(scale, note, ((N + N) + N) + N) = ((C + C) + C) + C
  BY <1>2, <1>5, <1>6
<1>8. /\ N * 1 = N /\ N * 2 = N + N /\ N * 3 = (N + N) + N /\ N * 4 = ((N + N) + N) + N
      /\ C * 1 = C /\ C * 2 = C + C /\ C * 3 = (C + C) + C /\ C * 4 = ((C + C) + C) + C
  BY <1>1
<1>9. octaves \in {1, 2, 3, 4}
  OBVIOUS
<1> QED
  BY <1>3, <1>4, <1>6, <1>7, <1>8, <1>9 DEF N, C

LEMMA PassedGrows ==
    ASSUME NEW scale, NEW note \in Nat, NEW a \in Nat, NEW b \in Nat, a <= b
    PROVE  Passed(scale, note, a) <= Passed(scale, note, b)
<1>1. PICK rest \in Nat : b = a + rest
  <2>1. b - a \in Nat /\ b = a + (b - a)
    OBVIOUS
  <2> QED
    BY <2>1
<1>2. Passed(scale, note, b) = Passed(scale, note, a) + Passed(scale, note + a, rest)
  <2>1. Passed(scale, note, a + rest) = Passed(scale, note, a) + Passed(scale, note + a, rest)
    BY PassedAdds
  <2> QED
    BY <1>1, <2>1
<1>3. Passed(scale, note, a) \in Nat /\ Passed(scale, note + a, rest) \in Nat
  <2>1. note + a \in Nat
    OBVIOUS
  <2> QED
    BY <2>1, PassedType
<1> QED
  BY <1>2, <1>3

\* The notes at which the search for a degree may end.
Found(scale, note, degree) ==
    {n \in 1 .. MaxSemitone : IsActive(scale, note + n) /\ Passed(scale, note, n) = degree}

LEMMA OffsetIsFound ==
    ASSUME NEW scale, NEW note, NEW degree
    PROVE  SemitoneOffset(scale, note, degree) =
             IF Found(scale, note, degree) = {} THEN 0
             ELSE CHOOSE n \in Found(scale, note, degree) : TRUE
  BY DEF SemitoneOffset, Found, Passed, ActiveSteps

\* From a note of the scale every degree below the range is found, within it.
LEMMA DegreeIsFound ==
    ASSUME NEW scale \in SUBSET (0 .. NoteCount - 1), NEW note \in Nat, IsActive(scale, note),
           NEW range \in 1 .. 4, NEW degree \in 1 .. Cardinality(scale) * range - 1
    PROVE  /\ Found(scale, note, degree) # {}
           /\ \A n \in Found(scale, note, degree) : n < NoteCount * range
<1> DEFINE top == NoteCount * range
           P(n) == Passed(scale, note, n)
           S == {n \in 0 .. top : P(n) >= degree}
<1>1. top \in Nat \ {0} /\ top <= MaxSemitone /\ NoteCount \in Nat \ {0} /\ MaxSemitone \in Nat
  <2>1. NoteCount \in Nat \ {0} /\ 4 * NoteCount <= MaxSemitone /\ MaxSemitone \in Nat
    BY FigureAssumption
  <2>2. range \in {1, 2, 3, 4}
    OBVIOUS
  <2> QED
    BY <2>1, <2>2
<1>2. P(top) = Cardinality(scale) * range /\ Cardinality(scale) \in Nat
  BY OctavesPassScale, ScaleIsFinite
<1>3. degree \in Nat /\ degree >= 1 /\ P(top) > degree
  BY <1>2
<1> HIDE DEF top
<1>4. S \in SUBSET Nat /\ S # {}
  <2>1. top \in S
    BY <1>1, <1>2, <1>3
  <2> QED
    BY <1>1, <2>1
<1>5. PICK m \in S : \A n \in S : m <= n
  BY <1>4, LeastNatural
<1>6. m \in 0 .. top /\ P(m) >= degree /\ P(0) = 0 /\ m # 0 /\ m \in Nat
  BY <1>1, <1>3, <1>5, NothingPassed
<1>7. m - 1 \in Nat /\ m - 1 \in 0 .. top /\ m - 1 \notin S /\ (m - 1) + 1 = m
  BY <1>1, <1>5, <1>6
<1>8. P(m - 1) \in Nat /\ P(m - 1) < degree
  BY <1>3, <1>7, PassedType
<1>9. P((m - 1) + 1) = IF IsActive(scale, note + ((m - 1) + 1)) THEN P(m - 1) + 1 ELSE P(m - 1)
  BY <1>7, PassedStep
<1>10. IsActive(scale, note + m) /\ P(m) = degree
  BY <1>3, <1>6, <1>7, <1>8, <1>9
<1>11. m \in Found(scale, note, degree)
  BY <1>1, <1>6, <1>10 DEF Found
<1>12. ASSUME NEW n \in Found(scale, note, degree) PROVE n < top
  <2>1. n \in Nat /\ P(n) = degree
    BY DEF Found
  <2>2. SUFFICES ASSUME top <= n PROVE FALSE
    BY <1>1, <2>1
  <2>3. P(top) <= P(n)
    BY <1>1, <2>1, <2>2, PassedGrows
  <2> QED
    BY <1>2, <1>3, <2>1, <2>3
<1> QED
  BY <1>11, <1>12 DEF top

LEMMA RootIsNotFound ==
    ASSUME NEW scale, NEW note \in Nat
    PROVE  Found(scale, note, 0) = {}
<1> SUFFICES ASSUME NEW n \in Found(scale, note, 0) PROVE FALSE
  OBVIOUS
<1>1. n \in Nat /\ n >= 1 /\ IsActive(scale, note + n) /\ Passed(scale, note, n) = 0
  BY FigureAssumption DEF Found
<1>2. n - 1 \in Nat /\ (n - 1) + 1 = n
  BY <1>1
<1>3. Passed(scale, note, (n - 1) + 1) = Passed(scale, note, n - 1) + 1
  BY <1>1, <1>2, PassedStep
<1>4. Passed(scale, note, n - 1) \in Nat
  BY <1>2, PassedType
<1> QED
  BY <1>1, <1>2, <1>3, <1>4

LEMMA ShapeValues ==
    ASSUME NEW shape \in DOMAIN ShapeTable
    PROVE  Len(ShapeTable[shape]) \in {3, 4}
           /\ \A i \in 1 .. Len(ShapeTable[shape]) : ShapeTable[shape][i] \in Nat
<1>1. \A s \in {<<0, 2, 4>>, <<0, 1, 4>>, <<0, 3, 4>>, <<0, 2, 5>>, <<0, 4, 7>>} :
        Len(s) = 3 /\ \A i \in 1 .. Len(s) : s[i] \in Nat
  OBVIOUS
<1>2. \A s \in {<<0, 1, 2, 3>>, <<0, 2, 4, 6>>} :
        Len(s) = 4 /\ \A i \in 1 .. Len(s) : s[i] \in Nat
  OBVIOUS
<1>3. \/ ShapeTable[shape] \in {<<0, 2, 4>>, <<0, 1, 4>>, <<0, 3, 4>>, <<0, 2, 5>>, <<0, 4, 7>>}
      \/ ShapeTable[shape] \in {<<0, 1, 2, 3>>, <<0, 2, 4, 6>>}
  BY DEF ShapeTable
<1> QED
  BY <1>1, <1>2, <1>3

LEMMA LimitedType ==
    ASSUME NEW degree \in Nat, NEW degrees \in Nat \ {0}
    PROVE  Limited(degree, degrees) \in 0 .. degrees - 1
  BY DEF Limited

LEMMA DegreeType ==
    ASSUME NEW shape \in Shape, NEW position \in Nat, NEW active \in Nat \ {0},
           NEW range \in 1 .. 4
    PROVE  ShapeDegree(shape, position, active, range) \in 0 .. active * range - 1
<1>1. active * range \in Nat \ {0} /\ active # 0
  <2>1. range \in {1, 2, 3, 4}
    OBVIOUS
  <2> QED
    BY <2>1
<1>2. CASE shape = "StackedThirds"
  <2>1. 2 * position \in Nat
    OBVIOUS
  <2> QED
    BY <1>1, <1>2, <2>1, LimitedType DEF ShapeDegree
<1>3. CASE shape # "StackedThirds"
  <2> DEFINE values == ShapeTable[shape]
             len == Len(values)
             octave == (position \div len) % range
             index == (position % len) + 1
             degree == values[index] + octave * active
  <2>1. len \in {3, 4} /\ \A i \in 1 .. len : values[i] \in Nat
    BY <1>3, ShapeValues DEF Shape
  <2> HIDE DEF values, len
  <2>2. len \in Nat \ {0} /\ range \in Nat \ {0}
    BY <2>1
  <2>3. position % len \in 0 .. len - 1 /\ position \div len \in Int
    BY <2>2, Remainder
  <2>4. octave \in 0 .. range - 1
    BY <2>2, <2>3, Remainder
  <2>5. index \in 1 .. len
    BY <2>2, <2>3
  <2> HIDE DEF octave, index
  <2>6. octave * active \in Nat
    BY <2>2, <2>4
  <2>7. degree \in Nat
    BY <2>1, <2>5, <2>6
  <2>8. ShapeDegree(shape, position, active, range) = Limited(degree, active * range)
    BY <1>1, <1>3 DEF ShapeDegree, values, len, octave, index
  <2> HIDE DEF degree
  <2> QED
    BY <1>1, <2>7, <2>8, LimitedType
<1> QED
  BY <1>2, <1>3

LEMMA FiguresPlayTheScale == FigureInv => NotesOfTheScale
<1> SUFFICES ASSUME FigureInv, root % NoteCount \in notes
             PROVE  /\ IsActive(notes, Played) \/ Played = MaxSemitone
                    /\ Offset < NoteCount * figure.range
                    /\ Degree # 0 => Offset # 0
  BY DEF NotesOfTheScale
<1> DEFINE active == Cardinality(notes)
           range == figure.range
<1>1. /\ notes \in SUBSET (0 .. NoteCount - 1) /\ root \in 0 .. MaxSemitone /\ root \in Nat
      /\ range \in 1 .. 4 /\ figure.shape \in Shape
      /\ NoteCount \in Nat \ {0} /\ MaxSemitone \in Nat /\ IsActive(notes, root)
  BY FigureTypes, FigureAssumption DEF FigureInv, IsActive
<1>2. active \in Nat \ {0}
  <2>1. IsFiniteSet(notes) /\ active \in Nat
    BY <1>1, ScaleIsFinite
  <2>2. notes # {}
    OBVIOUS
  <2> QED
    BY <2>1, <2>2, FS_EmptySet
<1>3. Position \in Nat
  <2>1. Position \in 0 .. figure.length - 1
    BY DEF FigureInv, FigureTypeOK
  <2> QED
    BY <2>1
<1>4. Degree \in 0 .. active * range - 1
  BY <1>1, <1>2, <1>3, DegreeType DEF Degree
<1>5. NoteCount * range > 0
  <2>1. range \in {1, 2, 3, 4}
    BY <1>1
  <2> QED
    BY <1>1, <2>1
<1> HIDE DEF active, range
<1>6. CASE Degree = 0
  <2>1. Offset = 0
    BY <1>1, <1>6, OffsetIsFound, RootIsNotFound DEF Offset
  <2>2. Played = root
    BY <1>1, <2>1 DEF Played
  <2> QED
    BY <1>1, <1>5, <1>6, <2>1, <2>2 DEF range
<1>7. CASE Degree # 0
  <2>1. Degree \in 1 .. active * range - 1
    BY <1>4, <1>7
  <2>2. /\ Found(notes, root, Degree) # {}
        /\ \A n \in Found(notes, root, Degree) : n < NoteCount * range
    BY <1>1, <2>1, DegreeIsFound DEF active
  <2>3. Offset \in Found(notes, root, Degree)
    BY <2>2, OffsetIsFound DEF Offset
  <2>4. Offset \in 1 .. MaxSemitone /\ IsActive(notes, root + Offset) /\ Offset < NoteCount * range
    BY <2>2, <2>3 DEF Found
  <2>5. Offset # 0
    BY <1>1, <2>4
  <2>6. IsActive(notes, Played) \/ Played = MaxSemitone
    BY <2>4 DEF Played
  <2> QED
    BY <2>4, <2>5, <2>6 DEF range
<1> QED
  BY <1>6, <1>7

\* Whatever pattern, shape, range, scale and root meet, the arpeggio plays notes of the
\* scale within its octaves, and no search for a degree ends without it.
THEOREM FiguresAlwaysPlayTheScale == FigureSpec => []NotesOfTheScale
  BY FiguresPlayTheScale, FigureAlwaysInv, PTL

-----------------------------------------------------------------------------
(***************************************************************************)
(* The parts of a swung pair, and the ideal time of a multiplied step      *)
(***************************************************************************)

Percents == 50 .. 66

LEMMA LongPercentType ==
    ASSUME NEW swing \in 0 .. 11
    PROVE  LongPercent(swing) \in Percents
  BY DEF LongPercent, Percents

LEMMA PercentOf ==
    ASSUME NEW base \in Nat, NEW percent \in Percents
    PROVE  /\ 2 * base * percent \in Nat
           /\ (2 * base * percent) \div 100 \in base .. 2 * base
           /\ 100 * ((2 * base * percent) \div 100) <= 132 * base
<1> DEFINE low == percent - 50
           high == 66 - percent
           product == 2 * base * percent
           pair == 2 * base
<1>1. low \in Nat /\ high \in Nat /\ percent \in Nat /\ pair \in Nat
  BY DEF Percents
<1>2. percent = 50 + low /\ percent = 66 - high
  BY DEF Percents
<1> HIDE DEF low, high
<1>3. pair * low \in Nat /\ pair * high \in Nat
  BY <1>1
<1>4. product = pair * 50 + pair * low
  BY <1>1, <1>2
<1>5. product = pair * 66 - pair * high
  BY <1>1, <1>2
<1>6. product \in Nat /\ product >= 100 * base /\ product <= 132 * base
  BY <1>3, <1>4, <1>5
<1> HIDE DEF product
<1>7. product \div 100 \in base .. 2 * base /\ 100 * (product \div 100) <= 132 * base
  BY <1>6
<1> QED
  BY <1>6, <1>7 DEF product

LongPart(base, swing) == (2 * base * LongPercent(swing)) \div 100

LEMMA LongPartOf ==
    ASSUME NEW base \in Nat, NEW swing \in 0 .. 11
    PROVE  /\ LongPart(base, swing) \in base .. 2 * base
           /\ 100 * LongPart(base, swing) <= 132 * base
  BY LongPercentType, PercentOf DEF LongPart

\* The parts of a pair: the one of an even counter is the shorter one, by at most a third
\* of the pair.
LEMMA SubstepParts ==
    ASSUME NEW base \in Nat, NEW swing \in 0 .. 11, NEW counter \in Nat
    PROVE  /\ SubstepPart(base, swing, counter) \in Nat
           /\ SubstepPart(base, swing, counter) >= SubstepPart(base, swing, 0)
           /\ 100 * SubstepPart(base, swing, counter) >= 68 * base
           /\ SubstepPart(base, swing, counter) + SubstepPart(base, swing, counter + 1) = 2 * base
<1> DEFINE long == LongPart(base, swing)
<1>1. long \in base .. 2 * base /\ 100 * long <= 132 * base
  BY LongPartOf
<1>2. \A n \in Nat : SubstepPart(base, swing, n) =
        IF swing = 0 THEN base ELSE IF n % 2 = 0 THEN 2 * base - long ELSE long
  BY DEF SubstepPart, Swung, LongPart
<1> HIDE DEF long
<1>3. 0 % 2 = 0 /\ 0 \in Nat /\ counter + 1 \in Nat /\ (counter % 2 = 0 <=> (counter + 1) % 2 # 0)
  OBVIOUS
<1> QED
  BY <1>1, <1>2, <1>3

\* Only the parity of the counter matters.
LEMMA SubstepPartOf ==
    ASSUME NEW base, NEW swing, NEW m \in Nat, NEW n \in Nat, m % 2 = n % 2
    PROVE  SubstepPart(base, swing, m) = SubstepPart(base, swing, n)
  BY DEF SubstepPart, Swung

\* The time of a step since the edge, when the first step of the edge has this parity.
IdealAt(base, swing, first, count) ==
    2 * base * (count \div 2)
      + (IF count % 2 = 0 THEN 0 ELSE SubstepPart(base, swing, first))

LEMMA IdealNext ==
    ASSUME NEW base \in Nat, NEW swing \in 0 .. 11, NEW first \in Nat, NEW count \in Nat
    PROVE  IdealAt(base, swing, first, count + 1)
             = IdealAt(base, swing, first, count) + SubstepPart(base, swing, first + count)
<1> DEFINE half == count \div 2
           pair == 2 * base
           part(n) == SubstepPart(base, swing, n)
<1>1. half \in Nat /\ pair \in Nat /\ part(first) \in Nat /\ part(first + 1) \in Nat
      /\ part(first) + part(first + 1) = pair
  <2>1. first + 1 \in Nat
    OBVIOUS
  <2>2. part(first) \in Nat /\ part(first + 1) \in Nat /\ part(first) + part(first + 1) = pair
    BY <2>1, SubstepParts
  <2> QED
    BY <2>2
<1>2. CASE count % 2 = 0
  <2>1. (count + 1) \div 2 = half /\ (count + 1) % 2 # 0 /\ (first + count) % 2 = first % 2
        /\ first + count \in Nat
    BY <1>2
  <2>2. part(first + count) = part(first)
    BY <2>1, SubstepPartOf
  <2>3. IdealAt(base, swing, first, count + 1) = pair * half + part(first)
    BY <2>1 DEF IdealAt
  <2>4. IdealAt(base, swing, first, count) = pair * half + 0
    BY <1>2 DEF IdealAt
  <2> HIDE DEF half, pair, part
  <2>5. pair * half \in Nat
    BY <1>1
  <2> QED
    BY <1>1, <2>2, <2>3, <2>4, <2>5 DEF part
<1>3. CASE count % 2 # 0
  <2>1. (count + 1) \div 2 = half + 1 /\ (count + 1) % 2 = 0
        /\ (first + count) % 2 = (first + 1) % 2
        /\ first + count \in Nat /\ first + 1 \in Nat
    BY <1>3
  <2>2. part(first + count) = part(first + 1)
    BY <2>1, SubstepPartOf
  <2>3. IdealAt(base, swing, first, count + 1) = pair * (half + 1) + 0
    BY <2>1 DEF IdealAt
  <2>4. IdealAt(base, swing, first, count) = pair * half + part(first)
    BY <1>3 DEF IdealAt
  <2> HIDE DEF half, pair, part
  <2>5. pair * half \in Nat /\ pair * (half + 1) = pair * half + pair
    BY <1>1
  <2> QED
    BY <1>1, <2>2, <2>3, <2>4, <2>5 DEF part
<1> QED
  BY <1>2, <1>3

LEMMA IdealType ==
    ASSUME NEW base \in Nat, NEW swing \in 0 .. 11, NEW first \in Nat, NEW count \in Nat
    PROVE  IdealAt(base, swing, first, count) \in Nat
<1> DEFINE half == count \div 2
<1>1. SubstepPart(base, swing, first) \in Nat /\ half \in Nat
  <2>1. SubstepPart(base, swing, first) \in Nat
    BY SubstepParts
  <2> QED
    BY <2>1
<1> HIDE DEF half
<1>2. 2 * base * half \in Nat
  BY <1>1
<1> QED
  BY <1>1, <1>2 DEF IdealAt, half

\* The last step before an edge leaves a part of a pair, or a whole step, to the edge.
LEMMA IdealBeforeEdge ==
    ASSUME NEW base \in Nat, NEW swing \in 0 .. 11, NEW first \in Nat,
           NEW multiplier \in Nat \ {0}, NEW count \in 0 .. multiplier - 1
    PROVE  100 * IdealAt(base, swing, first, count) + 68 * base <= 100 * (multiplier * base)
<1> DEFINE half == count \div 2
           part == SubstepPart(base, swing, first)
           rest == multiplier - count
<1>1. half \in Nat /\ part \in Nat /\ count \in Nat /\ rest \in Nat \ {0} /\ 100 * part <= 132 * base
  <2>1. first + 1 \in Nat
    OBVIOUS
  <2>2. part \in Nat /\ part + SubstepPart(base, swing, first + 1) = 2 * base
    BY SubstepParts
  <2>3. 100 * SubstepPart(base, swing, first + 1) >= 68 * base
        /\ SubstepPart(base, swing, first + 1) \in Nat
    BY <2>1, SubstepParts
  <2> HIDE DEF part
  <2>4. 100 * part <= 132 * base
    BY <2>2, <2>3
  <2>5. count \in Nat
    OBVIOUS
  <2>6. half \in Nat
    BY <2>5
  <2>7. rest \in Nat \ {0}
    OBVIOUS
  <2> QED
    BY <2>2, <2>4, <2>5, <2>6, <2>7
<1>2. PICK more \in Nat : multiplier = count + 1 + more
  <2>1. rest - 1 \in Nat /\ multiplier = count + 1 + (rest - 1)
    BY <1>1
  <2> QED
    BY <2>1
<1>3. multiplier * base = count * base + base + more * base /\ more * base \in Nat
  BY <1>1, <1>2
<1>4. CASE count % 2 = 0
  <2>1. count = 2 * half
    BY <1>4
  <2> HIDE DEF half, part
  <2>2. count * base = 2 * base * half /\ 2 * base * half \in Nat
    BY <1>1, <2>1
  <2>3. IdealAt(base, swing, first, count) = 2 * base * half
    BY <1>4, <2>2 DEF IdealAt, half
  <2> QED
    BY <1>3, <2>2, <2>3
<1>5. CASE count % 2 # 0
  <2>1. count = 2 * half + 1
    BY <1>5
  <2> HIDE DEF half, part
  <2>2. count * base = 2 * base * half + base /\ 2 * base * half \in Nat
    BY <1>1, <2>1
  <2>3. IdealAt(base, swing, first, count) = 2 * base * half + part
    BY <1>5, <2>2 DEF IdealAt, half, part
  <2> QED
    BY <1>1, <1>3, <2>2, <2>3
<1> QED
  BY <1>4, <1>5

-----------------------------------------------------------------------------
(***************************************************************************)
(* The types of the timing                                                 *)
(***************************************************************************)

LEMMA ConfigTypes ==
    ASSUME NEW c \in Configs
    PROVE  /\ c \in ArpeggiatorConfig /\ c.swing \in 0 .. 11 /\ c.rateIndex \in Rate
           /\ c.enabled \in BOOLEAN /\ c.syncMode \in SyncMode
           /\ ClockDivider[c.rateIndex] \in Nat \ {0}
           /\ ClockMultiplier[c.rateIndex] \in Nat \ {0}
           /\ FreeRate[c.rateIndex] \in Nat \ {0}
<1>1. c \in ArpeggiatorConfig
  BY TimingAssumption
<1>2. c.swing \in 0 .. 11 /\ c.rateIndex \in Rate /\ c.enabled \in BOOLEAN /\ c.syncMode \in SyncMode
  BY <1>1 DEF ArpeggiatorConfig
<1> QED
  BY <1>1, <1>2, TimingAssumption

LEMMA Bounds ==
    /\ CounterModulus \in Nat \ {0} /\ WordModulus \in Nat \ {0} /\ MaxTick \in Nat \ {0}
    /\ MaxInterval \in Nat \ {0} /\ MaxEdges \in Nat \ {0}
    /\ CounterModulus % 2 = 0 /\ MaxTick <= MaxInterval
  BY TimingAssumption

LEMMA PhaseTypes ==
    ASSUME NEW p \in Phase
    PROVE  /\ p.stepCounter \in 0 .. CounterModulus - 1 /\ p.stepCounter \in Nat
           /\ p.sinceStep \in Nat /\ p.sinceEdge \in Nat /\ p.sinceClockStep \in Nat
           /\ p.clockPeriod \in Nat /\ p.dividerEdgeCount \in Nat /\ p.generatedSubsteps \in Nat
           /\ p.clockSeen \in BOOLEAN
<1>1. /\ p.stepCounter \in 0 .. CounterModulus - 1
      /\ p.sinceStep \in Nat /\ p.sinceEdge \in Nat /\ p.sinceClockStep \in Nat
      /\ p.clockPeriod \in Nat /\ p.dividerEdgeCount \in Nat /\ p.generatedSubsteps \in Nat
      /\ p.clockSeen \in BOOLEAN
  BY DEF Phase
<1>2. p.stepCounter \in Nat
  BY <1>1, Bounds
<1> QED
  BY <1>1, <1>2

LEMMA ResetPhaseFields ==
    /\ ResetPhase \in Phase /\ ResetPhase.clockSeen = FALSE /\ ResetPhase.sinceStep = 0
    /\ ResetPhase.clockPeriod = 0 /\ ResetPhase.sinceEdge = 0 /\ ResetPhase.sinceClockStep = 0
<1>1. 0 \in 0 .. CounterModulus - 1
  BY Bounds
<1> QED
  BY <1>1 DEF ResetPhase, Phase

LEMMA AdvancedType ==
    ASSUME NEW counter \in Nat, NEW steps \in Int
    PROVE  AdvancedBy(counter, steps) \in 0 .. CounterModulus - 1
<1>1. counter + steps \in Int
  OBVIOUS
<1> QED
  BY <1>1, Bounds, Remainder DEF AdvancedBy

\* The modulus is even: the wrap of the counter keeps short and long apart.
LEMMA AdvancedParity ==
    ASSUME NEW counter \in 0 .. CounterModulus - 1
    PROVE  AdvancedBy(counter, 1) \in Nat /\ AdvancedBy(counter, 1) % 2 = (counter + 1) % 2
<1>1. counter \in Int /\ counter \in Nat /\ CounterModulus \in Nat \ {0} /\ CounterModulus % 2 = 0
  BY Bounds
<1>2. counter % CounterModulus = counter
  BY <1>1, RemainderOf
<1>3. (counter + 1) % CounterModulus
        = IF counter % CounterModulus = CounterModulus - 1 THEN 0
          ELSE (counter % CounterModulus) + 1
  BY <1>1, NextRemainder
<1>4. AdvancedBy(counter, 1) = IF counter = CounterModulus - 1 THEN 0 ELSE counter + 1
  BY <1>2, <1>3 DEF AdvancedBy
<1> QED
  BY <1>1, <1>4

LEMMA SubstepBaseType ==
    ASSUME NEW p \in Phase, NEW c \in Configs
    PROVE  /\ SubstepBase(p, c) \in Nat \ {0}
           /\ ClockMultiplier[c.rateIndex] * SubstepBase(p, c)
                <= p.clockPeriod \/ SubstepBase(p, c) = 1
<1> DEFINE multiplier == ClockMultiplier[c.rateIndex]
           base == p.clockPeriod \div multiplier
<1>1. multiplier \in Nat \ {0} /\ p.clockPeriod \in Nat
  BY ConfigTypes, PhaseTypes
<1>2. SubstepBase(p, c) = IF base = 0 THEN 1 ELSE base
  BY DEF SubstepBase
<1> HIDE DEF multiplier
<1>3. base \in 0 .. p.clockPeriod
  BY <1>1, QuotientBounds
<1>4. p.clockPeriod = multiplier * base + (p.clockPeriod % multiplier)
      /\ p.clockPeriod % multiplier \in 0 .. multiplier - 1
  <2>1. p.clockPeriod \in Int
    BY <1>1
  <2> QED
    BY <1>1, <2>1, Remainder
<1> HIDE DEF base
<1>5. base \in Nat /\ multiplier * base \in Nat
  BY <1>1, <1>3
<1>6. multiplier * base <= p.clockPeriod
  BY <1>1, <1>4, <1>5
<1> QED
  BY <1>2, <1>5, <1>6 DEF multiplier

-----------------------------------------------------------------------------
(***************************************************************************)
(* Multiplied steps are on time                                            *)
(***************************************************************************)

\* The steps generated since the edge have been taken at their ideal times, and the
\* next one has not been missed by the last tick.
OnTime(p, c, sinceLook) ==
    /\ p.generatedSubsteps <= ClockMultiplier[c.rateIndex] - 1
    /\ p.sinceEdge - p.sinceClockStep
         = IdealAt(SubstepBase(p, c), c.swing, (p.stepCounter + p.generatedSubsteps) % 2,
                   p.generatedSubsteps)
    /\ (/\ p.clockPeriod # 0
        /\ p.generatedSubsteps < ClockMultiplier[c.rateIndex] - 1
        /\ SubstepPart(SubstepBase(p, c), c.swing, 0) >= MaxTick)
         => p.sinceClockStep - sinceLook <= SubstepDuration(p, c)

LEMMA DurationType ==
    ASSUME NEW p \in Phase, NEW c \in Configs
    PROVE  /\ SubstepDuration(p, c) \in Nat
           /\ SubstepPart(SubstepBase(p, c), c.swing, 0) \in Nat
           /\ SubstepDuration(p, c) >= SubstepPart(SubstepBase(p, c), c.swing, 0)
<1>1. SubstepBase(p, c) \in Nat /\ c.swing \in 0 .. 11 /\ p.stepCounter \in Nat /\ 0 \in Nat
  BY SubstepBaseType, ConfigTypes, PhaseTypes
<1> QED
  BY <1>1, SubstepParts DEF SubstepDuration

LEMMA OnTimeAtEdge ==
    ASSUME NEW p \in Phase, NEW c \in Configs, p.generatedSubsteps = 0,
           p.sinceClockStep = p.sinceEdge, p.sinceEdge <= MaxTick
    PROVE  OnTime(p, c, 0)
<1>1. ClockMultiplier[c.rateIndex] \in Nat \ {0} /\ p.sinceEdge \in Nat /\ MaxTick \in Nat
  BY ConfigTypes, PhaseTypes, Bounds
<1>2. SubstepBase(p, c) \in Nat /\ 0 \div 2 = 0 /\ 0 % 2 = 0
  BY SubstepBaseType
<1>3. IdealAt(SubstepBase(p, c), c.swing, (p.stepCounter + p.generatedSubsteps) % 2, 0) = 0
  BY <1>2 DEF IdealAt
<1>4. SubstepPart(SubstepBase(p, c), c.swing, 0) >= MaxTick
        => p.sinceClockStep - 0 <= SubstepDuration(p, c)
  BY <1>1, DurationType
<1>5. p.generatedSubsteps <= ClockMultiplier[c.rateIndex] - 1
  BY <1>1
<1>6. p.sinceEdge - p.sinceClockStep = 0
  BY <1>1
<1> QED
  BY <1>3, <1>4, <1>5, <1>6 DEF OnTime

LEMMA OnTimePasses ==
    ASSUME NEW p \in Phase, NEW c \in Configs, NEW look \in Nat, OnTime(p, c, look),
           NEW q \in Phase, q.sinceEdge = p.sinceEdge + 1,
           q.sinceClockStep = p.sinceClockStep + 1,
           q.clockPeriod = p.clockPeriod, q.stepCounter = p.stepCounter,
           q.generatedSubsteps = p.generatedSubsteps
    PROVE  OnTime(q, c, look + 1)
<1>1. SubstepBase(q, c) = SubstepBase(p, c) /\ SubstepDuration(q, c) = SubstepDuration(p, c)
  BY DEF SubstepBase, SubstepDuration
<1>2. p.sinceEdge \in Nat /\ p.sinceClockStep \in Nat
  BY PhaseTypes
<1>3. /\ q.sinceEdge - q.sinceClockStep = p.sinceEdge - p.sinceClockStep
      /\ q.sinceClockStep - (look + 1) = p.sinceClockStep - look
  BY <1>2
<1> QED
  BY <1>1, <1>3 DEF OnTime

LEMMA OnTimeWaits ==
    ASSUME NEW p \in Phase, NEW c \in Configs, NEW look \in Nat, OnTime(p, c, look),
           p.clockSeen, ~SubstepIsDue(p, c)
    PROVE  OnTime(p, c, 0)
<1>1. p.sinceClockStep \in Nat /\ SubstepDuration(p, c) \in Nat
  BY PhaseTypes, DurationType
<1>2. (p.clockPeriod # 0 /\ p.generatedSubsteps < ClockMultiplier[c.rateIndex] - 1)
        => p.sinceClockStep - 0 <= SubstepDuration(p, c)
  BY <1>1 DEF SubstepIsDue
<1> QED
  BY <1>2 DEF OnTime

LEMMA IdealOfNext ==
    ASSUME NEW p \in Phase, NEW c \in Configs
    PROVE  LET first == (p.stepCounter + p.generatedSubsteps) % 2
               base == SubstepBase(p, c)
           IN  IdealAt(base, c.swing, first, p.generatedSubsteps + 1)
                 = IdealAt(base, c.swing, first, p.generatedSubsteps) + SubstepDuration(p, c)
<1> DEFINE first == (p.stepCounter + p.generatedSubsteps) % 2
           base == SubstepBase(p, c)
           k == p.generatedSubsteps
           s == p.stepCounter
<1>1. base \in Nat /\ c.swing \in 0 .. 11 /\ k \in Nat /\ s \in Nat
  BY SubstepBaseType, ConfigTypes, PhaseTypes
<1> HIDE DEF base, k, s
<1>2. first \in Nat /\ first + k \in Nat /\ (first + k) % 2 = s % 2
  <2>1. first = (s + k) % 2
    BY DEF s, k
  <2> HIDE DEF first
  <2> QED
    BY <1>1, <2>1
<1> HIDE DEF first
<1>3. IdealAt(base, c.swing, first, k + 1)
        = IdealAt(base, c.swing, first, k) + SubstepPart(base, c.swing, first + k)
  BY <1>1, <1>2, IdealNext
<1>4. SubstepPart(base, c.swing, first + k) = SubstepPart(base, c.swing, s)
  BY <1>1, <1>2, SubstepPartOf
<1>5. SubstepDuration(p, c) = SubstepPart(base, c.swing, s)
  BY DEF SubstepDuration, base, s
<1> QED
  BY <1>3, <1>4, <1>5 DEF base, first, k, s

LEMMA OnTimeSubstep ==
    ASSUME NEW p \in Phase, NEW c \in Configs, NEW look \in 0 .. MaxTick, OnTime(p, c, look),
           SubstepIsDue(p, c), NEW q \in Phase,
           q.sinceEdge = p.sinceEdge, q.clockPeriod = p.clockPeriod,
           q.stepCounter = AdvancedBy(p.stepCounter, 1),
           q.generatedSubsteps = p.generatedSubsteps + 1,
           q.sinceClockStep = p.sinceClockStep - SubstepDuration(p, c)
    PROVE  OnTime(q, c, 0)
<1> DEFINE k == p.generatedSubsteps
           s == p.stepCounter
           short == SubstepPart(SubstepBase(p, c), c.swing, 0)
<1>1. /\ k \in Nat /\ s \in 0 .. CounterModulus - 1 /\ s \in Nat /\ look \in Nat /\ look <= MaxTick
      /\ MaxTick \in Nat /\ p.sinceEdge \in Nat /\ p.sinceClockStep \in Nat
      /\ ClockMultiplier[c.rateIndex] \in Nat /\ k < ClockMultiplier[c.rateIndex] - 1
  BY PhaseTypes, ConfigTypes, Bounds DEF SubstepIsDue
<1>2. SubstepBase(q, c) = SubstepBase(p, c)
  BY DEF SubstepBase
<1>3. (q.stepCounter + q.generatedSubsteps) % 2 = (s + k) % 2
  <2>1. q.stepCounter \in Nat /\ q.stepCounter % 2 = (s + 1) % 2
    BY <1>1, AdvancedParity
  <2>2. q.generatedSubsteps = k + 1
    OBVIOUS
  <2> HIDE DEF k, s
  <2> QED
    BY <1>1, <2>1, <2>2
<1>4. IdealAt(SubstepBase(p, c), c.swing, (s + k) % 2, k + 1)
        = IdealAt(SubstepBase(p, c), c.swing, (s + k) % 2, k) + SubstepDuration(p, c)
  BY IdealOfNext
<1>5. SubstepDuration(p, c) \in Nat /\ short \in Nat
      /\ SubstepDuration(q, c) \in Nat /\ SubstepDuration(q, c) >= short
  BY <1>2, DurationType
<1>6. p.sinceEdge - p.sinceClockStep = IdealAt(SubstepBase(p, c), c.swing, (s + k) % 2, k)
  BY DEF OnTime
<1>7. q.sinceEdge - q.sinceClockStep
        = IdealAt(SubstepBase(q, c), c.swing, (q.stepCounter + q.generatedSubsteps) % 2,
                  q.generatedSubsteps)
  <2>1. q.sinceEdge - q.sinceClockStep = (p.sinceEdge - p.sinceClockStep) + SubstepDuration(p, c)
    BY <1>1, <1>5
  <2> QED
    BY <1>2, <1>3, <1>4, <1>6, <2>1
<1>8. q.generatedSubsteps <= ClockMultiplier[c.rateIndex] - 1
  BY <1>1
<1>9. ASSUME p.clockPeriod # 0, short >= MaxTick
      PROVE  q.sinceClockStep - 0 <= SubstepDuration(q, c)
  <2>1. p.sinceClockStep - look <= SubstepDuration(p, c)
    BY <1>1, <1>9 DEF OnTime
  <2> QED
    BY <1>1, <1>5, <1>9, <2>1
<1> QED
  BY <1>2, <1>7, <1>8, <1>9 DEF OnTime

-----------------------------------------------------------------------------
(***************************************************************************)
(* The invariant of the timing, and time and edges                         *)
(***************************************************************************)

\* What holds of the phase in any configuration.
PhaseFits(p) ==
    /\ p \in Phase
    /\ p.clockPeriod <= MaxInterval /\ p.sinceEdge <= MaxInterval
    /\ p.sinceClockStep <= p.sinceEdge

\* Edges the phase has not counted yet and those it has are the edges heard at the
\* jack: so many rounds of the divider, each a step, and the edges since the last.
EdgesAgree ==
    /\ Clocked
    /\ sinceTick <= phase.sinceEdge
    /\ heard \in 1 .. ClockDivider[config.rateIndex]
    /\ phase.dividerEdgeCount \in 1 .. ClockDivider[config.rateIndex]
    /\ phase.dividerEdgeCount + edges = ClockDivider[config.rateIndex] * due + heard

TimingInv ==
    /\ config \in Configs /\ PhaseFits(phase)
    /\ edges \in 0 .. MaxEdges /\ sinceTick \in 0 .. MaxTick /\ age \in 0 .. sinceTick
    /\ due \in 0 .. edges /\ heard \in 0 .. ClockDivider[config.rateIndex]
    /\ phase.clockSeen => EdgesAgree /\ OnTime(phase, config, sinceTick)

LEMMA TimingFacts ==
    ASSUME TimingInv
    PROVE  /\ config \in Configs /\ phase \in Phase /\ PhaseFits(phase)
           /\ edges \in Nat /\ edges <= MaxEdges
           /\ sinceTick \in 0 .. MaxTick /\ sinceTick \in Nat /\ sinceTick <= MaxTick
           /\ age \in Nat /\ age <= sinceTick
           /\ due \in Nat /\ due <= edges /\ heard \in Nat
           /\ ClockDivider[config.rateIndex] \in Nat \ {0}
<1>1. config \in Configs /\ PhaseFits(phase) /\ edges \in 0 .. MaxEdges
      /\ sinceTick \in 0 .. MaxTick /\ age \in 0 .. sinceTick /\ due \in 0 .. edges
      /\ heard \in 0 .. ClockDivider[config.rateIndex]
  BY DEF TimingInv
<1>2. ClockDivider[config.rateIndex] \in Nat \ {0}
  BY <1>1, ConfigTypes
<1>3. phase \in Phase
  BY <1>1 DEF PhaseFits
<1>4. edges \in Nat /\ edges <= MaxEdges /\ sinceTick \in Nat /\ sinceTick <= MaxTick
  BY <1>1, Bounds
<1>5. age \in Nat /\ age <= sinceTick
  BY <1>1, <1>4
<1>6. due \in Nat /\ due <= edges
  BY <1>1, <1>4
<1>7. heard \in Nat
  BY <1>1, <1>2
<1> QED
  BY <1>1, <1>2, <1>3, <1>4, <1>5, <1>6, <1>7

LEMMA TimingTypes == TimingInv => TypeOK
<1> SUFFICES ASSUME TimingInv PROVE TypeOK
  OBVIOUS
<1>1. /\ config \in Configs /\ phase \in Phase /\ edges \in 0 .. MaxEdges
      /\ sinceTick \in 0 .. MaxTick /\ heard \in 0 .. ClockDivider[config.rateIndex]
      /\ phase.clockPeriod <= MaxInterval /\ phase.sinceClockStep <= phase.sinceEdge
  BY DEF TimingInv, PhaseFits
<1>2. age \in 0 .. MaxTick
  BY TimingFacts, Bounds
<1>3. due \in 0 .. MaxEdges
  BY TimingFacts, Bounds
<1>4. phase.clockSeen => phase.dividerEdgeCount \in 1 .. ClockDivider[config.rateIndex]
  BY DEF TimingInv, EdgesAgree
<1>5. {age, sinceTick} \subseteq 0 .. MaxTick
  BY <1>1, <1>2
<1> QED
  BY <1>1, <1>3, <1>4, <1>5 DEF TypeOK

LEMMA TimePassesKeeps ==
    ASSUME TimingInv, TimePasses
    PROVE  TimingInv'
<1>1. /\ config' = config /\ edges' = edges /\ heard' = heard /\ due' = due
      /\ sinceTick' = sinceTick + 1 /\ sinceTick < MaxTick /\ phase.sinceEdge < MaxInterval
      /\ age' = IF edges = 0 THEN 0 ELSE age + 1
  BY DEF TimePasses
<1>2. /\ sinceTick \in Nat /\ sinceTick' \in 0 .. MaxTick /\ age' \in 0 .. sinceTick'
  BY <1>1, TimingFacts, Bounds
<1>3. /\ phase.sinceStep \in Nat /\ phase.sinceEdge \in Nat /\ phase.sinceClockStep \in Nat
      /\ phase \in Phase /\ phase.clockSeen \in BOOLEAN /\ PhaseFits(phase)
  BY TimingFacts, PhaseTypes
<1>4. CASE Clocked /\ phase.clockSeen
  <2>1. phase' = [phase EXCEPT !.sinceEdge = @ + 1, !.sinceClockStep = @ + 1]
    BY <1>4 DEF TimePasses, Clocked
  <2>2. phase.sinceEdge + 1 \in Nat /\ phase.sinceClockStep + 1 \in Nat
    BY <1>3
  <2>3. /\ phase' \in Phase
        /\ phase'.sinceEdge = phase.sinceEdge + 1
        /\ phase'.sinceClockStep = phase.sinceClockStep + 1
        /\ phase'.clockPeriod = phase.clockPeriod /\ phase'.stepCounter = phase.stepCounter
        /\ phase'.generatedSubsteps = phase.generatedSubsteps
        /\ phase'.dividerEdgeCount = phase.dividerEdgeCount
    BY <1>3, <2>1, <2>2 DEF Phase
  <2>4. PhaseFits(phase')
    BY <1>1, <1>3, <2>3, Bounds DEF PhaseFits
  <2>5. EdgesAgree /\ OnTime(phase, config, sinceTick)
    BY <1>4 DEF TimingInv
  <2>6. OnTime(phase', config, sinceTick + 1)
    BY <1>2, <1>3, <2>3, <2>5, TimingFacts, OnTimePasses
  <2>7. sinceTick' <= phase'.sinceEdge
    BY <1>1, <1>2, <1>3, <2>3, <2>5 DEF EdgesAgree
  <2>8. EdgesAgree'
    BY <1>1, <2>3, <2>5, <2>7 DEF EdgesAgree, Clocked
  <2> QED
    BY <1>1, <1>2, <2>4, <2>6, <2>8 DEF TimingInv
<1>5. CASE ~(Clocked /\ phase.clockSeen)
  <2>1. ~phase.clockSeen
    BY <1>5 DEF TimingInv, EdgesAgree
  <2>2. phase' = phase \/ phase' = [phase EXCEPT !.sinceStep = @ + 1]
    BY <1>5 DEF TimePasses, Clocked
  <2>3. phase.sinceStep + 1 \in Nat
    BY <1>3
  <2>4. /\ phase' \in Phase /\ phase'.clockSeen = phase.clockSeen
        /\ phase'.sinceEdge = phase.sinceEdge /\ phase'.sinceClockStep = phase.sinceClockStep
        /\ phase'.clockPeriod = phase.clockPeriod
    BY <1>3, <2>2, <2>3 DEF Phase
  <2>5. PhaseFits(phase')
    BY <1>3, <2>4 DEF PhaseFits
  <2> QED
    BY <1>1, <1>2, <2>1, <2>4, <2>5 DEF TimingInv
<1> QED
  BY <1>4, <1>5

LEMMA ClockEdgeKeeps ==
    ASSUME TimingInv, ClockEdge
    PROVE  TimingInv'
<1> DEFINE divider == ClockDivider[config.rateIndex]
<1>1. /\ config' = config /\ phase' = phase /\ sinceTick' = sinceTick
      /\ edges < MaxEdges /\ edges' = edges + 1 /\ age' = 0
      /\ heard' = IF heard \in {0, divider} THEN 1 ELSE heard + 1
      /\ due' = IF heard \in {0, divider} THEN due + 1 ELSE due
  BY DEF ClockEdge, EdgeIsDue
<1>2. /\ divider \in Nat \ {0} /\ heard \in 0 .. divider /\ edges \in Nat /\ due \in Nat
      /\ due <= edges /\ sinceTick \in Nat
  BY TimingFacts DEF TimingInv
<1> HIDE DEF divider
<1>3. edges' \in 0 .. MaxEdges /\ age' \in 0 .. sinceTick'
  BY <1>1, <1>2, Bounds
<1>4. due' \in 0 .. edges' /\ heard' \in 0 .. divider
  BY <1>1, <1>2
<1>5. ASSUME phase.clockSeen PROVE EdgesAgree'
  <2>1. /\ Clocked /\ sinceTick <= phase.sinceEdge /\ heard \in 1 .. divider
        /\ phase.dividerEdgeCount \in 1 .. divider
        /\ phase.dividerEdgeCount + edges = divider * due + heard
    BY <1>5 DEF TimingInv, EdgesAgree, divider
  <2>2. phase.dividerEdgeCount + edges' = divider * due' + heard' /\ heard' \in 1 .. divider
    <3>1. divider * (due + 1) = divider * due + divider /\ divider * due \in Nat
      BY <1>2
    <3>2. CASE heard = divider
      <4>1. heard' = 1 /\ due' = due + 1 /\ edges' = edges + 1
        BY <1>1, <3>2
      <4>2. phase.dividerEdgeCount \in Nat
        BY <1>2, <2>1
      <4> QED
        BY <1>2, <2>1, <3>1, <3>2, <4>1, <4>2
    <3>3. CASE heard # divider
      <4>1. heard' = heard + 1 /\ due' = due /\ edges' = edges + 1
        BY <1>1, <1>2, <2>1, <3>3
      <4>2. phase.dividerEdgeCount \in Nat
        BY <1>2, <2>1
      <4> QED
        BY <1>2, <2>1, <3>1, <3>3, <4>1, <4>2
    <3> QED
      BY <3>2, <3>3
  <2> QED
    BY <1>1, <2>1, <2>2 DEF EdgesAgree, Clocked, divider
<1> QED
  BY <1>1, <1>3, <1>4, <1>5 DEF TimingInv, divider

LEMMA LinkKeeps ==
    ASSUME TimingInv, LinkFromA
    PROVE  TimingInv'
<1>1. phase' = ResetPhase /\ UNCHANGED <<config, edges, age, sinceTick, heard, due>>
  BY DEF LinkFromA
<1>2. PhaseFits(phase') /\ ~phase'.clockSeen
  BY <1>1, ResetPhaseFields, Bounds DEF PhaseFits
<1> QED
  BY <1>1, <1>2 DEF TimingInv

-----------------------------------------------------------------------------
(***************************************************************************)
(* The invariant of the timing, and the ticks                              *)
(***************************************************************************)

\* The phase a tick advances: the one there was, or a new one that has seen no clock.
LEMMA ConfiguredIs ==
    ASSUME TimingInv, NEW c \in Configs
    PROVE  /\ PhaseFits(Configured(c)) /\ Configured(c) \in Phase
           /\ \/ Configured(c) = phase /\ c = config
              \/ Configured(c) = ResetPhase
<1>1. c \in ArpeggiatorConfig /\ config \in ArpeggiatorConfig /\ PhaseFits(phase) /\ phase \in Phase
  BY TimingFacts, ConfigTypes
<1>2. PhaseFits(ResetPhase) /\ ResetPhase \in Phase
  BY ResetPhaseFields, Bounds DEF PhaseFits
<1>3. CASE c.enabled = config.enabled /\ c.rateIndex = config.rateIndex
           /\ c.syncMode = config.syncMode /\ c.swing = config.swing
  <2>1. c = config
    BY <1>1, <1>3 DEF ArpeggiatorConfig
  <2>2. Configured(c) = phase
    BY <1>3 DEF Configured
  <2> QED
    BY <1>1, <2>1, <2>2
<1>4. CASE ~(c.enabled = config.enabled /\ c.rateIndex = config.rateIndex
             /\ c.syncMode = config.syncMode /\ c.swing = config.swing)
  <2>1. Configured(c) = ResetPhase
    BY <1>4 DEF Configured
  <2> QED
    BY <1>2, <2>1
<1> QED
  BY <1>3, <1>4

LEMMA SeenIsClocked ==
    ASSUME TimingInv, NEW c \in Configs, Configured(c).clockSeen
    PROVE  /\ Configured(c) = phase /\ c = config /\ phase.clockSeen
           /\ c.enabled /\ c.syncMode = "Clock" /\ EdgesAgree /\ OnTime(phase, config, sinceTick)
<1>1. Configured(c) = phase /\ c = config
  BY ConfiguredIs, ResetPhaseFields
<1>2. EdgesAgree /\ OnTime(phase, config, sinceTick) /\ phase.clockSeen
  BY <1>1 DEF TimingInv
<1> QED
  BY <1>1, <1>2 DEF EdgesAgree, Clocked

TickCleared(c) ==
    /\ config' = c /\ edges' = 0 /\ age' = 0 /\ sinceTick' = 0 /\ due' = 0
    /\ heard' = IF c.enabled /\ c.syncMode = "Clock" /\ phase'.clockSeen
                THEN IF Configured(c).clockSeen THEN heard
                     ELSE ((edges - 1) % ClockDivider[c.rateIndex]) + 1
                ELSE 0

\* A tick after which no clock has been seen.
LEMMA UnclockedTickKeeps ==
    ASSUME NEW c \in Configs, TickCleared(c), PhaseFits(phase'), ~phase'.clockSeen
    PROVE  TimingInv'
<1>1. heard' = 0 /\ config' = c /\ edges' = 0 /\ age' = 0 /\ sinceTick' = 0 /\ due' = 0
  BY DEF TickCleared
<1>2. ClockDivider[c.rateIndex] \in Nat
  BY ConfigTypes
<1>3. 0 \in 0 .. MaxEdges /\ 0 \in 0 .. MaxTick /\ 0 \in 0 .. 0
      /\ 0 \in 0 .. ClockDivider[c.rateIndex]
  BY <1>2, Bounds
<1> QED
  BY <1>1, <1>3 DEF TimingInv

LEMMA FreeTickKeeps ==
    ASSUME TimingInv, NEW c \in Configs, TickCleared(c),
           \/ ResetByEdge(Configured(c), c)
           \/ Free(Configured(c), c)
           \/ Bypassed(Configured(c), c)
    PROVE  TimingInv'
<1> DEFINE p == Configured(c)
<1>1. PhaseFits(p) /\ p \in Phase
  BY ConfiguredIs
<1>2. ~p.clockSeen
  <2>1. ~(c.enabled /\ c.syncMode = "Clock")
    BY DEF ResetByEdge, Free, Bypassed
  <2> QED
    BY <2>1, SeenIsClocked
<1>3. AdvancedBy(p.stepCounter, 1) \in 0 .. CounterModulus - 1 /\ 0 \in 0 .. CounterModulus - 1
  <2>1. p.stepCounter \in Nat /\ 1 \in Int
    BY <1>1, PhaseTypes
  <2> HIDE DEF p
  <2>2. AdvancedBy(p.stepCounter, 1) \in 0 .. CounterModulus - 1
    BY <2>1, AdvancedType
  <2> QED
    BY <2>2, Bounds
<1>4. \/ phase' = p
      \/ phase' = [p EXCEPT !.stepCounter = 0, !.sinceStep = 0]
      \/ phase' = [p EXCEPT !.stepCounter = AdvancedBy(@, 1), !.sinceStep = 0]
  BY DEF ResetByEdge, Free, Bypassed
<1> HIDE DEF p
<1>5. /\ phase' \in Phase /\ phase'.clockSeen = p.clockSeen
      /\ phase'.clockPeriod = p.clockPeriod /\ phase'.sinceEdge = p.sinceEdge
      /\ phase'.sinceClockStep = p.sinceClockStep
  <2>1. CASE phase' = p
    BY <1>1, <2>1
  <2>2. CASE phase' = [p EXCEPT !.stepCounter = 0, !.sinceStep = 0]
    BY <1>1, <1>3, <2>2 DEF Phase
  <2>3. CASE phase' = [p EXCEPT !.stepCounter = AdvancedBy(@, 1), !.sinceStep = 0]
    BY <1>1, <1>3, <2>3 DEF Phase
  <2> QED
    BY <1>4, <2>1, <2>2, <2>3
<1>6. PhaseFits(phase')
  BY <1>1, <1>5 DEF PhaseFits
<1> QED
  BY <1>2, <1>5, <1>6, UnclockedTickKeeps

\* A tick without an edge of a clock that has been seen: the counts already agree.
LEMMA SeenTickKeeps ==
    ASSUME TimingInv, NEW c \in Configs, TickCleared(c), Configured(c).clockSeen, edges = 0,
           PhaseFits(phase'), phase'.clockSeen,
           phase'.dividerEdgeCount = Configured(c).dividerEdgeCount, OnTime(phase', c, 0)
    PROVE  TimingInv'
<1>1. /\ c = config /\ Configured(c) = phase /\ EdgesAgree
      /\ c.enabled /\ c.syncMode = "Clock"
  BY SeenIsClocked
<1>2. /\ heard' = heard /\ config' = config /\ edges' = 0 /\ age' = 0
      /\ sinceTick' = 0 /\ due' = 0
  BY <1>1 DEF TickCleared
<1>3. /\ heard \in 1 .. ClockDivider[config.rateIndex]
      /\ phase.dividerEdgeCount \in 1 .. ClockDivider[config.rateIndex]
      /\ phase.dividerEdgeCount + edges = ClockDivider[config.rateIndex] * due + heard
      /\ due = 0
      /\ ClockDivider[config.rateIndex] \in Nat \ {0}
  BY <1>1, TimingFacts DEF EdgesAgree
<1>4. phase.dividerEdgeCount + 0 = ClockDivider[config.rateIndex] * 0 + heard
  BY <1>3
<1>5. phase'.sinceEdge \in Nat /\ phase'.sinceEdge >= 0
  BY PhaseTypes DEF PhaseFits
<1>6. EdgesAgree'
  BY <1>1, <1>2, <1>3, <1>4, <1>5 DEF EdgesAgree, Clocked
<1>7. 0 \in 0 .. MaxEdges /\ 0 \in 0 .. MaxTick /\ 0 \in 0 .. 0
      /\ heard \in 0 .. ClockDivider[config.rateIndex]
  BY <1>3, Bounds
<1>8. OnTime(phase', config', sinceTick')
  BY <1>1, <1>2
<1> QED
  BY <1>1, <1>2, <1>6, <1>7, <1>8 DEF TimingInv

LEMMA SubstepTickKeeps ==
    ASSUME TimingInv, NEW c \in Configs, TickCleared(c), Substep(Configured(c), c)
    PROVE  TimingInv'
<1> DEFINE p == Configured(c)
<1>1. PhaseFits(p) /\ p \in Phase
  BY ConfiguredIs
<1>2. /\ c.enabled /\ c.syncMode = "Clock" /\ edges = 0
      /\ phase' = IF SubstepIsDue(p, c)
                  THEN [p EXCEPT !.stepCounter = AdvancedBy(@, 1),
                                 !.generatedSubsteps = @ + 1,
                                 !.sinceClockStep = Rescheduled(p, c)]
                  ELSE p
  BY DEF Substep
<1>3. CASE ~p.clockSeen
  <2>1. phase' = p
    BY <1>2, <1>3 DEF SubstepIsDue
  <2> QED
    BY <1>1, <1>3, <2>1, UnclockedTickKeeps
<1>4. CASE p.clockSeen
  <2>1. p = phase /\ c = config /\ EdgesAgree /\ OnTime(p, c, sinceTick)
    BY <1>4, SeenIsClocked
  <2>2. /\ SubstepDuration(p, c) \in Nat /\ p.sinceClockStep \in Nat /\ p.sinceEdge \in Nat
        /\ p.generatedSubsteps \in Nat /\ p.stepCounter \in Nat
    BY <1>1, DurationType, PhaseTypes
  <2>3. AdvancedBy(p.stepCounter, 1) \in 0 .. CounterModulus - 1
    <3>1. p.stepCounter \in Nat /\ 1 \in Int
      BY <2>2
    <3> HIDE DEF p
    <3> QED
      BY <3>1, AdvancedType
  <2>4. CASE SubstepIsDue(p, c)
    <3>1. Rescheduled(p, c) = p.sinceClockStep - SubstepDuration(p, c)
          /\ p.sinceClockStep - SubstepDuration(p, c) \in Nat
          /\ p.generatedSubsteps + 1 \in Nat
      BY <2>2, <2>4 DEF Rescheduled, SubstepIsDue
    <3> HIDE DEF p
    <3>2. /\ phase' \in Phase /\ phase'.clockSeen = p.clockSeen
          /\ phase'.clockPeriod = p.clockPeriod /\ phase'.sinceEdge = p.sinceEdge
          /\ phase'.stepCounter = AdvancedBy(p.stepCounter, 1)
          /\ phase'.generatedSubsteps = p.generatedSubsteps + 1
          /\ phase'.dividerEdgeCount = p.dividerEdgeCount
          /\ phase'.sinceClockStep = p.sinceClockStep - SubstepDuration(p, c)
      BY <1>1, <1>2, <2>3, <2>4, <3>1 DEF Phase
    <3>3. OnTime(phase', c, 0)
      BY <1>1, <2>1, <2>4, <3>2, TimingFacts, OnTimeSubstep
    <3>4. PhaseFits(phase')
      BY <1>1, <2>2, <3>1, <3>2 DEF PhaseFits
    <3> QED
      BY <1>2, <1>4, <2>1, <3>2, <3>3, <3>4, SeenTickKeeps DEF p
  <2>5. CASE ~SubstepIsDue(p, c)
    <3>1. phase' = p
      BY <1>2, <2>5
    <3>2. OnTime(p, c, 0)
      BY <1>1, <1>4, <2>1, <2>5, TimingFacts, OnTimeWaits
    <3> QED
      BY <1>1, <1>2, <1>4, <2>1, <3>1, <3>2, SeenTickKeeps
  <2> QED
    BY <2>4, <2>5
<1> QED
  BY <1>3, <1>4

\* The mean distance of the edges of a tick is no longer than the time they took.
LEMMA MeasuredType ==
    ASSUME TimingInv, NEW c \in Configs, edges # 0
    PROVE  /\ MeasuredPeriod(Configured(c)) \in Nat
           /\ MeasuredPeriod(Configured(c)) <= MaxInterval
<1> DEFINE p == Configured(c)
           elapsed == p.sinceEdge - age
           measured == IF elapsed < edges THEN 1 ELSE elapsed \div edges
<1>1. PhaseFits(p) /\ p \in Phase /\ p.clockPeriod \in Nat /\ p.clockPeriod <= MaxInterval
      /\ p.sinceEdge \in Nat /\ p.sinceEdge <= MaxInterval
  <2>1. PhaseFits(p) /\ p \in Phase
    BY ConfiguredIs
  <2> HIDE DEF p
  <2> QED
    BY <2>1, PhaseTypes DEF PhaseFits
<1>2. MeasuredPeriod(p) = IF ~p.clockSeen \/ elapsed = 0 THEN p.clockPeriod
                          ELSE IF p.clockPeriod = 0 THEN measured
                          ELSE (3 * p.clockPeriod + measured) \div 4
  BY DEF MeasuredPeriod
<1>3. CASE ~p.clockSeen
  BY <1>1, <1>2, <1>3
<1>4. CASE p.clockSeen
  <2>1. age \in Nat /\ age <= p.sinceEdge /\ edges \in Nat \ {0}
    <3>1. p = phase /\ EdgesAgree
      BY <1>4, SeenIsClocked
    <3>2. sinceTick <= phase.sinceEdge /\ phase.sinceEdge \in Nat /\ phase.sinceEdge = p.sinceEdge
      BY <1>1, <3>1 DEF EdgesAgree
    <3> HIDE DEF p
    <3> QED
      BY <3>2, TimingFacts
  <2>2. elapsed \in Nat /\ elapsed <= MaxInterval
    BY <1>1, <2>1, Bounds
  <2>3. measured \in Nat /\ measured <= MaxInterval
    <3> HIDE DEF elapsed
    <3>1. elapsed \div edges \in 0 .. elapsed
      BY <2>1, <2>2, QuotientBounds
    <3>2. elapsed \div edges \in Nat /\ elapsed \div edges <= MaxInterval
      BY <2>2, <3>1, Bounds
    <3> QED
      BY <3>2, Bounds
  <2> HIDE DEF p, elapsed, measured
  <2>4. (3 * p.clockPeriod + measured) \div 4 \in Nat
        /\ (3 * p.clockPeriod + measured) \div 4 <= MaxInterval
    BY <1>1, <2>3, Bounds
  <2> QED
    BY <1>1, <1>2, <2>3, <2>4 DEF p
<1> QED
  BY <1>3, <1>4

\* The count of the divider, before it is split into steps and a rest.
EdgeCount(p) == FirstEdge(p).dividerEdgeCount - 1 + EdgesToApply(p)

LEMMA EdgeCountType ==
    ASSUME TimingInv, NEW c \in Configs, edges # 0, c.enabled, c.syncMode = "Clock"
    PROVE  /\ EdgeCount(Configured(c)) \in Nat
           /\ ~Configured(c).clockSeen => EdgeCount(Configured(c)) = edges - 1
           /\ Configured(c).clockSeen =>
                /\ EdgeCount(Configured(c))
                     = ClockDivider[c.rateIndex] * due + (heard - 1)
                /\ heard - 1 \in 0 .. ClockDivider[c.rateIndex] - 1
                /\ heard \in 1 .. ClockDivider[c.rateIndex]
<1> DEFINE p == Configured(c)
<1>1. edges \in Nat \ {0} /\ due \in Nat /\ heard \in Nat /\ p \in Phase
      /\ ClockDivider[c.rateIndex] \in Nat \ {0}
  BY TimingFacts, ConfiguredIs, ConfigTypes
<1>2. CASE ~p.clockSeen
  <2>1. FirstEdge(p).dividerEdgeCount = 1 /\ EdgesToApply(p) = edges - 1
    BY <1>1, <1>2 DEF FirstEdge, EdgesToApply, Phase
  <2> QED
    BY <1>1, <1>2, <2>1 DEF EdgeCount
<1>3. CASE p.clockSeen
  <2>1. p = phase /\ c = config /\ EdgesAgree
    BY <1>3, SeenIsClocked
  <2>2. FirstEdge(p).dividerEdgeCount = phase.dividerEdgeCount /\ EdgesToApply(p) = edges
    BY <1>3, <2>1 DEF FirstEdge, EdgesToApply
  <2>3. /\ heard \in 1 .. ClockDivider[c.rateIndex]
        /\ phase.dividerEdgeCount \in 1 .. ClockDivider[c.rateIndex]
        /\ phase.dividerEdgeCount + edges = ClockDivider[c.rateIndex] * due + heard
    BY <2>1 DEF EdgesAgree
  <2>4. ClockDivider[c.rateIndex] * due \in Nat
    BY <1>1
  <2>5. EdgeCount(p) = phase.dividerEdgeCount - 1 + edges
    BY <2>2 DEF EdgeCount
  <2> HIDE DEF p
  <2>6. phase.dividerEdgeCount \in Nat /\ phase.dividerEdgeCount >= 1
    BY <1>1, <2>3
  <2>7. EdgeCount(p) \in Nat /\ EdgeCount(p) = ClockDivider[c.rateIndex] * due + (heard - 1)
    BY <1>1, <2>3, <2>4, <2>5, <2>6
  <2>8. heard - 1 \in 0 .. ClockDivider[c.rateIndex] - 1
    BY <1>1, <2>3
  <2> QED
    BY <1>3, <2>3, <2>7, <2>8 DEF p
<1> QED
  BY <1>2, <1>3

LEMMA EdgesSet ==
    ASSUME TimingInv, NEW c \in Configs, Edges(Configured(c), c)
    PROVE  LET p == Configured(c)
           IN  /\ phase' \in Phase /\ phase'.clockSeen
               /\ phase'.clockPeriod = MeasuredPeriod(p)
               /\ phase'.sinceEdge = age /\ phase'.sinceClockStep = age
               /\ phase'.generatedSubsteps = 0
               /\ phase'.dividerEdgeCount = (EdgeCount(p) % ClockDivider[c.rateIndex]) + 1
               /\ phase'.stepCounter
                    = AdvancedBy(FirstEdge(p).stepCounter,
                                 EdgeCount(p) \div ClockDivider[c.rateIndex])
<1> DEFINE p == Configured(c)
           first == FirstEdge(p)
           rest == EdgeCount(p) % ClockDivider[c.rateIndex]
           steps == EdgeCount(p) \div ClockDivider[c.rateIndex]
<1>1. /\ c.enabled /\ c.syncMode = "Clock" /\ edges # 0
      /\ phase' = [first EXCEPT
                     !.clockPeriod = MeasuredPeriod(p),
                     !.sinceEdge = age,
                     !.sinceClockStep = age,
                     !.generatedSubsteps = 0,
                     !.dividerEdgeCount = rest + 1,
                     !.stepCounter = AdvancedBy(@, steps)]
  BY DEF Edges, EdgeCount
<1>2. rest \in Nat /\ steps \in Int
  <2>1. EdgeCount(p) \in Nat /\ EdgeCount(p) \in Int /\ ClockDivider[c.rateIndex] \in Nat \ {0}
    BY <1>1, EdgeCountType, ConfigTypes
  <2> HIDE DEF p
  <2>2. rest \in 0 .. ClockDivider[c.rateIndex] - 1 /\ steps \in Int
    BY <2>1, Remainder
  <2> QED
    BY <2>1, <2>2
<1>3. first \in Phase /\ first.clockSeen
  <2>1. p \in Phase /\ 0 \in 0 .. CounterModulus - 1
    BY ConfiguredIs, Bounds
  <2> HIDE DEF p
  <2>2. CASE p.clockSeen
    BY <2>1, <2>2 DEF FirstEdge
  <2>3. CASE ~p.clockSeen
    <3>1. first = [p EXCEPT !.clockSeen = TRUE, !.dividerEdgeCount = 1, !.stepCounter = 0]
      BY <2>3 DEF FirstEdge
    <3> HIDE DEF first
    <3> QED
      BY <2>1, <3>1 DEF Phase
  <2> QED
    BY <2>2, <2>3
<1>4. MeasuredPeriod(p) \in Nat /\ age \in Nat
  BY <1>1, MeasuredType, TimingFacts
<1> HIDE DEF p, first, rest, steps
<1>5. AdvancedBy(first.stepCounter, steps) \in 0 .. CounterModulus - 1
  <2>1. first.stepCounter \in Nat
    BY <1>3, PhaseTypes
  <2> QED
    BY <1>2, <2>1, AdvancedType
<1>6. rest + 1 \in Nat
  BY <1>2
<1>7. /\ phase' \in Phase /\ phase'.clockSeen = first.clockSeen
      /\ phase'.clockPeriod = MeasuredPeriod(p)
      /\ phase'.sinceEdge = age /\ phase'.sinceClockStep = age
      /\ phase'.generatedSubsteps = 0
      /\ phase'.dividerEdgeCount = rest + 1
      /\ phase'.stepCounter = AdvancedBy(first.stepCounter, steps)
  BY <1>1, <1>3, <1>4, <1>5, <1>6 DEF Phase
<1> QED
  BY <1>3, <1>7 DEF p, first, rest, steps

LEMMA EdgesTickKeeps ==
    ASSUME TimingInv, NEW c \in Configs, TickCleared(c), Edges(Configured(c), c)
    PROVE  TimingInv'
<1> DEFINE p == Configured(c)
           divider == ClockDivider[c.rateIndex]
<1>1. c.enabled /\ c.syncMode = "Clock" /\ edges # 0
  BY DEF Edges
<1>2. /\ phase' \in Phase /\ phase'.clockSeen
      /\ phase'.clockPeriod = MeasuredPeriod(p)
      /\ phase'.sinceEdge = age /\ phase'.sinceClockStep = age
      /\ phase'.generatedSubsteps = 0
      /\ phase'.dividerEdgeCount = (EdgeCount(p) % divider) + 1
  BY EdgesSet
<1>3. age \in Nat /\ age <= MaxTick /\ divider \in Nat \ {0} /\ edges \in Nat \ {0}
      /\ MaxTick \in Nat /\ MaxTick <= MaxInterval /\ MaxInterval \in Nat
  BY <1>1, TimingFacts, ConfigTypes, Bounds
<1>4. PhaseFits(phase')
  <2>1. phase'.clockPeriod <= MaxInterval
    BY <1>1, <1>2, MeasuredType
  <2> QED
    BY <1>2, <1>3, <2>1 DEF PhaseFits
<1>5. OnTime(phase', c, 0)
  BY <1>2, <1>3, OnTimeAtEdge
<1>6. heard' = (EdgeCount(p) % divider) + 1 /\ EdgeCount(p) % divider \in 0 .. divider - 1
  <2>1. EdgeCount(p) \in Nat /\ EdgeCount(p) \in Int
    BY <1>1, EdgeCountType
  <2>2. EdgeCount(p) % divider \in 0 .. divider - 1
    BY <1>3, <2>1, Remainder
  <2>3. CASE p.clockSeen
    <3>1. heard' = heard
      BY <1>1, <1>2, <2>3 DEF TickCleared
    <3>2. EdgeCount(p) = divider * due + (heard - 1) /\ heard - 1 \in 0 .. divider - 1
          /\ heard \in 1 .. divider
      BY <1>1, <2>3, EdgeCountType
    <3>3. due \in Int /\ heard \in Nat
      BY TimingFacts
    <3> HIDE DEF p, divider
    <3>4. (divider * due + (heard - 1)) % divider = heard - 1
      BY <1>3, <3>2, <3>3, DivisionIsUnique
    <3> QED
      BY <2>2, <3>1, <3>2, <3>3, <3>4
  <2>4. CASE ~p.clockSeen
    <3>1. heard' = ((edges - 1) % divider) + 1
      BY <1>1, <1>2, <2>4 DEF TickCleared
    <3>2. EdgeCount(p) = edges - 1
      BY <1>1, <2>4, EdgeCountType
    <3> QED
      BY <2>2, <3>1, <3>2
  <2> QED
    BY <2>3, <2>4
<1>7. config' = c /\ edges' = 0 /\ age' = 0 /\ sinceTick' = 0 /\ due' = 0
  BY DEF TickCleared
<1> HIDE DEF p, divider
<1>8. heard' \in 1 .. divider /\ phase'.dividerEdgeCount = heard'
      /\ heard' + 0 = divider * 0 + heard'
  BY <1>2, <1>3, <1>6
<1>9. EdgesAgree'
  BY <1>1, <1>2, <1>3, <1>7, <1>8 DEF EdgesAgree, Clocked, divider
<1>10. 0 \in 0 .. MaxEdges /\ 0 \in 0 .. MaxTick /\ 0 \in 0 .. 0 /\ heard' \in 0 .. divider
  BY <1>3, <1>8, Bounds
<1> QED
  BY <1>4, <1>5, <1>7, <1>9, <1>10 DEF TimingInv, divider

LEMMA TickKeeps ==
    ASSUME TimingInv, Tick
    PROVE  TimingInv'
<1>1. PICK c \in Configs :
        /\ TickCleared(c)
        /\ \/ ResetByEdge(Configured(c), c)
           \/ Free(Configured(c), c)
           \/ Edges(Configured(c), c)
           \/ Substep(Configured(c), c)
           \/ Bypassed(Configured(c), c)
  BY DEF Tick, TickCleared
<1> QED
  BY <1>1, FreeTickKeeps, EdgesTickKeeps, SubstepTickKeeps

LEMMA TimingStepKeepsInv ==
    ASSUME TimingInv, [Next]_vars
    PROVE  TimingInv'
<1>1. CASE UNCHANGED vars
  BY <1>1 DEF vars, TimingInv, EdgesAgree, Clocked
<1> QED
  BY <1>1, TimePassesKeeps, ClockEdgeKeeps, LinkKeeps, TickKeeps DEF Next

\* TimingInv is an invariant: edges counted, steps on time, and the types.
THEOREM TimingAlwaysInv == Spec => []TimingInv
<1>1. Init => TimingInv
  <2> SUFFICES ASSUME Init PROVE TimingInv
    OBVIOUS
  <2>1. /\ config \in Configs /\ phase = ResetPhase /\ edges = 0 /\ age = 0 /\ sinceTick = 0
        /\ heard = 0 /\ due = 0
    BY DEF Init
  <2>2. PhaseFits(phase) /\ ~phase.clockSeen
    BY <2>1, ResetPhaseFields, Bounds DEF PhaseFits
  <2>3. ClockDivider[config.rateIndex] \in Nat
    BY <2>1, ConfigTypes
  <2>4. 0 \in 0 .. MaxEdges /\ 0 \in 0 .. MaxTick /\ 0 \in 0 .. 0
        /\ 0 \in 0 .. ClockDivider[config.rateIndex]
    BY <2>3, Bounds
  <2> QED
    BY <2>1, <2>2, <2>4 DEF TimingInv
<1>2. TimingInv /\ [Next]_vars => TimingInv'
  BY TimingStepKeepsInv
<1> QED
  BY <1>1, <1>2, PTL DEF Spec

\* TypeOK.
THEOREM TimingAlwaysTyped == Spec => []TypeOK
  BY TimingAlwaysInv, TimingTypes, PTL

-----------------------------------------------------------------------------
(***************************************************************************)
(* What the invariant means for the edges                                  *)
(***************************************************************************)

\* Edges disappear in a tick only; one that keeps the configuration keeps the phase.
LEMMA EdgesAreHeard ==
    ASSUME TimingInv, [Next]_vars, HearsEdges, config' = config
    PROVE  /\ Edges(phase, config) /\ config \in Configs
           /\ Configured(config) = phase /\ EdgesAgree /\ OnTime(phase, config, sinceTick)
<1>1. /\ config.enabled /\ config.syncMode = "Clock" /\ phase.clockSeen
      /\ edges # 0 /\ edges' = 0 /\ edges \in Nat /\ config \in Configs
  BY TimingFacts DEF HearsEdges, Clocked
<1>2. ~ClockEdge
  BY <1>1 DEF ClockEdge
<1>3. ~TimePasses /\ ~LinkFromA /\ ~UNCHANGED vars
  BY <1>1 DEF TimePasses, LinkFromA, vars
<1>4. Tick
  BY <1>2, <1>3 DEF Next
<1>5. Configured(config) = phase
  BY DEF Configured
<1>6. \/ ResetByEdge(phase, config)
      \/ Free(phase, config)
      \/ Edges(phase, config)
      \/ Substep(phase, config)
      \/ Bypassed(phase, config)
  BY <1>4, <1>5 DEF Tick
<1>7. Edges(phase, config)
  BY <1>1, <1>6 DEF ResetByEdge, Free, Substep, Bypassed
<1>8. EdgesAgree /\ OnTime(phase, config, sinceTick)
  BY <1>1 DEF TimingInv
<1> QED
  BY <1>1, <1>5, <1>7, <1>8

StepsAreEdges ==
    (HearsEdges /\ config' = config) => phase'.stepCounter = AdvancedBy(phase.stepCounter, due)

LEMMA EdgesAreSteps ==
    ASSUME TimingInv, [Next]_vars
    PROVE  StepsAreEdges
<1> SUFFICES ASSUME HearsEdges, config' = config
             PROVE  phase'.stepCounter = AdvancedBy(phase.stepCounter, due)
  BY DEF StepsAreEdges
<1> DEFINE divider == ClockDivider[config.rateIndex]
<1>1. /\ Edges(phase, config) /\ config \in Configs /\ Configured(config) = phase
      /\ phase.clockSeen /\ config.enabled /\ config.syncMode = "Clock" /\ edges # 0
  BY EdgesAreHeard DEF HearsEdges, Clocked
<1>2. phase'.stepCounter
        = AdvancedBy(FirstEdge(phase).stepCounter, EdgeCount(phase) \div divider)
  BY <1>1, EdgesSet
<1>3. FirstEdge(phase) = phase
  BY <1>1 DEF FirstEdge
<1>4. EdgeCount(phase) = divider * due + (heard - 1) /\ heard - 1 \in 0 .. divider - 1
  BY <1>1, EdgeCountType
<1>5. divider \in Nat \ {0} /\ due \in Int
  BY TimingFacts
<1> HIDE DEF divider
<1>6. (divider * due + (heard - 1)) \div divider = due
  BY <1>4, <1>5, DivisionIsUnique
<1> QED
  BY <1>2, <1>3, <1>4, <1>6

\* However the ticks batch the edges of a clock, the arpeggio steps with every edge
\* that is due a step, and with no other.
THEOREM StepsAlwaysFollowEdges == Spec => StepsFollowEdges
<1>1. TimingInv /\ [Next]_vars => StepsAreEdges
  BY EdgesAreSteps
<1>2. TimingInv /\ [Next]_vars
        => [(HearsEdges /\ config' = config)
              => phase'.stepCounter = AdvancedBy(phase.stepCounter, due)]_vars
  BY <1>1 DEF StepsAreEdges
<1> QED
  BY <1>2, TimingAlwaysInv, PTL DEF Spec, StepsFollowEdges

Between(old, new, measured) ==
    \/ measured <= new /\ new < old
    \/ old <= new /\ new <= measured
    \/ measured = 0 /\ new = old

LEMMA Smoothed ==
    ASSUME NEW old \in Nat, NEW measured \in Nat, measured # 0
    PROVE  Between(old, (3 * old + measured) \div 4, measured)
<1> DEFINE new == (3 * old + measured) \div 4
<1>1. CASE measured < old
  <2>1. measured <= new /\ new < old
    BY <1>1
  <2> QED
    BY <2>1 DEF Between
<1>2. CASE old <= measured
  <2>1. old <= new /\ new <= measured
    BY <1>2
  <2> QED
    BY <2>1 DEF Between
<1> QED
  BY <1>1, <1>2

PeriodMoves ==
    (HearsEdges /\ config' = config /\ edges = 1 /\ phase.clockPeriod # 0)
      => Between(phase.clockPeriod, phase'.clockPeriod, phase.sinceEdge - age)

LEMMA PeriodIsSmoothed ==
    ASSUME TimingInv, [Next]_vars
    PROVE  PeriodMoves
<1> SUFFICES ASSUME HearsEdges, config' = config, edges = 1, phase.clockPeriod # 0
             PROVE  Between(phase.clockPeriod, phase'.clockPeriod, phase.sinceEdge - age)
  BY DEF PeriodMoves
<1> DEFINE elapsed == phase.sinceEdge - age
<1>1. /\ Edges(phase, config) /\ config \in Configs /\ Configured(config) = phase
      /\ phase.clockSeen /\ EdgesAgree
  BY EdgesAreHeard DEF HearsEdges
<1>2. phase.clockPeriod \in Nat /\ phase.sinceEdge \in Nat
  BY TimingFacts, PhaseTypes
<1>3. elapsed \in Nat
  <2>1. age \in Nat /\ sinceTick \in Nat /\ age <= sinceTick /\ sinceTick <= phase.sinceEdge
    BY <1>1, TimingFacts DEF EdgesAgree
  <2> QED
    BY <1>2, <2>1
<1>4. phase'.clockPeriod = MeasuredPeriod(phase)
  BY <1>1, EdgesSet
<1>5. MeasuredPeriod(phase) = IF elapsed = 0 THEN phase.clockPeriod
        ELSE (3 * phase.clockPeriod + (IF elapsed < 1 THEN 1 ELSE elapsed \div 1)) \div 4
  BY <1>1 DEF MeasuredPeriod
<1> HIDE DEF elapsed
<1>6. CASE elapsed = 0
  BY <1>4, <1>5, <1>6 DEF Between, elapsed
<1>7. CASE elapsed # 0
  <2>1. (IF elapsed < 1 THEN 1 ELSE elapsed \div 1) = elapsed
    BY <1>3, <1>7
  <2>2. phase'.clockPeriod = (3 * phase.clockPeriod + elapsed) \div 4
    BY <1>4, <1>5, <1>7, <2>1
  <2> QED
    BY <1>2, <1>3, <1>7, <2>2, Smoothed DEF elapsed
<1> QED
  BY <1>6, <1>7

\* The smoothed period moves towards the measured one and not past it.
THEOREM PeriodAlwaysApproaches == Spec => PeriodApproaches
<1>1. TimingInv /\ [Next]_vars => PeriodMoves
  BY PeriodIsSmoothed
<1>2. TimingInv /\ [Next]_vars
        => [(HearsEdges /\ config' = config /\ edges = 1 /\ phase.clockPeriod # 0)
             => LET old == phase.clockPeriod
                    new == phase'.clockPeriod
                    measured == phase.sinceEdge - age
                IN  \/ measured <= new /\ new < old
                    \/ old <= new /\ new <= measured
                    \/ measured = 0 /\ new = old]_vars
  BY <1>1 DEF PeriodMoves, Between
<1> QED
  BY <1>2, TimingAlwaysInv, PTL DEF Spec, PeriodApproaches

-----------------------------------------------------------------------------
(***************************************************************************)
(* What it means for a multiplied clock                                    *)
(***************************************************************************)

StepWithoutDrift ==
    (/\ Clocked /\ config' = config
     /\ phase'.generatedSubsteps = phase.generatedSubsteps + 1
     /\ SubstepPart(SubstepBase(phase, config), config.swing, 0) >= MaxTick)
      => phase.sinceEdge - Ideal(phase'.generatedSubsteps) \in 0 .. MaxTick

LEMMA SubstepsDoNotDrift ==
    ASSUME TimingInv, [Next]_vars
    PROVE  StepWithoutDrift
<1> DEFINE k == phase.generatedSubsteps
           base == SubstepBase(phase, config)
           first == (phase.stepCounter + k) % 2
<1> SUFFICES ASSUME Clocked, config' = config, phase'.generatedSubsteps = k + 1,
                    SubstepPart(base, config.swing, 0) >= MaxTick
             PROVE  phase.sinceEdge - Ideal(phase'.generatedSubsteps) \in 0 .. MaxTick
  BY DEF StepWithoutDrift
<1>1. /\ config \in Configs /\ phase \in Phase /\ k \in Nat /\ k + 1 # k /\ k + 1 # 0
      /\ Configured(config) = phase /\ config.enabled /\ config.syncMode = "Clock"
  <2>1. config \in Configs /\ phase \in Phase /\ k \in Nat
    BY TimingFacts, PhaseTypes
  <2> HIDE DEF k
  <2>2. k + 1 # k /\ k + 1 # 0
    BY <2>1
  <2> QED
    BY <2>1, <2>2 DEF Configured, Clocked
<1>2. Tick
  <2>1. ~(phase' = phase)
    BY <1>1
  <2>2. ~ClockEdge /\ ~UNCHANGED vars
    BY <2>1 DEF ClockEdge, vars
  <2>3. ~TimePasses
    <3>1. SUFFICES ASSUME TimePasses PROVE phase'.generatedSubsteps = k
      BY <1>1
    <3>2. phase' = [phase EXCEPT !.sinceEdge = @ + 1, !.sinceClockStep = @ + 1] \/ phase' = phase
      BY <1>1, <3>1 DEF TimePasses, Clocked
    <3> QED
      BY <1>1, <3>2 DEF Phase
  <2>4. ~LinkFromA
    BY <1>1 DEF LinkFromA, ResetPhase
  <2> QED
    BY <2>2, <2>3, <2>4 DEF Next
<1>3. Substep(phase, config)
  <2>1. \/ ResetByEdge(phase, config)
        \/ Free(phase, config)
        \/ Edges(phase, config)
        \/ Substep(phase, config)
        \/ Bypassed(phase, config)
    BY <1>1, <1>2 DEF Tick
  <2>2. ~Edges(phase, config)
    <3>1. Edges(phase, config) => phase'.generatedSubsteps = 0
      BY <1>1, EdgesSet
    <3> QED
      BY <1>1, <3>1
  <2> QED
    BY <1>1, <2>1, <2>2 DEF ResetByEdge, Free, Bypassed
<1>4. SubstepIsDue(phase, config)
  <2>1. SUFFICES ASSUME ~SubstepIsDue(phase, config) PROVE FALSE
    OBVIOUS
  <2>2. phase' = phase
    BY <1>3, <2>1 DEF Substep
  <2> QED
    BY <1>1, <2>2
<1>5. OnTime(phase, config, sinceTick)
  BY <1>4 DEF SubstepIsDue, TimingInv
<1>6. /\ phase.clockPeriod # 0 /\ k < ClockMultiplier[config.rateIndex] - 1
      /\ phase.sinceClockStep >= SubstepDuration(phase, config)
  BY <1>4 DEF SubstepIsDue
<1>7. /\ phase.sinceEdge - phase.sinceClockStep = IdealAt(base, config.swing, first, k)
      /\ phase.sinceClockStep - sinceTick <= SubstepDuration(phase, config)
  BY <1>5, <1>6 DEF OnTime
<1>8. Ideal(phase'.generatedSubsteps)
        = IdealAt(base, config.swing, first, k) + SubstepDuration(phase, config)
  <2>1. IdealAt(base, config.swing, first, k + 1)
          = IdealAt(base, config.swing, first, k) + SubstepDuration(phase, config)
    BY <1>1, IdealOfNext
  <2>2. Ideal(phase'.generatedSubsteps) = IdealAt(base, config.swing, first, k + 1)
    BY DEF Ideal, IdealAt
  <2> QED
    BY <2>1, <2>2
<1>9. /\ phase.sinceEdge \in Nat /\ phase.sinceClockStep \in Nat
      /\ SubstepDuration(phase, config) \in Nat
      /\ sinceTick \in Nat /\ sinceTick <= MaxTick /\ MaxTick \in Nat
  BY <1>1, TimingFacts, PhaseTypes, DurationType, Bounds
<1>10. IdealAt(base, config.swing, first, k) \in Int
  BY <1>7, <1>9
<1> HIDE DEF k, base, first
<1>11. phase.sinceEdge - Ideal(phase'.generatedSubsteps)
         = phase.sinceClockStep - SubstepDuration(phase, config)
  BY <1>7, <1>8, <1>9, <1>10
<1> QED
  BY <1>6, <1>7, <1>9, <1>11

AllStepsBeforeEdge ==
    (/\ HearsEdges /\ config' = config /\ edges = 1
     /\ phase.clockPeriod # 0 /\ phase.sinceEdge - age >= phase.clockPeriod
     /\ SubstepBase(phase, config) >= 2 * MaxTick)
      => phase.generatedSubsteps = ClockMultiplier[config.rateIndex] - 1

LEMMA SubstepsAreComplete ==
    ASSUME TimingInv, [Next]_vars
    PROVE  AllStepsBeforeEdge
<1> DEFINE k == phase.generatedSubsteps
           base == SubstepBase(phase, config)
           multiplier == ClockMultiplier[config.rateIndex]
           first == (phase.stepCounter + k) % 2
           short == SubstepPart(base, config.swing, 0)
           duration == SubstepDuration(phase, config)
<1> SUFFICES ASSUME HearsEdges, config' = config, phase.clockPeriod # 0,
                    phase.sinceEdge - age >= phase.clockPeriod, base >= 2 * MaxTick,
                    k # multiplier - 1
             PROVE  FALSE
  BY DEF AllStepsBeforeEdge
<1>1. /\ config \in Configs /\ phase \in Phase /\ EdgesAgree /\ OnTime(phase, config, sinceTick)
      /\ config.swing \in 0 .. 11
  BY EdgesAreHeard, TimingFacts, ConfigTypes
<1>2. /\ k \in Nat /\ base \in Nat /\ multiplier \in Nat \ {0} /\ first \in Nat
      /\ phase.sinceEdge \in Nat /\ phase.sinceClockStep \in Nat /\ phase.clockPeriod \in Nat
      /\ age \in Nat /\ sinceTick \in Nat /\ sinceTick <= MaxTick /\ MaxTick \in Nat \ {0}
  <2>1. k \in Nat /\ base \in Nat /\ multiplier \in Nat \ {0} /\ phase.stepCounter \in Nat
    BY <1>1, PhaseTypes, SubstepBaseType, ConfigTypes
  <2>2. first \in Nat
    <3> HIDE DEF k
    <3> QED
      BY <2>1
  <2> QED
    BY <1>1, <2>1, <2>2, PhaseTypes, TimingFacts, Bounds
<1>3. k < multiplier - 1
  <2>1. k <= multiplier - 1
    BY <1>1 DEF OnTime
  <2> HIDE DEF k, multiplier
  <2> QED
    BY <1>2, <2>1
<1>4. 100 * short >= 68 * base /\ short \in Nat /\ duration \in Nat
  BY <1>1, <1>2, SubstepParts, DurationType
<1>5. short >= MaxTick
  <2> HIDE DEF short, base
  <2> QED
    BY <1>2, <1>4
<1>6. /\ phase.sinceEdge - phase.sinceClockStep = IdealAt(base, config.swing, first, k)
      /\ phase.sinceClockStep - sinceTick <= duration
  BY <1>1, <1>3, <1>5 DEF OnTime
<1>7. IdealAt(base, config.swing, first, k + 1) = IdealAt(base, config.swing, first, k) + duration
  BY <1>1, IdealOfNext
<1>8. 100 * IdealAt(base, config.swing, first, k + 1) + 68 * base <= 100 * (multiplier * base)
  <2>1. k + 1 \in 0 .. multiplier - 1
    <3> HIDE DEF k, multiplier
    <3> QED
      BY <1>2, <1>3
  <2> HIDE DEF k, multiplier, base, first
  <2> QED
    BY <1>1, <1>2, <2>1, IdealBeforeEdge
<1>9. multiplier * base <= phase.clockPeriod
  <2>1. base # 1
    <3> HIDE DEF base
    <3> QED
      BY <1>2
  <2> QED
    BY <1>1, <2>1, SubstepBaseType
<1>10. IdealAt(base, config.swing, first, k) \in Nat /\ multiplier * base \in Nat
  <2> HIDE DEF k, multiplier, base, first
  <2>1. IdealAt(base, config.swing, first, k) \in Nat
    BY <1>1, <1>2, IdealType
  <2>2. multiplier * base \in Nat
    BY <1>2
  <2> QED
    BY <2>1, <2>2
<1> DEFINE ideal == IdealAt(base, config.swing, first, k)
           whole == multiplier * base
<1>11. /\ phase.sinceEdge - phase.sinceClockStep = ideal
       /\ 100 * (ideal + duration) + 68 * base <= 100 * whole
       /\ whole <= phase.clockPeriod /\ ideal \in Nat /\ whole \in Nat
  BY <1>6, <1>7, <1>8, <1>9, <1>10
<1> HIDE DEF k, multiplier, base, first, short, duration, ideal, whole
<1>12. phase.sinceEdge - sinceTick <= ideal + duration
  BY <1>2, <1>4, <1>6, <1>11
<1>13. phase.sinceEdge >= phase.clockPeriod
  BY <1>2
<1>14. 68 * base > 100 * MaxTick
  BY <1>2
<1> QED
  BY <1>2, <1>4, <1>11, <1>12, <1>13, <1>14

\* A clock is multiplied without drift and, unless it gets faster, in full.
THEOREM MultipliedAlwaysInTime == Spec => MultipliedInTime
<1>1. TimingInv /\ [Next]_vars => StepWithoutDrift /\ AllStepsBeforeEdge
  BY SubstepsDoNotDrift, SubstepsAreComplete
<1>2. TimingInv /\ [Next]_vars
        => [(/\ Clocked /\ config' = config
             /\ phase'.generatedSubsteps = phase.generatedSubsteps + 1
             /\ SubstepPart(SubstepBase(phase, config), config.swing, 0) >= MaxTick)
              => phase.sinceEdge - Ideal(phase'.generatedSubsteps) \in 0 .. MaxTick]_vars
  BY <1>1 DEF StepWithoutDrift
<1>3. TimingInv /\ [Next]_vars
        => [(/\ HearsEdges /\ config' = config /\ edges = 1
             /\ phase.clockPeriod # 0 /\ phase.sinceEdge - age >= phase.clockPeriod
             /\ SubstepBase(phase, config) >= 2 * MaxTick)
              => phase.generatedSubsteps = ClockMultiplier[config.rateIndex] - 1]_vars
  BY <1>1 DEF AllStepsBeforeEdge
<1>4. Spec => MultipliedStepsDoNotDrift
  BY <1>2, TimingAlwaysInv, PTL DEF Spec, MultipliedStepsDoNotDrift
<1>5. Spec => MultipliedInFull
  BY <1>3, TimingAlwaysInv, PTL DEF Spec, MultipliedInFull
<1> QED
  BY <1>4, <1>5, PTL DEF MultipliedInTime

-----------------------------------------------------------------------------
(***************************************************************************)
(* The timer of FREE and RESET                                             *)
(***************************************************************************)

\* The product of a swung pair fits its word: not so at the slow rates.
PairFits(c) ==
    c.swing # 0 => 2 * FreeRate[c.rateIndex] * LongPercent(c.swing) < WordModulus

\* The timer of the next step has not been missed by the last tick.
FreeOnTime(p, c, sinceLook) ==
    PairFits(c) /\ c.enabled /\ c.syncMode # "Clock"
      => p.sinceStep - sinceLook <= FreeDuration(c, p.stepCounter)

FreeInv == TimingInv /\ FreeOnTime(phase, config, sinceTick)

LEMMA FreeDurationIs ==
    ASSUME NEW c \in Configs, PairFits(c), NEW counter \in Nat
    PROVE  FreeDuration(c, counter) = SubstepPart(FreeRate[c.rateIndex], c.swing, counter)
<1> DEFINE base == FreeRate[c.rateIndex]
           product == 2 * base * LongPercent(c.swing)
<1>1. base \in Nat /\ c.swing \in 0 .. 11
  BY ConfigTypes
<1>2. CASE c.swing = 0
  BY <1>2 DEF FreeDuration, SubstepPart
<1>3. CASE c.swing # 0
  <2>1. product \in Nat
    <3> HIDE DEF base
    <3> QED
      BY <1>1, LongPercentType, PercentOf
  <2>2. product < WordModulus
    BY <1>3 DEF PairFits
  <2>3. product % WordModulus = product
    <3> HIDE DEF product
    <3>1. product \in 0 .. WordModulus - 1 /\ product \in Int
      BY <2>1, <2>2, Bounds
    <3> QED
      BY <3>1, Bounds, RemainderOf
  <2> QED
    BY <1>3, <2>3 DEF FreeDuration, SubstepPart
<1> QED
  BY <1>2, <1>3

LEMMA FreeDurationBounds ==
    ASSUME NEW c \in Configs, PairFits(c), NEW counter \in Nat
    PROVE  /\ FreeDuration(c, counter) \in Nat
           /\ 100 * FreeDuration(c, counter) >= 68 * FreeRate[c.rateIndex]
           /\ 100 * FreeDuration(c, counter) <= 132 * FreeRate[c.rateIndex]
<1> DEFINE base == FreeRate[c.rateIndex]
           part(n) == SubstepPart(base, c.swing, n)
<1>1. base \in Nat /\ c.swing \in 0 .. 11 /\ counter + 1 \in Nat
  BY ConfigTypes
<1>2. FreeDuration(c, counter) = part(counter)
  BY FreeDurationIs
<1> HIDE DEF base
<1>3. /\ part(counter) \in Nat /\ 100 * part(counter) >= 68 * base
      /\ part(counter) + part(counter + 1) = 2 * base
  BY <1>1, SubstepParts
<1>4. part(counter + 1) \in Nat /\ 100 * part(counter + 1) >= 68 * base
  BY <1>1, SubstepParts
<1> HIDE DEF part
<1>5. 100 * part(counter) <= 132 * base
  BY <1>1, <1>3, <1>4
<1> QED
  BY <1>2, <1>3, <1>5 DEF base

LEMMA FreeStepKeepsInv ==
    ASSUME FreeInv, [Next]_vars
    PROVE  FreeInv'
<1>1. TimingInv' /\ TimingInv
  BY TimingStepKeepsInv DEF FreeInv
<1>2. config' \in Configs /\ phase' \in Phase /\ phase \in Phase /\ sinceTick \in Nat
      /\ config \in Configs
  BY <1>1, TimingFacts DEF TimingInv, PhaseFits
<1>3. phase.sinceStep \in Nat /\ phase'.sinceStep \in Nat /\ phase'.stepCounter \in Nat
      /\ phase.stepCounter \in Nat
  BY <1>2, PhaseTypes
<1> SUFFICES ASSUME PairFits(config'), config'.enabled, config'.syncMode # "Clock"
             PROVE  phase'.sinceStep - sinceTick' <= FreeDuration(config', phase'.stepCounter)
  BY <1>1 DEF FreeInv, FreeOnTime
<1>4. FreeDuration(config', phase'.stepCounter) \in Nat
  BY <1>2, <1>3, FreeDurationBounds
<1>5. CASE TimePasses
  <2>1. config' = config /\ sinceTick' = sinceTick + 1 /\ ~Clocked
        /\ config.enabled /\ config.syncMode # "Clock"
    BY <1>5 DEF TimePasses, Clocked
  <2>2. phase' = [phase EXCEPT !.sinceStep = @ + 1]
    BY <1>5, <2>1 DEF TimePasses
  <2>3. phase'.sinceStep = phase.sinceStep + 1 /\ phase'.stepCounter = phase.stepCounter
    BY <1>2, <2>2 DEF Phase
  <2>4. phase.sinceStep - sinceTick <= FreeDuration(config, phase.stepCounter)
    BY <2>1 DEF FreeInv, FreeOnTime
  <2>5. phase'.sinceStep - sinceTick' = phase.sinceStep - sinceTick
    BY <1>2, <1>3, <2>1, <2>3
  <2> QED
    BY <2>1, <2>3, <2>4, <2>5
<1>6. CASE ClockEdge \/ UNCHANGED vars
  BY <1>6 DEF ClockEdge, vars, FreeInv, FreeOnTime
<1>7. CASE Tick
  <2>1. PICK c \in Configs :
          /\ config' = c /\ sinceTick' = 0
          /\ \/ ResetByEdge(Configured(c), c)
             \/ Free(Configured(c), c)
             \/ Edges(Configured(c), c)
             \/ Substep(Configured(c), c)
             \/ Bypassed(Configured(c), c)
    BY <1>7 DEF Tick
  <2> DEFINE p == Configured(c)
  <2>2. p \in Phase
    BY <1>1, ConfiguredIs
  <2>3. ResetByEdge(p, c) \/ Free(p, c)
    BY <2>1 DEF Edges, Substep, Bypassed
  <2>4. CASE phase'.sinceStep = 0
    BY <1>4, <2>1, <2>4
  <2>5. CASE phase'.sinceStep # 0
    <3>1. Free(p, c) /\ ~FreeStepIsDue(p, c)
      <4>1. ~ResetByEdge(p, c)
        <5> HIDE DEF p
        <5> QED
          BY <2>2, <2>5 DEF ResetByEdge, Phase
      <4>2. Free(p, c)
        BY <2>3, <4>1
      <4>3. FreeStepIsDue(p, c) => phase'.sinceStep = 0
        <5> HIDE DEF p
        <5> QED
          BY <2>2, <4>2 DEF Free, Phase
      <4> QED
        BY <2>5, <4>2, <4>3
    <3>2. phase' = p
      BY <3>1 DEF Free
    <3>3. ~(phase'.sinceStep >= FreeDuration(config', phase'.stepCounter))
      BY <2>1, <3>1, <3>2 DEF FreeStepIsDue
    <3> QED
      BY <1>3, <1>4, <2>1, <3>3
  <2> QED
    BY <2>4, <2>5
<1>8. CASE LinkFromA
  <2>1. phase'.sinceStep = 0 /\ sinceTick' = sinceTick
    BY <1>8, ResetPhaseFields DEF LinkFromA, ResetPhase
  <2> QED
    BY <1>2, <1>4, <2>1
<1> QED
  BY <1>5, <1>6, <1>7, <1>8 DEF Next

SwingHolds ==
    FreeStep /\ PairFits(config) => LET pair == 2 * FreeRate[config.rateIndex]
                IN  /\ 3 * phase.sinceStep >= pair
                    /\ 3 * (phase.sinceStep - MaxTick) <= 2 * pair

LEMMA FreeStepsAreBounded ==
    ASSUME FreeInv, [Next]_vars
    PROVE  SwingHolds
<1> DEFINE base == FreeRate[config.rateIndex]
           duration == FreeDuration(config, phase.stepCounter)
<1> SUFFICES ASSUME FreeStep, PairFits(config)
             PROVE  /\ 3 * phase.sinceStep >= 2 * base
                    /\ 3 * (phase.sinceStep - MaxTick) <= 2 * (2 * base)
  BY DEF SwingHolds
<1>1. /\ config.enabled /\ config.syncMode = "Free" /\ config' = config
      /\ phase'.stepCounter # phase.stepCounter
      /\ config \in Configs /\ phase \in Phase /\ TimingInv
      /\ Configured(config) = phase
  BY TimingFacts DEF FreeStep, FreeInv, Configured
<1>2. Tick
  BY DEF FreeStep
<1>3. \/ ResetByEdge(phase, config)
      \/ Free(phase, config)
      \/ Edges(phase, config)
      \/ Substep(phase, config)
      \/ Bypassed(phase, config)
  BY <1>1, <1>2 DEF Tick
<1>4. Free(phase, config)
  BY <1>1, <1>3 DEF ResetByEdge, Edges, Substep, Bypassed
<1>5. phase.sinceStep >= duration
  <2>1. FreeStepIsDue(phase, config)
    BY <1>1, <1>4 DEF Free
  <2> QED
    BY <2>1 DEF FreeStepIsDue
<1>6. phase.sinceStep - sinceTick <= duration
  BY <1>1 DEF FreeInv, FreeOnTime
<1>7. /\ phase.sinceStep \in Nat /\ phase.stepCounter \in Nat /\ base \in Nat
      /\ sinceTick \in Nat /\ sinceTick <= MaxTick /\ MaxTick \in Nat
  BY <1>1, PhaseTypes, ConfigTypes, TimingFacts, Bounds
<1>8. duration \in Nat /\ 100 * duration >= 68 * base /\ 100 * duration <= 132 * base
  BY <1>1, <1>7, FreeDurationBounds
<1> HIDE DEF base, duration
<1> QED
  BY <1>5, <1>6, <1>7, <1>8

\* Swing stays between a third and two thirds of a pair at every rate whose product
\* fits its word.
THEOREM SwingHoldsInAWord == Spec => [][SwingHolds]_vars
<1>1. Init => FreeOnTime(phase, config, sinceTick)
  <2> SUFFICES ASSUME Init, PairFits(config)
               PROVE  phase.sinceStep - sinceTick <= FreeDuration(config, phase.stepCounter)
    BY DEF FreeOnTime
  <2>1. phase.sinceStep = 0 /\ phase.stepCounter = 0 /\ sinceTick = 0 /\ config \in Configs
        /\ 0 \in Nat
    BY DEF Init, ResetPhase
  <2>2. FreeDuration(config, phase.stepCounter) \in Nat
    BY <2>1, FreeDurationBounds
  <2> QED
    BY <2>1, <2>2
<1>2. Init /\ TimingInv => FreeInv
  BY <1>1 DEF FreeInv
<1>3. FreeInv /\ [Next]_vars => FreeInv'
  BY FreeStepKeepsInv
<1>4. Spec => []FreeInv
  BY <1>2, <1>3, TimingAlwaysInv, PTL DEF Spec
<1>5. FreeInv /\ [Next]_vars => SwingHolds
  BY FreeStepsAreBounded
<1> QED
  BY <1>4, <1>5, PTL DEF Spec

\* Where every configuration the panel sets has such a rate, all steps are bounded.
THEOREM SwingAlwaysBounded ==
    ASSUME \A c \in Configs : PairFits(c)
    PROVE  Spec => SwingStaysBounded
<1>1. TimingInv => PairFits(config)
  BY TimingFacts
<1>2. TimingInv /\ [SwingHolds]_vars
        => [FreeStep => LET pair == 2 * FreeRate[config.rateIndex]
                        IN  /\ 3 * phase.sinceStep >= pair
                            /\ 3 * (phase.sinceStep - MaxTick) <= 2 * pair]_vars
  BY <1>1 DEF SwingHolds
<1> QED
  BY <1>2, TimingAlwaysInv, SwingHoldsInAWord, PTL DEF SwingStaysBounded
=============================================================================
