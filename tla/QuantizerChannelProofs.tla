----------------------- MODULE QuantizerChannelProofs -----------------------
(***************************************************************************)
(* Proofs about the pure operators of NoteSelection and about one step of a*)
(* QuantizerChannel, for every scale, range and unit: what the search finds,*)
(* what the hold band keeps, where a walk and a glide can lead, and that a *)
(* step keeps the types.  The modules that run a channel cite them.        *)
(***************************************************************************)
EXTENDS QuantizerChannel, FiniteSetTheorems, WellFoundedInduction, TLAPS

\* The order of the naturals as a set of pairs: in this form the library says that
\* it is well founded.
Below == {ss \in Nat \X Nat : ss[1] < ss[2]}

LEMMA BelowWF == IsWellFoundedOn(Below, Nat)
  BY NatLessThanWellFounded DEF OpToRel, Below

\* Every set of naturals has a least element. This stands in for induction below:
\* a counterexample would have a least one.
LEMMA LeastExists ==
    ASSUME NEW S \in SUBSET Nat, S # {}
    PROVE  \E x \in S : \A y \in S : x <= y
<1>2. \E x \in S : \A y \in S : ~(<<y, x>> \in Below)
  BY BelowWF, WFMin
<1>3. PICK x \in S : \A y \in S : ~(<<y, x>> \in Below)
  BY <1>2
<1>4. ASSUME NEW y \in S PROVE x <= y
  <2>1. y \in Nat /\ x \in Nat
    OBVIOUS
  <2>2. ~(<<y, x>> \in Below)
    BY <1>3
  <2>3. ~(y < x)
    BY <2>1, <2>2 DEF Below
  <2> QED
    BY <2>1, <2>3
<1> QED
  BY <1>4

\* Min and Max of the community modules are what their names say.
LEMMA LeastIsMin ==
    ASSUME NEW S \in SUBSET Nat, S # {}
    PROVE  Min(S) \in S /\ \A y \in S : Min(S) <= y
  BY LeastExists DEF Min

LEMMA GreatestIsMax ==
    ASSUME NEW bound \in Nat, NEW S \in SUBSET (0 .. bound), S # {}
    PROVE  Max(S) \in S /\ \A y \in S : y <= Max(S)
<1> DEFINE Gaps == {bound - y : y \in S}
<1>1. Gaps \in SUBSET Nat /\ Gaps # {}
  OBVIOUS
<1> HIDE DEF Gaps
<1>2. PICK gap \in Gaps : \A other \in Gaps : gap <= other
  BY <1>1, LeastExists
<1>3. PICK x \in S : gap = bound - x
  BY <1>2 DEF Gaps
<1>4. ASSUME NEW y \in S PROVE x >= y
  <2>1. bound - y \in Gaps
    BY DEF Gaps
  <2>2. bound - x <= bound - y
    BY <1>2, <1>3, <2>1
  <2> QED
    BY <2>2
<1>5. Max(S) \in S /\ \A y \in S : Max(S) >= y
  BY <1>4 DEF Max
<1> QED
  BY <1>5

\* A power of two counts the subsets of a set, of which there is one at least.
LEMMA PowerOfTwoPositive ==
    ASSUME NEW n \in Nat
    PROVE  2 ^ n \in Nat \ {0}
<1> DEFINE S == 1 .. n
<1>1. IsFiniteSet(S) /\ Cardinality(S) = n
  BY FS_Interval
<1>2. IsFiniteSet(SUBSET S) /\ Cardinality(SUBSET S) = 2 ^ n
  BY <1>1, FS_SUBSET
<1>3. SUBSET S # {}
  OBVIOUS
<1>4. Cardinality(SUBSET S) \in Nat /\ Cardinality(SUBSET S) # 0
  BY <1>2, <1>3, FS_EmptySet, FS_CardinalityType
<1> QED
  BY <1>2, <1>4

-----------------------------------------------------------------------------

(***************************************************************************)
(* Neighbours in the scale                                                 *)
(***************************************************************************)

\* A scale that is not empty has a note in the range.
LEMMA SomeNoteIsSelected ==
    ASSUME NEW notes \in SUBSET PitchClass, notes # {}
    PROVE  \E n \in Semitone : IsSelected(notes, n)
<1>1. PICK n \in notes : TRUE
  OBVIOUS
<1>2. n \in PitchClass /\ n \in Semitone
  BY <1>1, PitchAssumption DEF PitchClass, Semitone
<1>3. n % NoteCount = n
  BY <1>2, PitchAssumption DEF PitchClass
<1> QED
  BY <1>1, <1>2, <1>3 DEF IsSelected

\* NextUp gives the first selected note above, or stays when there is none.
LEMMA UpwardNeighbour ==
    ASSUME NEW notes \in SUBSET PitchClass, NEW note \in Semitone
    PROVE  LET up == NextUp(notes, note)
           IN  /\ up \in Semitone /\ note <= up
               /\ up # note => IsSelected(notes, up)
               /\ \A n \in Semitone : IsSelected(notes, n) /\ note < n => up <= n /\ up # note
<1> DEFINE above == {n \in note + 1 .. MaxSemitone : IsSelected(notes, n)}
<1>1. above \in SUBSET Nat
  BY PitchAssumption DEF Semitone
<1>2. \A n \in Semitone : IsSelected(notes, n) /\ note < n => n \in above
  BY PitchAssumption DEF Semitone
<1>3. NextUp(notes, note) = IF above = {} THEN note ELSE Min(above)
  BY DEF NextUp
<1>4. \A n \in above : n \in Semitone /\ note < n /\ IsSelected(notes, n)
  BY PitchAssumption DEF Semitone
<1> HIDE DEF above
<1>5. CASE above = {}
  BY <1>2, <1>3, <1>5, PitchAssumption DEF Semitone
<1>6. CASE above # {}
  <2>1. Min(above) \in above /\ \A n \in above : Min(above) <= n
    BY <1>1, <1>6, LeastIsMin
  <2> QED
    BY <1>2, <1>3, <1>4, <1>6, <2>1, PitchAssumption DEF Semitone
<1> QED
  BY <1>5, <1>6

LEMMA DownwardNeighbour ==
    ASSUME NEW notes \in SUBSET PitchClass, NEW note \in Semitone
    PROVE  LET down == NextDown(notes, note)
           IN  /\ down \in Semitone /\ down <= note
               /\ down # note => IsSelected(notes, down)
               /\ \A n \in Semitone : IsSelected(notes, n) /\ n < note => n <= down /\ down # note
<1> DEFINE below == {n \in 0 .. note - 1 : IsSelected(notes, n)}
<1>1. below \in SUBSET (0 .. MaxSemitone) /\ MaxSemitone \in Nat
  BY PitchAssumption DEF Semitone
<1>2. \A n \in Semitone : IsSelected(notes, n) /\ n < note => n \in below
  BY PitchAssumption DEF Semitone
<1>3. NextDown(notes, note) = IF below = {} THEN note ELSE Max(below)
  BY DEF NextDown
<1>4. \A n \in below : n \in Semitone /\ n < note /\ IsSelected(notes, n)
  BY PitchAssumption DEF Semitone
<1> HIDE DEF below
<1>5. CASE below = {}
  BY <1>2, <1>3, <1>5, PitchAssumption DEF Semitone
<1>6. CASE below # {}
  <2>1. Max(below) \in below /\ \A n \in below : n <= Max(below)
    BY <1>1, <1>6, GreatestIsMax
  <2> QED
    BY <1>2, <1>3, <1>4, <1>6, <2>1, PitchAssumption DEF Semitone
<1> QED
  BY <1>5, <1>6

-----------------------------------------------------------------------------

\* The walk in a scale never leaves the range, however far it is asked to go. The
\* recursive function exists because no shortest walk fails to, and its values are
\* notes because no first one fails to be.
LEMMA StepInScaleType ==
    ASSUME NEW notes \in SUBSET PitchClass, NEW note \in Semitone, NEW steps \in Int
    PROVE  StepInScale(notes, note, steps) \in Semitone
<1> DEFINE move(n) == IF steps < 0 THEN NextDown(notes, n) ELSE NextUp(notes, n)
           body(f, i) == IF i = 0 THEN note
                         ELSE IF steps < 0 THEN NextDown(notes, f[i - 1])
                         ELSE NextUp(notes, f[i - 1])
           walks(k) == {g \in [0 .. k -> Semitone] : \A i \in 0 .. k : g[i] = body(g, i)}
           stuck == {k \in Nat : walks(k) = {}}
           walk == CHOOSE f : f = [i \in 0 .. MaxSemitone |-> body(f, i)]
           far == Clamp(IF steps < 0 THEN -steps ELSE steps, 0, MaxSemitone)
<1>1. \A n \in Semitone : NextUp(notes, n) \in Semitone /\ NextDown(notes, n) \in Semitone
  BY UpwardNeighbour, DownwardNeighbour
<1>2. stuck = {}
  <2> SUFFICES ASSUME stuck # {} PROVE FALSE
    OBVIOUS
  <2>1. PICK k \in stuck : \A other \in stuck : k <= other
    BY LeastExists
  <2>2. k # 0
    <3>1. [i \in 0 .. 0 |-> note] \in walks(0)
      OBVIOUS
    <3> QED
      BY <3>1, <2>1
  <2>3. k - 1 \in Nat /\ k - 1 \notin stuck
    BY <2>1, <2>2
  <2>4. PICK g \in walks(k - 1) : TRUE
    BY <2>3
  <2> DEFINE h == [i \in 0 .. k |-> IF i = k THEN body(g, k) ELSE g[i]]
  <2>5. g \in [0 .. k - 1 -> Semitone] /\ \A i \in 0 .. k - 1 : g[i] = body(g, i)
    BY <2>4
  <2>6. body(g, k) \in Semitone
    BY <1>1, <2>2, <2>3, <2>5
  <2>7. h \in [0 .. k -> Semitone]
    BY <2>3, <2>5, <2>6
  <2>8. \A i \in 0 .. k : i # 0 => h[i - 1] = g[i - 1]
    BY <2>1
  <2>9. \A i \in 0 .. k : h[i] = body(h, i)
    <3> TAKE i \in 0 .. k
    <3>1. body(h, i) = body(g, i)
      BY <2>8
    <3>2. h[i] = body(g, i)
      BY <2>1, <2>5
    <3> QED
      BY <3>1, <3>2
  <2>10. h \in walks(k)
    BY <2>7, <2>9
  <2> QED
    BY <2>1, <2>10
<1>3. PICK g \in walks(MaxSemitone) : TRUE
  BY <1>2, PitchAssumption
<1>4. g = [i \in 0 .. MaxSemitone |-> body(g, i)]
  BY <1>3
<1>5. walk = [i \in 0 .. MaxSemitone |-> body(walk, i)]
  BY <1>4
<1>6. StepInScale(notes, note, steps) = walk[far]
  BY DEF StepInScale
<1>7. far \in 0 .. MaxSemitone
  BY PitchAssumption DEF Clamp
<1> DEFINE astray == {i \in 0 .. MaxSemitone : walk[i] \notin Semitone}
<1>8. astray = {}
  <2> HIDE DEF walk
  <2> SUFFICES ASSUME astray # {} PROVE FALSE
    OBVIOUS
  <2>1. astray \in SUBSET Nat
    BY PitchAssumption
  <2>2. PICK i \in astray : \A other \in astray : i <= other
    BY <2>1, LeastExists
  <2>3. walk[i] = body(walk, i)
    BY <1>5
  <2>4. i # 0
    BY <2>2, <2>3
  <2>5. i - 1 \in 0 .. MaxSemitone /\ i - 1 \notin astray
    BY <2>2, <2>4, PitchAssumption
  <2> QED
    BY <1>1, <2>2, <2>3, <2>4, <2>5
<1> HIDE DEF walk, far
<1> QED
  BY <1>6, <1>7, <1>8

-----------------------------------------------------------------------------

(***************************************************************************)
(* The search for the nearest note and the hold band                       *)
(***************************************************************************)

LEMMA NotesLieApart ==
    ASSUME NEW a \in Int, NEW b \in Int
    PROVE  /\ a * One \in Int
           /\ a < b => a * One + One <= b * One
           /\ (b - a) * One = b * One - a * One
  BY PitchAssumption

\* What the outward search promises: nearest, and of two the higher.
IsNearest(notes, near, input) ==
    /\ near \in Semitone /\ IsSelected(notes, near)
    /\ \A n \in Semitone : IsSelected(notes, n) =>
         \/ Distance(near, input) < Distance(n, input)
         \/ Distance(near, input) = Distance(n, input) /\ n <= near

LEMMA WholeSemitones ==
    ASSUME NEW input \in Pitch
    PROVE  /\ input \div One \in Semitone
           /\ input = (input \div One) * One + (input % One)
           /\ input % One \in 0 .. One - 1
<1>1. input \in Nat /\ One \in Nat \ {0} /\ MaxSemitone \in Nat
  BY PitchAssumption DEF Pitch
<1>2. input = One * (input \div One) + (input % One) /\ (input % One) \in 0 .. One - 1
  BY <1>1
<1>3. input \div One \in Int /\ input \div One >= 0
  BY <1>1
<1>4. input \div One <= MaxSemitone
  <2> SUFFICES ASSUME input \div One > MaxSemitone PROVE FALSE
    BY <1>1, <1>3
  <2>1. MaxSemitone * One + One <= (input \div One) * One
    BY <1>1, <1>3, NotesLieApart
  <2>2. input <= MaxSemitone * One
    BY <1>1 DEF Pitch
  <2>3. (input \div One) * One = One * (input \div One)
    BY <1>1, <1>3
  <2>4. MaxSemitone * One \in Int /\ One * (input \div One) \in Int
    BY <1>1, <1>3
  <2> QED
    BY <1>1, <1>2, <2>1, <2>2, <2>3, <2>4
<1>5. One * (input \div One) = (input \div One) * One
  BY <1>1, <1>3
<1> QED
  BY <1>1, <1>2, <1>3, <1>4, <1>5 DEF Semitone

\* The outward search finds the nearest note of any scale that is not empty. Its
\* first successful round has no candidate that was clamped: the end of the range
\* would have been a candidate of an earlier round. So only the two notes at that
\* distance from the whole semitone below the input are left, and the fraction of
\* the input decides between them.
THEOREM NearestIsNearest ==
    ASSUME NEW notes \in SUBSET PitchClass, notes # {}, NEW input \in Pitch
    PROVE  IsNearest(notes, Nearest(notes, input), input)
<1> DEFINE floor == input \div One
           part == input % One
           Candidates(k) == {n \in {LowerBound(input, k), UpperBound(input, k)} :
                                IsSelected(notes, n)}
           Rounds == {k \in Semitone : Candidates(k) # {}}
           first == Min(Rounds)
<1>1. /\ floor \in 0 .. MaxSemitone /\ MaxSemitone \in Nat
      /\ input = floor * One + part /\ part \in 0 .. One - 1
  BY WholeSemitones, PitchAssumption DEF Semitone
<1>2. \A k \in Semitone :
         /\ LowerBound(input, k) = IF k <= floor THEN floor - k ELSE 0
         /\ UpperBound(input, k) = IF k = 0 \/ floor + 1 + k <= MaxSemitone
                                   THEN floor + 1 + k ELSE MaxSemitone
  BY <1>1 DEF LowerBound, UpperBound, Clamp, Semitone
<1>3. \A n \in Semitone : IsSelected(notes, n) =>
         (IF n <= floor THEN floor - n ELSE n - floor - 1) \in Rounds
  <2> SUFFICES ASSUME NEW n \in Semitone, IsSelected(notes, n),
                      NEW k, k = IF n <= floor THEN floor - n ELSE n - floor - 1
               PROVE  k \in Rounds
    OBVIOUS
  <2>1. k \in Semitone
    BY <1>1 DEF Semitone
  <2>2. n \in {LowerBound(input, k), UpperBound(input, k)}
    BY <1>1, <1>2, <2>1 DEF Semitone
  <2> QED
    BY <2>1, <2>2
<1> HIDE DEF floor, part
<1>4. Rounds # {} /\ Rounds \in SUBSET Nat
  <2>1. Rounds \in SUBSET Nat
    BY PitchAssumption DEF Semitone
  <2>2. PICK n \in Semitone : IsSelected(notes, n)
    BY SomeNoteIsSelected
  <2> QED
    BY <1>3, <2>1, <2>2
<1>5. first \in Rounds /\ \A k \in Rounds : first <= k
  BY <1>4, LeastIsMin
<1>6. first \in Semitone /\ Candidates(first) # {}
  BY <1>5
<1>7. \A n \in Semitone : IsSelected(notes, n) => n <= floor - first \/ n >= floor + 1 + first
  <2> TAKE n \in Semitone
  <2> HAVE IsSelected(notes, n)
  <2>1. first <= IF n <= floor THEN floor - n ELSE n - floor - 1
    BY <1>3, <1>5
  <2> HIDE DEF first
  <2> QED
    BY <1>1, <1>6, <2>1 DEF Semitone
<1>8. \A n \in Candidates(first) : n \in Semitone /\ IsSelected(notes, n)
  BY DEF IsSelected
<1> HIDE DEF first
<1>9. \A n \in Candidates(first) : n \in {floor - first, floor + 1 + first}
  <2> TAKE n \in Candidates(first)
  <2>1. n = LowerBound(input, first) \/ n = UpperBound(input, first)
    OBVIOUS
  <2>2. n \in Semitone /\ (n <= floor - first \/ n >= floor + 1 + first)
    BY <1>7, <1>8
  <2> QED
    BY <1>1, <1>2, <1>6, <2>1, <2>2 DEF Semitone
<1> DEFINE found == Candidates(first)
<1>10. /\ found # {} /\ found \in SUBSET (0 .. MaxSemitone) /\ found \in SUBSET Nat
  BY <1>1, <1>6, <1>8 DEF Semitone
<1> DEFINE near == Nearest(notes, input)
<1>11. near = IF RoundsUp(input) THEN Max(found) ELSE Min(found)
  BY DEF Nearest, first
<1> HIDE DEF found
<1>12. /\ near \in found
       /\ RoundsUp(input) => \A n \in found : n <= near
       /\ ~RoundsUp(input) => \A n \in found : near <= n
  <2>1. Min(found) \in found /\ \A n \in found : Min(found) <= n
    BY <1>10, LeastIsMin
  <2>2. Max(found) \in found /\ \A n \in found : n <= Max(found)
    BY <1>1, <1>10, GreatestIsMax
  <2> QED
    BY <1>11, <2>1, <2>2
<1> HIDE DEF near
<1>13. near \in Semitone /\ IsSelected(notes, near) /\ near \in {floor - first, floor + 1 + first}
  BY <1>8, <1>9, <1>12 DEF found
<1>14. \A n \in found : n \in {floor - first, floor + 1 + first}
  BY <1>9 DEF found
<1>15. ASSUME NEW n \in Semitone, IsSelected(notes, n)
       PROVE  \/ Distance(near, input) < Distance(n, input)
              \/ Distance(near, input) = Distance(n, input) /\ n <= near
  <2>1. n <= floor - first \/ n >= floor + 1 + first
    BY <1>7, <1>15
  <2> DEFINE low == (floor - first) * One
             high == (floor + 1 + first) * One
  <2>2. floor \in Int /\ first \in Nat /\ n \in Int /\ One \in Nat \ {0} /\ part \in Int
    BY <1>1, <1>6, PitchAssumption DEF Semitone
  <2>3. floor * One - low = first * One /\ high - floor * One = first * One + One
    BY <2>2
  <2>4. low \in Int /\ high \in Int /\ floor * One \in Int /\ n * One \in Int /\ first * One \in Nat
    BY <2>2
  <2>5. n < floor - first => n * One + One <= low
    BY <2>2, NotesLieApart
  <2>6. n > floor + 1 + first => high + One <= n * One
    BY <2>2, NotesLieApart
  <2>7. RoundsUp(input) <=> 2 * part >= One
    BY <2>2, PitchAssumption DEF RoundsUp, part
  <2>8. n = floor - first \/ n = floor + 1 + first => n \in found
    BY <1>1, <1>2, <1>6, <1>15, <2>2 DEF found, Semitone
  <2>9. ~RoundsUp(input) /\ n = floor - first => near = n
    BY <1>12, <1>13, <2>2, <2>8
  <2>10. RoundsUp(input) /\ n = floor + 1 + first => near = n
    BY <1>12, <1>13, <2>2, <2>8
  <2>11. near * One = IF near = floor - first THEN low ELSE high
    BY <1>13
  <2>12. input \in Int /\ input = floor * One + part /\ part \in 0 .. One - 1
    BY <1>1, <2>2, <2>4
  <2>13. n = floor - first => n * One = low
    OBVIOUS
  <2>14. n = floor + 1 + first => n * One = high
    OBVIOUS
  <2>15. near = floor - first \/ near = floor + 1 + first
    BY <1>13
  <2> HIDE DEF low, high
  <2>16. CASE near = floor - first
    <3>1. Distance(near, input) = first * One + part
      BY <2>2, <2>3, <2>4, <2>11, <2>12, <2>16 DEF Distance
    <3>2. CASE n < floor - first
      <4>1. Distance(n, input) >= first * One + One + part
        BY <2>2, <2>3, <2>4, <2>5, <2>12, <3>2 DEF Distance
      <4>2. Distance(n, input) \in Int
        BY <2>2, <2>4, <2>12 DEF Distance
      <4> QED
        BY <2>2, <2>4, <2>12, <3>1, <4>1, <4>2
    <3>3. CASE n = floor - first
      BY <2>2, <2>16, <3>3
    <3>4. CASE n = floor + 1 + first
      <4>1. ~RoundsUp(input)
        BY <2>2, <2>10, <2>16, <3>4
      <4>2. Distance(n, input) = first * One + One - part
        BY <2>2, <2>3, <2>4, <2>12, <2>14, <3>4 DEF Distance
      <4> QED
        BY <2>2, <2>4, <2>7, <2>12, <3>1, <4>1, <4>2
    <3>5. CASE n > floor + 1 + first
      <4>1. Distance(n, input) >= first * One + One + One - part
        BY <2>2, <2>3, <2>4, <2>6, <2>12, <3>5 DEF Distance
      <4>2. Distance(n, input) \in Int
        BY <2>2, <2>4, <2>12 DEF Distance
      <4>3. ~RoundsUp(input) \/ RoundsUp(input)
        OBVIOUS
      <4> QED
        BY <2>2, <2>4, <2>12, <3>1, <4>1, <4>2
    <3> QED
      BY <2>1, <2>2, <3>2, <3>3, <3>4, <3>5
  <2>17. CASE near = floor + 1 + first
    <3>1. Distance(near, input) = first * One + One - part /\ near # floor - first
      BY <2>2, <2>3, <2>4, <2>11, <2>12, <2>17 DEF Distance
    <3>2. CASE n < floor - first
      <4>1. Distance(n, input) >= first * One + One + part /\ n < near
        BY <2>2, <2>3, <2>4, <2>5, <2>12, <2>17, <3>2 DEF Distance
      <4>2. Distance(n, input) \in Int
        BY <2>2, <2>4, <2>12 DEF Distance
      <4> QED
        BY <2>2, <2>17, <2>4, <2>12, <3>1, <4>1, <4>2
    <3>3. CASE n = floor - first
      <4>1. RoundsUp(input) /\ n < near
        BY <2>2, <2>9, <2>17, <3>3
      <4>2. Distance(n, input) = first * One + part
        BY <2>2, <2>3, <2>4, <2>12, <2>13, <3>3 DEF Distance
      <4> QED
        BY <2>2, <2>17, <2>4, <2>7, <2>12, <3>1, <4>1, <4>2
    <3>4. CASE n = floor + 1 + first
      BY <2>2, <2>17, <3>4
    <3>5. CASE n > floor + 1 + first
      <4>1. Distance(n, input) >= first * One + One + One - part
        BY <2>2, <2>3, <2>4, <2>6, <2>12, <3>5 DEF Distance
      <4>2. Distance(n, input) \in Int
        BY <2>2, <2>4, <2>12 DEF Distance
      <4> QED
        BY <2>2, <2>4, <2>12, <3>1, <4>1, <4>2
    <3> QED
      BY <2>1, <2>2, <3>2, <3>3, <3>4, <3>5
  <2> QED
    BY <2>15, <2>16, <2>17
<1> QED
  BY <1>13, <1>15 DEF near, IsNearest

\* Quantizing gives a note, of the scale unless that is empty.
LEMMA QuantizedIsNote ==
    ASSUME NEW notes \in SUBSET PitchClass, NEW last \in Semitone \cup {NoNote},
           NEW input \in Pitch
    PROVE  /\ Quantized(notes, last, input) \in Semitone
           /\ notes # {} => IsSelected(notes, Quantized(notes, last, input))
           /\ Remembered(notes, Quantized(notes, last, input)) \in Semitone \cup {NoNote}
<1>1. 0 \in Semitone
  BY PitchAssumption DEF Semitone
<1>2. CASE notes = {}
  BY <1>1, <1>2 DEF Quantized, Remembered
<1>3. CASE notes # {} /\ IsHeld(notes, last, input)
  BY <1>3 DEF Quantized, Remembered, IsHeld, IsSelected
<1>4. CASE notes # {} /\ ~IsHeld(notes, last, input)
  <2>1. IsNearest(notes, Nearest(notes, input), input)
    BY <1>4, NearestIsNearest
  <2> QED
    BY <1>4, <2>1 DEF Quantized, Remembered, IsNearest
<1> QED
  BY <1>2, <1>3, <1>4

\* A semitone has an even number of units, so that the half distances are exact.
LEMMA HoldBand ==
    ASSUME NEW notes \in SUBSET PitchClass, NEW last \in Semitone
    PROVE  LET up == NextUp(notes, last)
               down == NextDown(notes, last)
           IN  /\ UpperThreshold(notes, last) \in Int /\ LowerThreshold(notes, last) \in Int
               /\ 2 * UpperThreshold(notes, last) = last * One + up * One + 2 * HysteresisAmount
               /\ 2 * LowerThreshold(notes, last) = last * One + down * One - 2 * HysteresisAmount
<1> DEFINE up == NextUp(notes, last)
           down == NextDown(notes, last)
<1>1. up \in Int /\ down \in Int /\ last \in Int
  BY UpwardNeighbour, DownwardNeighbour, PitchAssumption DEF Semitone
<1> HIDE DEF up, down
<1>2. PICK half \in Nat : One = 2 * half
  <2>1. One \in Nat /\ One % 2 = 0
    BY PitchAssumption
  <2>2. One = 2 * (One \div 2) + (One % 2)
    BY <2>1
  <2>3. One \div 2 \in Nat
    BY <2>1
  <2> QED
    BY <2>1, <2>2, <2>3
<1>3. ASSUME NEW gap \in Int PROVE 2 * ((gap * One) \div 2) = gap * One
  <2>1. gap * One = 2 * (gap * half)
    BY <1>2
  <2>2. gap * half \in Int
    BY <1>2
  <2>3. (2 * (gap * half)) \div 2 = gap * half
    BY <2>2
  <2> QED
    BY <2>1, <2>3
<1>4. HysteresisAmount \in Int /\ One \in Int
  BY PitchAssumption
<1>5. /\ 2 * (((up - last) * One) \div 2) = up * One - last * One
      /\ 2 * (((last - down) * One) \div 2) = last * One - down * One
  <2>1. up - last \in Int /\ last - down \in Int
    BY <1>1
  <2>2. (up - last) * One = up * One - last * One /\ (last - down) * One = last * One - down * One
    BY <1>1, NotesLieApart
  <2>3. 2 * (((up - last) * One) \div 2) = (up - last) * One
    BY <1>3, <2>1
  <2>4. 2 * (((last - down) * One) \div 2) = (last - down) * One
    BY <1>3, <2>1
  <2> QED
    BY <2>2, <2>3, <2>4
<1>6. up * One \in Int /\ down * One \in Int /\ last * One \in Int
  BY <1>1, <1>4
<1>7. ((up - last) * One) \div 2 \in Int /\ ((last - down) * One) \div 2 \in Int
  BY <1>1, <1>4
<1>8. UpperThreshold(notes, last) = last * One + (((up - last) * One) \div 2) + HysteresisAmount
  BY DEF UpperThreshold, up
<1>9. LowerThreshold(notes, last) = last * One - (((last - down) * One) \div 2) - HysteresisAmount
  BY DEF LowerThreshold, down
<1>10. /\ UpperThreshold(notes, last) \in Int /\ LowerThreshold(notes, last) \in Int
       /\ 2 * UpperThreshold(notes, last) = last * One + up * One + 2 * HysteresisAmount
       /\ 2 * LowerThreshold(notes, last) = last * One + down * One - 2 * HysteresisAmount
  BY <1>4, <1>5, <1>6, <1>7, <1>8, <1>9
<1> QED
  BY <1>10 DEF up, down

\* A note lies in its own hold band.
LEMMA ThresholdsEncloseNote ==
    ASSUME NEW notes \in SUBSET PitchClass, NEW last \in Semitone
    PROVE  /\ UpperThreshold(notes, last) \in Int /\ last * One <= UpperThreshold(notes, last)
           /\ LowerThreshold(notes, last) \in Int /\ LowerThreshold(notes, last) <= last * One
<1> DEFINE up == NextUp(notes, last)
           down == NextDown(notes, last)
<1>1. /\ up \in Int /\ down \in Int /\ last \in Int /\ last <= up /\ down <= last
      /\ One \in Nat /\ HysteresisAmount \in Nat
  BY UpwardNeighbour, DownwardNeighbour, PitchAssumption DEF Semitone
<1>2. /\ UpperThreshold(notes, last) \in Int /\ LowerThreshold(notes, last) \in Int
      /\ 2 * UpperThreshold(notes, last) = last * One + up * One + 2 * HysteresisAmount
      /\ 2 * LowerThreshold(notes, last) = last * One + down * One - 2 * HysteresisAmount
  BY HoldBand
<1> HIDE DEF up, down
<1>3. ASSUME NEW a \in Int, NEW b \in Int, a <= b PROVE a * One <= b * One
  <2>1. CASE a < b
    BY <1>1, <2>1, NotesLieApart
  <2> QED
    BY <1>1, <1>3, <2>1
<1>4. last * One <= up * One /\ down * One <= last * One
  BY <1>1, <1>3
<1>5. up * One \in Int /\ down * One \in Int /\ last * One \in Int
  BY <1>1
<1> QED
  BY <1>1, <1>2, <1>4, <1>5

\* Holding a note costs at most twice the hysteresis.
LEMMA HeldNoteIsClose ==
    ASSUME NEW notes \in SUBSET PitchClass, NEW last \in Semitone, NEW input \in Pitch,
           IsHeld(notes, last, input), NEW n \in Semitone, IsSelected(notes, n)
    PROVE  Distance(last, input) <= Distance(n, input) + 2 * HysteresisAmount
<1> DEFINE up == NextUp(notes, last)
           down == NextDown(notes, last)
<1>1. /\ up \in Int /\ down \in Int /\ last \in Int /\ n \in Int /\ input \in Int
      /\ n > last => up <= n /\ last < up
      /\ n < last => n <= down /\ down < last
  BY UpwardNeighbour, DownwardNeighbour, PitchAssumption DEF Semitone, Pitch
<1>2. /\ LowerThreshold(notes, last) <= input /\ input <= UpperThreshold(notes, last)
      /\ UpperThreshold(notes, last) \in Int /\ LowerThreshold(notes, last) \in Int
      /\ 2 * UpperThreshold(notes, last) = last * One + up * One + 2 * HysteresisAmount
      /\ 2 * LowerThreshold(notes, last) = last * One + down * One - 2 * HysteresisAmount
  BY HoldBand DEF IsHeld
<1> HIDE DEF up, down
<1>3. /\ up * One \in Int /\ down * One \in Int /\ last * One \in Int /\ n * One \in Int
      /\ One \in Nat /\ HysteresisAmount \in Nat
  BY <1>1, PitchAssumption
<1>4. /\ n > last => up * One <= n * One /\ last * One < up * One
      /\ n < last => n * One <= down * One /\ down * One < last * One
  <2>1. ASSUME NEW a \in Int, NEW b \in Int, a < b PROVE a * One < b * One
    BY <2>1, NotesLieApart, PitchAssumption
  <2> QED
    BY <1>1, <1>3, <2>1
<1>5. CASE n = last
  BY <1>1, <1>3, <1>5 DEF Distance
<1>6. CASE n > last
  BY <1>1, <1>2, <1>3, <1>4, <1>6 DEF Distance
<1>7. CASE n < last
  BY <1>1, <1>2, <1>3, <1>4, <1>7 DEF Distance
<1> QED
  BY <1>1, <1>5, <1>6, <1>7

\* The same input gives the same note again.
LEMMA QuantizedIsStable ==
    ASSUME NEW notes, NEW last, NEW input
    PROVE  LET note == Quantized(notes, last, input)
           IN  Quantized(notes, Remembered(notes, note), input) = note
  BY DEF Quantized, Remembered

\* Between a change from one note to another and the change back the input has moved
\* by more than the overlap of their hold bands. When the notes are neighbours the
\* bands say so; when others lie between them, which only an input that jumps can
\* skip, the nearest notes do, as the hysteresis is at most half a semitone.
THEOREM OppositeChangesLieApart ==
    ASSUME NEW notes \in SUBSET PitchClass,
           NEW from \in Semitone, NEW to \in Semitone,
           NEW there \in Pitch, NEW back \in Pitch, from # to,
           IsNearest(notes, to, there), ~IsHeld(notes, from, there),
           IsNearest(notes, from, back), ~IsHeld(notes, to, back)
    PROVE  /\ from < to => there - back > 2 * HysteresisAmount
           /\ to < from => back - there > 2 * HysteresisAmount
<1>1. ASSUME NEW low \in Semitone, NEW high \in Semitone, low < high,
             NEW x \in Pitch, NEW y \in Pitch,
             IsNearest(notes, high, x), ~IsHeld(notes, low, x),
             IsNearest(notes, low, y), ~IsHeld(notes, high, y)
      PROVE  x - y > 2 * HysteresisAmount
  <2> DEFINE up == NextUp(notes, low)
             down == NextDown(notes, high)
  <2>1. /\ up \in Semitone /\ low < up /\ up <= high /\ IsSelected(notes, up)
        /\ down \in Semitone /\ low <= down /\ down < high /\ IsSelected(notes, down)
    <3>1. IsSelected(notes, low) /\ IsSelected(notes, high)
      BY <1>1 DEF IsNearest
    <3>2. low \in Int /\ high \in Int /\ up \in Int /\ down \in Int
      BY UpwardNeighbour, DownwardNeighbour DEF Semitone
    <3>3. low <= up /\ up # low /\ up <= high /\ up \in Semitone /\ IsSelected(notes, up)
      BY <1>1, <3>1, UpwardNeighbour
    <3>4. down <= high /\ down # high /\ low <= down /\ down \in Semitone /\ IsSelected(notes, down)
      BY <1>1, <3>1, DownwardNeighbour
    <3> QED
      BY <3>2, <3>3, <3>4
  <2>2. /\ UpperThreshold(notes, low) \in Int /\ LowerThreshold(notes, high) \in Int
        /\ 2 * UpperThreshold(notes, low) = low * One + up * One + 2 * HysteresisAmount
        /\ 2 * LowerThreshold(notes, high) = high * One + down * One - 2 * HysteresisAmount
    BY HoldBand
  <2>3. /\ LowerThreshold(notes, low) <= low * One /\ LowerThreshold(notes, low) \in Int
        /\ UpperThreshold(notes, high) >= high * One /\ UpperThreshold(notes, high) \in Int
    BY ThresholdsEncloseNote
  <2> HIDE DEF up, down
  <2>4. /\ low \in Int /\ high \in Int /\ up \in Int /\ down \in Int /\ x \in Int /\ y \in Int
        /\ One \in Nat \ {0} /\ HysteresisAmount \in Nat /\ 2 * HysteresisAmount <= One
    BY <2>1, PitchAssumption DEF Semitone, Pitch
  <2>5. low * One \in Int /\ high * One \in Int /\ up * One \in Int /\ down * One \in Int
    BY <2>4
  <2>6. ASSUME NEW a \in Int, NEW b \in Int, a < b PROVE a * One + One <= b * One
    BY <2>6, NotesLieApart
  <2>7. low * One + One <= high * One /\ low * One + One <= up * One /\ down * One + One <= high * One
    BY <1>1, <2>1, <2>4, <2>6
  <2>8. low * One <= down * One
    <3>1. CASE low = down
      BY <2>4, <2>5, <3>1
    <3>2. CASE low < down
      BY <2>4, <2>5, <2>6, <3>2
    <3> QED
      BY <2>1, <2>4, <3>1, <3>2
  <2>9. 2 * x >= high * One + down * One
    <3>1. Distance(high, x) <= Distance(down, x)
      BY <1>1, <2>1, <2>4, <2>5 DEF IsNearest, Distance
    <3> QED
      BY <2>4, <2>5, <2>7, <3>1 DEF Distance
  <2>10. 2 * y < low * One + up * One
    <3>1. Distance(low, y) < Distance(up, y)
      BY <1>1, <2>1, <2>4 DEF IsNearest
    <3> QED
      BY <2>4, <2>5, <2>7, <3>1 DEF Distance
  <2>11. x > UpperThreshold(notes, low)
    <3>1. IsSelected(notes, low)
      BY <1>1 DEF IsNearest
    <3>2. ~(LowerThreshold(notes, low) <= x /\ x <= UpperThreshold(notes, low))
      BY <1>1, <3>1 DEF IsHeld
    <3> QED
      BY <2>2, <2>3, <2>4, <2>5, <2>7, <2>8, <2>9, <3>2
  <2>12. y < LowerThreshold(notes, high)
    <3>1. IsSelected(notes, high)
      BY <1>1 DEF IsNearest
    <3>2. ~(LowerThreshold(notes, high) <= y /\ y <= UpperThreshold(notes, high))
      BY <1>1, <3>1 DEF IsHeld
    <3>3. up * One <= high * One
      <4>1. CASE up = high
        BY <2>4, <2>5, <4>1
      <4>2. CASE up < high
        BY <2>4, <2>5, <2>6, <4>2
      <4> QED
        BY <2>1, <2>4, <4>1, <4>2
    <3> QED
      BY <2>2, <2>3, <2>4, <2>5, <2>7, <2>10, <3>2, <3>3
  <2>13. CASE up = high /\ down = low
    BY <2>2, <2>4, <2>5, <2>11, <2>12, <2>13
  <2>14. CASE up < high /\ low < down
    <3>1. up * One + One <= high * One /\ low * One + One <= down * One
      BY <2>4, <2>6, <2>14
    <3> QED
      BY <2>4, <2>5, <2>9, <2>10, <3>1
  <2>15. up = high <=> down = low
    <3>1. up # high => up <= down
      BY <1>1, <2>1, <2>4, DownwardNeighbour DEF down
    <3>2. down # low => up <= down
      BY <1>1, <2>1, <2>4, UpwardNeighbour DEF up
    <3> QED
      BY <2>1, <2>4, <3>1, <3>2
  <2> QED
    BY <2>1, <2>4, <2>13, <2>14, <2>15
<1>2. from \in Int /\ to \in Int
  BY DEF Semitone
<1> QED
  BY <1>1, <1>2

-----------------------------------------------------------------------------

(***************************************************************************)
(* The types of the channel                                                *)
(***************************************************************************)

LEMMA ClampType ==
    ASSUME NEW value \in Int, NEW high \in Nat
    PROVE  Clamp(value, 0, high) \in 0 .. high
  BY DEF Clamp

LEMMA PreShiftedType ==
    ASSUME ChannelTypeOK, NEW x \in Pitch
    PROVE  PreShifted(x) \in Pitch
<1>1. x \in Int /\ One \in Nat /\ MaxSemitone \in Nat /\ config.preShift \in Int
  BY PitchAssumption DEF Pitch, ChannelTypeOK, ChannelConfig
<1>2. x + config.preShift * One \in Int /\ MaxSemitone * One \in Nat
  BY <1>1
<1>3. Clamp(x + config.preShift * One, 0, MaxSemitone * One) \in 0 .. MaxSemitone * One
  BY <1>2, ClampType
<1> QED
  BY <1>3 DEF PreShifted, Pitch

LEMMA GlideType ==
    ASSUME NEW note \in Semitone
    PROVE  note * GlideOne \in Glide
<1>1. note \in Nat /\ MaxSemitone \in Nat /\ GlideOne \in Nat /\ MaxSemitone - note \in Nat
  BY PitchAssumption, ChannelAssumption DEF Semitone
<1>2. MaxSemitone * GlideOne = note * GlideOne + (MaxSemitone - note) * GlideOne
  BY <1>1
<1>3. note * GlideOne \in Nat /\ (MaxSemitone - note) * GlideOne \in Nat
  BY <1>1
<1> QED
  BY <1>2, <1>3 DEF Glide

LEMMA FollowType ==
    ASSUME ChannelTypeOK, NEW x \in Pitch, Follow(x)
    PROVE  /\ hysteresis' \in Semitone \cup {NoNote}
           /\ lastNominalSemitones' \in Semitone
           /\ lastGlideTarget' \in Glide
<1> DEFINE quantized == Quantized(config.notes, hysteresis, PreShifted(x))
           shifted == StepInScale(config.notes, quantized, config.scaleShift)
           target == Clamp(shifted + config.postShift, 0, MaxSemitone)
<1>1. /\ config.notes \in SUBSET PitchClass /\ config.scaleShift \in Int /\ config.postShift \in Int
      /\ hysteresis \in Semitone \cup {NoNote}
  BY DEF ChannelTypeOK, ChannelConfig
<1>2. PreShifted(x) \in Pitch
  BY PreShiftedType
<1>3. quantized \in Semitone /\ Remembered(config.notes, quantized) \in Semitone \cup {NoNote}
  BY <1>1, <1>2, QuantizedIsNote
<1>4. /\ hysteresis' = Remembered(config.notes, quantized)
      /\ lastNominalSemitones' = shifted
      /\ lastGlideTarget' = target * GlideOne
  BY DEF Follow
<1> HIDE DEF quantized
<1>5. shifted \in Semitone
  BY <1>1, <1>3, StepInScaleType
<1> HIDE DEF shifted
<1>6. target \in Semitone
  <2>1. shifted + config.postShift \in Int /\ MaxSemitone \in Nat
    BY <1>1, <1>5, PitchAssumption DEF Semitone
  <2>2. Clamp(shifted + config.postShift, 0, MaxSemitone) \in 0 .. MaxSemitone
    BY <2>1, ClampType
  <2> QED
    BY <2>2 DEF Semitone
<1> HIDE DEF target
<1>7. target * GlideOne \in Glide
  BY <1>6, GlideType
<1> QED
  BY <1>3, <1>4, <1>5, <1>7

\* A step of the glide goes towards the target, not past it, and is never empty.
LEMMA GlideStaysBetween ==
    ASSUME config \in ChannelConfig, NEW current \in Int, NEW target \in Int
    PROVE  LET next == CalculateGlide(current, target)
           IN  /\ next \in Int
               /\ current <= target => current <= next /\ next <= target
               /\ target <= current => target <= next /\ next <= current
               /\ current # target => next # current
<1> DEFINE amount == Clamp(config.glideAmount, 0, MaxGlideAmount)
           step == (target - current) \div 2 ^ amount
           result == current + (IF step # 0 THEN step ELSE IF target > current THEN 1 ELSE -1)
<1>1. amount \in Nat
  BY ChannelAssumption DEF Clamp, ChannelConfig
<1> HIDE DEF amount
<1>2. 2 ^ amount \in Nat \ {0}
  BY <1>1, PowerOfTwoPositive
<1>3. ASSUME NEW unit \in Nat \ {0}, NEW gap \in Int
      PROVE  gap \div unit \in Int /\ (gap > 0 => gap \div unit >= 0) /\ (gap < 0 => gap \div unit < 0)
  OBVIOUS
<1>4. /\ step \in Int
      /\ target > current => step >= 0
      /\ target < current => step < 0
  <2>1. target - current \in Int
    OBVIOUS
  <2>2. /\ (target - current) \div 2 ^ amount \in Int
        /\ target - current > 0 => (target - current) \div 2 ^ amount >= 0
        /\ target - current < 0 => (target - current) \div 2 ^ amount < 0
    BY <1>2, <1>3, <2>1
  <2> QED
    BY <2>2
<1>5. CalculateGlide(current, target) =
         IF current = target THEN current
         ELSE IF current < target THEN Clamp(result, result, target)
         ELSE Clamp(result, target, result)
  BY DEF CalculateGlide, amount
<1> HIDE DEF step
<1> QED
  BY <1>4, <1>5 DEF Clamp

LEMMA CountersStayInRange ==
    ASSUME ChannelTypeOK, NEW trigger \in BOOLEAN, KeepTime(trigger)
    PROVE  /\ triggerDelayTimer' \in Counter
           /\ triggerDelayPending' \in BOOLEAN
<1>1. CounterMaximum \in Nat
  BY ChannelAssumption
<1>2. \A value \in Counter : SaturatingInc(value) \in Counter
  BY <1>1 DEF SaturatingInc, Counter
<1>3. triggerDelayTimer \in Counter /\ 0 \in Counter
  BY <1>1 DEF ChannelTypeOK, Counter
<1>4. DelayTimer(trigger) \in Counter
  BY <1>2, <1>3 DEF DelayTimer
<1>5. triggerDelayTimer' \in Counter
  BY <1>2, <1>3, <1>4 DEF KeepTime
<1>6. triggerDelayPending' \in BOOLEAN
  BY DEF KeepTime
<1> QED
  BY <1>5, <1>6

\* A step, an edit and a load keep the types of the channel.
LEMMA StepType ==
    ASSUME ChannelTypeOK, NEW x \in Pitch, NEW trigger \in BOOLEAN, Step(x, trigger)
    PROVE  ChannelTypeOK'
<1>1. config' = config /\ forceContinuous' = forceContinuous
  BY DEF Step, settings
<1>2. /\ hysteresis' \in Semitone \cup {NoNote}
      /\ lastNominalSemitones' \in Semitone
      /\ lastGlideTarget' \in Glide
  <2>1. CASE Updates(trigger)
    <3>1. Follow(x)
      BY <2>1 DEF Step
    <3> QED
      BY <3>1, FollowType
  <2>2. CASE ~Updates(trigger)
    BY <2>2 DEF Step, Hold, ChannelTypeOK
  <2> QED
    BY <2>1, <2>2
<1>3. lastGlideCurrent' \in Glide
  <2> DEFINE start == IF hasLastOutput THEN lastGlideCurrent ELSE 0
  <2>1. start \in Glide /\ Glide \subseteq Int
    BY PitchAssumption, ChannelAssumption DEF ChannelTypeOK, Glide
  <2>2. lastGlideCurrent' = CalculateGlide(start, lastGlideTarget')
    BY DEF Step
  <2>3. config \in ChannelConfig
    BY DEF ChannelTypeOK
  <2> HIDE DEF start
  <2>4. /\ lastGlideCurrent' \in Int
        /\ start <= lastGlideTarget' => start <= lastGlideCurrent' /\ lastGlideCurrent' <= lastGlideTarget'
        /\ lastGlideTarget' <= start => lastGlideTarget' <= lastGlideCurrent' /\ lastGlideCurrent' <= start
    BY <1>2, <2>1, <2>2, <2>3, GlideStaysBetween
  <2>5. MaxSemitone * GlideOne \in Int
    BY PitchAssumption, ChannelAssumption
  <2> QED
    BY <1>2, <2>1, <2>4, <2>5 DEF Glide
<1>4. outputTriggerCountdown' \in 0 .. TriggerLedTimeSamples
  <2>1. TriggerLedTimeSamples \in Nat /\ outputTriggerCountdown \in 0 .. TriggerLedTimeSamples
    BY ChannelAssumption DEF ChannelTypeOK
  <2> QED
    BY <2>1 DEF Step, FireTrigger, SaturatingDec
<1>5. /\ triggerDelayTimer' \in Counter
      /\ triggerDelayPending' \in BOOLEAN
  BY CountersStayInRange DEF Step
<1>6. /\ lastTriggerInput' \in BOOLEAN /\ hasLastOutput' \in BOOLEAN
      /\ suppressNextOutputTrigger' \in BOOLEAN
  BY DEF Step, FireTrigger
<1> QED
  BY <1>1, <1>2, <1>3, <1>4, <1>5, <1>6 DEF ChannelTypeOK

LEMMA PanelType ==
    ASSUME ChannelTypeOK, NEW new \in Configs, NEW force \in BOOLEAN,
           EditConfig(new, force) \/ LoadConfig(new, force)
    PROVE  ChannelTypeOK'
<1>1. new \in ChannelConfig
  BY ChannelAssumption
<1>2. 0 \in Semitone /\ 0 \in Glide /\ 0 \in Counter /\ TriggerLedTimeSamples \in Counter
      /\ 0 \in 0 .. TriggerLedTimeSamples
  BY PitchAssumption, ChannelAssumption DEF Semitone, Glide, Counter
<1>3. CASE EditConfig(new, force)
  BY <1>1, <1>3 DEF EditConfig, ChannelTypeOK, timing
<1>4. CASE LoadConfig(new, force)
  BY <1>1, <1>2, <1>4 DEF LoadConfig, ChannelTypeOK
<1> QED
  BY <1>3, <1>4

LEMMA ChannelInitType == ASSUME ChannelInit PROVE ChannelTypeOK
<1>1. config \in ChannelConfig
  BY ChannelAssumption DEF ChannelInit
<1>2. 0 \in Semitone /\ 0 \in Glide /\ 0 \in Counter /\ TriggerLedTimeSamples \in Counter
      /\ 0 \in 0 .. TriggerLedTimeSamples
  BY PitchAssumption, ChannelAssumption DEF Semitone, Glide, Counter
<1> QED
  BY <1>1, <1>2 DEF ChannelInit, ChannelTypeOK
=============================================================================
