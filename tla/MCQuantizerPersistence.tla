----------------------- MODULE MCQuantizerPersistence -----------------------
(***************************************************************************)
(* A ring of three slots and the legacy slot, one preset of each kind, two *)
(* scales, records of two body cells.                                      *)
(***************************************************************************)
EXTENDS QuantizerPersistence, FiniteSets

CONSTANTS scaleSlot, configSlot, n1, n2, r1

MCNotes   == {n1, n2}
MCRest    == {r1}
MCContent == [notes : MCNotes, rest : MCRest]
MCRecord  == LiveSlot \cup {scaleSlot, configSlot}
MCScaleSlots  == <<scaleSlot>>
MCConfigSlots == <<configSlot>>

C(n) == [notes |-> n, rest |-> r1]
MCFactory == C(n1)
MCFactoryPreset == [r \in {configSlot} |-> C(n2)]

(* A memory given by what its valid records carry; the others are erased. *)
Memory(bodies) ==
  [c \in Cell |->
     IF c[1] \notin DOMAIN bodies THEN Erased
     ELSE IF c[2] = 0 THEN Marked ELSE bodies[c[1]]]

Blank == Memory(<<>>)

(* The twelve-slot ring of firmware <= 0.2.1 with its newest record in slot k:
   slots written so far when n of them are used, older ones ahead of k. *)
OldRing(k, n) ==
  LET age(s) == (k - s) % (SlotCount + 1)
  IN  Memory([s \in {t \in LiveSlot : age(t) < n} |->
        [seq |-> n - age(s), content |-> C(IF age(s) % 2 = 0 THEN n2 ELSE n1)]])

MCMemories ==
  {Blank} \cup {OldRing(k, n) : k \in LiveSlot, n \in {1, SlotCount + 1}}
=============================================================================
