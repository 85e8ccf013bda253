---------------------------- MODULE SaveSlotStore ----------------------------
(***************************************************************************)
(* SaveSlotStore.cpp: the user's scale presets and full-configuration      *)
(* presets.  The store keeps no state of its own: every operation queues   *)
(* one job on the shared writer or reads the EEPROM, and is refused while  *)
(* the writer is busy.                                                     *)
(***************************************************************************)
EXTENDS EepromWriter

CONSTANTS
  ScaleSlots,   \* the scale records, in address order
  ConfigSlots,  \* the configuration records, in address order
  Notes,        \* scales
  Rest          \* everything else a configuration holds

ScaleSlot  == {ScaleSlots[i] : i \in 1 .. Len(ScaleSlots)}
ConfigSlot == {ConfigSlots[i] : i \in 1 .. Len(ConfigSlots)}
Preset     == ScaleSlot \cup ConfigSlot

ASSUME PresetAssumption ==
  /\ ScaleSlots \in Seq(Record) /\ ConfigSlots \in Seq(Record)
  /\ ScaleSlot \cap ConfigSlot = {}
  /\ Content = [notes : Notes, rest : Rest]

-----------------------------------------------------------------------------
(* scan(): the occupied slots, both regions in one set. *)
Scan == {r \in Preset : Valid(eeprom, r)}

(* queueRecord() of the preset's payload: a scale slot stores the notes only,
   so the rest of its image is immaterial. *)
WritePreset(r, content) ==
  Begin(RecordOps(r, [seq |-> 0, content |-> content]))

(* readScale() and readConfig(): what the live configuration becomes. *)
LoadedScale(r, live) ==
  IF Valid(eeprom, r)
    THEN [live EXCEPT !.notes = BodyOf(eeprom, r).content.notes] ELSE live

LoadedConfig(r, factoryPreset) ==
  IF Valid(eeprom, r) THEN BodyOf(eeprom, r).content ELSE factoryPreset[r]

EraseAll == Begin(EraseOps(ScaleSlots \o ConfigSlots))
=============================================================================
