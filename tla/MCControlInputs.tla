--------------------------- MODULE MCControlInputs ---------------------------
(* The firmware's table of ladder voltages (AnalogConfig.h). *)
EXTENDS ControlInputs, Sequences

MCExpectedValues ==
  LET values == <<0, 93, 171, 236, 292, 341, 384, 421, 455, 485, 512, 536, 558>>
  IN  [i \in 0 .. 12 |-> values[i + 1]]
=============================================================================
