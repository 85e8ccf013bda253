------------------------- MODULE MCCalibrationPanel -------------------------
(***************************************************************************)
(* Two profiles, four generations, and two pairs of residuals unless waits *)
(* are cut short: then one.                                                *)
(***************************************************************************)
EXTENDS CalibrationPanel

CONSTANTS factory, p1, r0, r1

MCProfile  == {factory, p1}
MCResidual == {r0, r1}
MCMeasured(s) == IF s THEN MCResidual ELSE {r0}
=============================================================================
