-------------------------- MODULE MCCalibrationBench --------------------------
(* Converters with the errors of good modules and of bad ones. *)
EXTENDS CalibrationBench

Bad(gain, offset, bow) == [gain |-> gain, offset |-> offset, bow |-> bow]

MCGoodInputs == [gain : {96, 103}, offset : {-6, 6}, bow : {0}]
MCInputErrors ==
    MCGoodInputs \cup {Bad(70, 0, 0), Bad(0, 0, 0), Bad(100, 12, 0), Bad(100, 0, 4),
                       Bad(100, 0, 16)}

MCGoodOutputs == [gain : {96, 103}, offset : {-20, 20}, bow : {0}]
MCOutputErrors ==
    MCGoodOutputs \cup {Bad(70, 0, 0), Bad(0, 0, 0), Bad(100, 600, 0), Bad(100, 0, 14),
                        Bad(100, 0, 22), Bad(100, 0, 30), Bad(100, 0, -22), Bad(100, 0, -60)}

MCAdcNoise == {0, 1}
MCLoopNoise == {0, 1}
=============================================================================
