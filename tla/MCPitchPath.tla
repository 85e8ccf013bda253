---------------------------- MODULE MCPitchPath ----------------------------
(* All pitches and all scales, without trigger delay. *)
EXTENDS PitchPath

CONSTANTS GlideAmounts, Modes

MCInputs == Pitch

MCConfigs ==
    {[notes |-> s, sampleMode |-> m, glideAmount |-> g, triggerDelayAmount |-> 0,
      preShift |-> 0, scaleShift |-> 0, postShift |-> 0] :
        s \in SUBSET PitchClass, m \in Modes, g \in GlideAmounts}
=============================================================================
