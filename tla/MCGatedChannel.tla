--------------------------- MODULE MCGatedChannel ---------------------------
(* Small sets of configurations for TLC; one amount stands for all shifts. *)
EXTENDS GatedChannel

CONSTANTS Scales, Modes, GlideAmounts, Delays, Shifts

MCConfigs ==
    {[notes |-> s, sampleMode |-> m, glideAmount |-> g, triggerDelayAmount |-> d,
      preShift |-> h, scaleShift |-> h, postShift |-> -h] :
        s \in Scales, m \in Modes, g \in GlideAmounts, d \in Delays, h \in Shifts}
=============================================================================
