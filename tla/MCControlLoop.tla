---------------------------- MODULE MCControlLoop ----------------------------
(* Two inputs, the ladder at rest and one CV input with spikes; identity       *)
(* calibrations; two sample modes, and the Arpeggiator on the clock input.     *)
EXTENDS ControlLoop

CONSTANTS CvLevels, CvSpikes, LadderLevels, Scale, Modes

MCLevels == (0 :> LadderLevels) @@ (1 :> CvLevels)
MCSpikes == (0 :> {}) @@ (1 :> CvSpikes)

MCCalibration == FactoryCalibration

MCConfigs ==
    {[notes |-> Scale, sampleMode |-> m, glideAmount |-> 0, triggerDelayAmount |-> 0,
      preShift |-> 0, scaleShift |-> 0, postShift |-> 0] : m \in Modes}

MCPanelSettings ==
    {s \in ChannelSetting :
        /\ s.forceContinuous = s.arpEnabled
        /\ s.arpEnabled => s.config.sampleMode = "TrackAndHold"}
=============================================================================
