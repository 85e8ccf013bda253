------------------------ MODULE MCArpeggiatorTiming ------------------------
EXTENDS ArpeggiatorTiming

CONSTANTS Rates, Modes, Swings, Enabling

MCFreeRate ==
    [rate \in Rate |-> CASE rate = "d3" -> 250 [] rate = "x2" -> 12 [] rate = "x3" -> 3
                        [] rate = "ms500" -> 500]
MCDivider == [rate \in Rate |-> IF rate = "d3" THEN 3 ELSE 1]
MCMultiplier ==
    [rate \in Rate |-> CASE rate = "x2" -> 2 [] rate = "x3" -> 3 [] OTHER -> 1]

MCConfigs ==
    [enabled: Enabling, rateIndex: Rates, syncMode: Modes, swing: Swings]
=============================================================================
