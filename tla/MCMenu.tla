------------------------------- MODULE MCMenu -------------------------------
(***************************************************************************)
(* All pages over a configuration as small as it can be: one note, one     *)
(* setting of one value per channel and arpeggiator.                       *)
(***************************************************************************)
EXTENDS Menu

MCDefaultSetting == [s \in ArpScalar |-> 0]
MCFactoryScales  == {Note}

(* A record written while linked, with the arpeggiators running and a rate
   that is out of range here. *)
RunningRecord ==
  [linked |-> TRUE, channelBMode |-> "absolute",
   channel |-> [c \in Channel |->
     [notes |-> Note, sampleMode |-> "track", scalar |-> [s \in ChannelScalar |-> 0]]],
   arp |-> [c \in Channel |->
     [enabled |-> TRUE, stepTrigger |-> FALSE, setting |-> [s \in ArpScalar |-> MaxScalar + 1]]],
   selected |-> "A", layerBit |-> TRUE]

MCStoredRecords == {RunningRecord}
=============================================================================
