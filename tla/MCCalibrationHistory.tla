------------------------ MODULE MCCalibrationHistory ------------------------
(***************************************************************************)
(* CalibrationPanel with a history variable: the profiles that have passed *)
(* the loopback verification of both DAC channels, at any time.  Two       *)
(* profiles, one residual besides 0/0, four generations.                   *)
(***************************************************************************)
EXTENDS CalibrationPanel

CONSTANTS factory, p1, r0, r1

MCProfile  == {factory, p1}
MCResidual == {r0, r1}
MCMeasured(s) == IF s THEN MCResidual ELSE {r0}

VARIABLE verified

HistoryInit == Init /\ verified = {}

(* verifyBoth() passes for the profile in use. *)
HistoryNext ==
  \/ /\ \E r \in Measured(steady) : Verify(r)
     /\ verified' = verified \cup {running}
     /\ UNCHANGED steady
  \/ Next /\ ~(\E r \in Measured(steady) : Verify(r)) /\ UNCHANGED verified

HistorySpec == HistoryInit /\ [][HistoryNext]_<<vars, verified>>

(* A report of PASS is about a profile that has passed the final loopback
   verification: only a complete PASS stores a certificate;
   under steady buttons. *)
CertifiedMeansVerified ==
  steady /\ Certified => Stored \subseteq verified
=============================================================================
