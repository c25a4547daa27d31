------------------------------ MODULE MCAppUi -------------------------------
(* Instances of AppUi for TLC.                                               *)
EXTENDS AppUi

OneOutcome == {RC_NETWORK_FAILURE}

(* One that callers take for a failure, and one that they take for success;  *)
(* 0 is taken as 2 is.                                                       *)
TwoOutcomes == {RC_NETWORK_FAILURE, RC_NOT_CONNECTED}
=============================================================================
