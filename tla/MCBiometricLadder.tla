------------------------- MODULE MCBiometricLadder -------------------------
(* Scores on both sides of every raised bar, and every lane configuration  *)
(* _stage3_lanes can return.                                               *)
EXTENDS BiometricLadderProps

MCScores == {0, 1, 2, 4}
MCOrders == {<<"finger">>, <<"otp">>, <<"finger", "otp">>, <<"otp", "finger">>}
=============================================================================
