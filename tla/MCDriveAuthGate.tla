-------------------------- MODULE MCDriveAuthGate --------------------------
(* A micro payment, and a small one to an unknown payee: high_value, but   *)
(* micro in the biometric recheck, which takes every payee as known.       *)
EXTENDS DriveAuthGateProps

MCPayments == {[amount |-> "small", known |-> TRUE],
               [amount |-> "small", known |-> FALSE]}

MCMaxCalls == [s \in BOOLEAN |-> IF s THEN 2 ELSE 1]
=============================================================================
