--------------------------- MODULE MCFraudLadder ---------------------------
(* Instances for the runs on the ladder: two objects of two drivers that   *)
(* share the file, and one object alone.                                   *)
EXTENDS FraudLadderProps

MCInstances == {"cabin", "bench"}
MCDrivers == {"alice", "bob"}
MCDriverOf == [i \in MCInstances |-> IF i = "cabin" THEN "alice" ELSE "bob"]

MCAlone == {"cabin"}
MCOneDriver == {"alice"}
MCAloneOf == [i \in MCAlone |-> "alice"]
=============================================================================
