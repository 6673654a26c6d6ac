------------------------- MODULE DashboardServerProps -------------------------
(***************************************************************************)
(* What a decision the dashboard asks for rests on, and what it leaves.    *)
(***************************************************************************)
EXTENDS DashboardServer

(* A decision rests on the inputs its own request sent, and on the         *)
(* stand-in for the OTP lane only if the request asked for the demo: a     *)
(* standalone request as well as a manual one, whatever evicts the object  *)
(* meanwhile, unless another request, a context request too, has used the  *)
(* object at the same time.  What a request does not send stays on the     *)
(* object from whoever sent it last: without a GPS fix, the coordinates,   *)
(* and for a standalone request the distance and the zone; of these        *)
(* nothing is claimed.                                                     *)
OwnInputs ==
  /\ live.at = "decide" =>
       LET o == objs[live.obj] IN
       ~o.crowded => /\ \A i \in live.sent : o.by[i] = "live"
                     /\ o.otp = "lane"
  /\ \A m \in Manuals : mn[m].at = "decide" =>
       LET o == objs[mn[m].obj] IN
       ~o.crowded => /\ \A i \in mn[m].sent : o.by[i] = m
                     /\ (o.otp = "demo") = mn[m].demo

(* Objects come and go with every other request, yet the audit chain forks *)
(* only if an object was loaded while another was still in use.            *)
OneAuditWriter == forked => overtaken
=============================================================================
