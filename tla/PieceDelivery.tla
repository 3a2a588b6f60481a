---------------------------- MODULE PieceDelivery ----------------------------
(***************************************************************************)
(* What DownloadWithParams promises the session that calls it: pieces      *)
(* reach the disk one at a time, and it returns nil only when every piece  *)
(* it was asked for is there.                                              *)
(***************************************************************************)
CONSTANT Wanted

VARIABLES delivered, status

Init == delivered = {} /\ status = "run"

Deliver(i) ==
  /\ status = "run" /\ i \in Wanted \ delivered
  /\ delivered' = delivered \cup {i}
  /\ UNCHANGED status

Finish ==
  /\ status = "run" /\ delivered = Wanted
  /\ status' = "ok"
  /\ UNCHANGED delivered

\* A cancelled context, a failed write, or no worker left.
Abort ==
  /\ status = "run"
  /\ status' \in {"cancelled", "failed"}
  /\ UNCHANGED delivered

Next == (\E i \in Wanted : Deliver(i)) \/ Finish \/ Abort

Spec == Init /\ [][Next]_<<delivered, status>>
=============================================================================
