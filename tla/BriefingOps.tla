---------------------------- MODULE BriefingOps ----------------------------
(***************************************************************************)
(* The runs of a date together with the publication of their dashboards:   *)
(* what ops/run_daily.py does in one process, and the n8n workflows over   *)
(* the API in two calls.  The daily and the weekly workflow start at the   *)
(* same minute on Mondays.                                                 *)
(***************************************************************************)
EXTENDS BriefingRun

VARIABLES publish, archive, latest

Delivery == INSTANCE StaticDelivery

vars == <<pc, out, row, snapshot, page, statusFile, publish, archive, latest>>

OpsTypeOK == TypeOK /\ Delivery!DeliveryTypeOK

OpsInit == Init /\ Delivery!DeliveryInit

(* A run is published by whoever called it, once it has returned.          *)
Publish(r) ==
  /\ pc[r] = "returned"
  /\ Delivery!Publish(r, out[r].status)
  /\ UNCHANGED runVars

PublishStep(r) == Delivery!PublishStep(r) /\ UNCHANGED runVars

Abandon(r) == Delivery!Abandon(r) /\ UNCHANGED runVars

(* Every run is over and nothing is being published.                       *)
Over ==
  /\ \A r \in Run : pc[r] \in {"returned", "raised", "dead"}
  /\ \A r \in Run : ~Delivery!Publishing(r)
  /\ UNCHANGED vars

OpsNext ==
  \/ RunNext /\ UNCHANGED <<publish, archive, latest>>
  \/ \E r \in Run : Publish(r) \/ PublishStep(r) \/ Abandon(r)
  \/ Over

Spec == OpsInit /\ [][OpsNext]_vars

-----------------------------------------------------------------------------
(* A manifest is there only when the files it names are, of a run that may *)
(* be published, wherever the publication stopped: it is written last.     *)
ManifestComesLast ==
  /\ \A r \in Run : archive[r]["manifest"] # None =>
       archive[r]["html"] # None /\ archive[r]["json"] # None
  /\ latest["manifest"] # None =>
       /\ latest["html"] # None /\ latest["json"] # None
       /\ Finished(latest["manifest"])

(* The archive of a run holds the report of that run (delivery: "the       *)
(* pipeline writes immutable run artifacts under output/dashboard/<date>/" *)
(* and "the dated archive remains reconstructable").  The code breaks it:  *)
(* the directory is the date's, and the next run of the date overwrites it.*)
ArchiveHoldsItsRun ==
  \A r \in Run : {archive[r]["html"], archive[r]["json"]} \subseteq {r, None}
=============================================================================
