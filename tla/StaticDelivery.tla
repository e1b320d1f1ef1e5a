--------------------------- MODULE StaticDelivery ---------------------------
(***************************************************************************)
(* publish_static_artifacts (src/briefing_app/delivery.py): the dashboard  *)
(* files of a finished run are copied to the archive of the run and to     *)
(* published/latest, and a manifest beside each.  A step is one file.      *)
(***************************************************************************)
CONSTANTS Run, None

VARIABLES
  page,      \* the source files: the run whose report each one holds
  publish,   \* publish[r]: how far r's publication is
  archive,   \* archive[r]: what the files of published/<date>/<r>/ hold
  latest     \* what the files of published/latest/ hold

deliveryVars == <<publish, archive, latest>>

File == {"html", "json", "manifest"}

Steps == {"none", "archive_html", "archive_json", "latest_html", "latest_json",
          "latest_manifest", "archive_manifest", "over"}

DeliveryTypeOK ==
  /\ publish \in [Run -> Steps]
  /\ archive \in [Run -> [File -> Run \union {None}]]
  /\ latest \in [File -> Run \union {None}]

DeliveryInit ==
  /\ publish = [r \in Run |-> "none"]
  /\ archive = [r \in Run |-> [f \in File |-> None]]
  /\ latest = [f \in File |-> None]

(* PUBLISHABLE_STATUSES *)
Publishable == {"succeeded", "partial"}

PublishAnything(r, status) ==   \* mutant: the status not looked at
  /\ publish[r] = "none"
  /\ publish' = [publish EXCEPT ![r] = "archive_html"]
  /\ UNCHANGED <<archive, latest>>

(* The request is checked: the status, and that the files exist.           *)
Publish(r, status) ==
  /\ publish[r] = "none"
  /\ status \in Publishable
  /\ page["html"] # None /\ page["json"] # None
  /\ publish' = [publish EXCEPT ![r] = "archive_html"]
  /\ UNCHANGED <<archive, latest>>

(* One copy of a dashboard file to the archive, one to latest.             *)
CopyToArchive(r, f, from, to) ==
  /\ publish[r] = from
  /\ archive' = [archive EXCEPT ![r][f] = page[f]]
  /\ publish' = [publish EXCEPT ![r] = to]
  /\ UNCHANGED latest

CopyToLatest(r, f, from, to) ==
  /\ publish[r] = from
  /\ latest' = [latest EXCEPT ![f] = page[f]]
  /\ publish' = [publish EXCEPT ![r] = to]
  /\ UNCHANGED archive

(* _write_manifest: latest first, then the archive.                        *)
LatestManifest(r) ==
  /\ publish[r] = "latest_manifest"
  /\ latest' = [latest EXCEPT !["manifest"] = r]
  /\ publish' = [publish EXCEPT ![r] = "archive_manifest"]
  /\ UNCHANGED archive

ArchiveManifest(r) ==
  /\ publish[r] = "archive_manifest"
  /\ archive' = [archive EXCEPT ![r]["manifest"] = r]
  /\ publish' = [publish EXCEPT ![r] = "over"]
  /\ UNCHANGED latest

PublishStep(r) ==
  \/ CopyToArchive(r, "html", "archive_html", "archive_json")
  \/ CopyToArchive(r, "json", "archive_json", "latest_html")
  \/ CopyToLatest(r, "html", "latest_html", "latest_json")
  \/ CopyToLatest(r, "json", "latest_json", "latest_manifest")
  \/ LatestManifest(r)
  \/ ArchiveManifest(r)

Publishing(r) == publish[r] \notin {"none", "over"}

(* The publisher is killed or a copy fails: the files stay as they are.    *)
Abandon(r) ==
  /\ Publishing(r)
  /\ publish' = [publish EXCEPT ![r] = "over"]
  /\ UNCHANGED <<archive, latest>>
=============================================================================
