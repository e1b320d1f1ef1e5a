---------------------------- MODULE BriefingRun ----------------------------
(***************************************************************************)
(* run_pipeline (src/briefing_app/pipeline.py) and the rows it keeps       *)
(* through StorageRepository (src/briefing_app/storage.py), for the runs   *)
(* of one date.  Runs of one type share the briefing_run row of (date,     *)
(* type); runs of every type share the daily_snapshot rows of the date and *)
(* the files under output/dashboard/<date>/.  Each has a status file of    *)
(* its own.                                                                *)
(*                                                                         *)
(* A step is one database transaction, one file, or the computation in     *)
(* between, which only the run itself sees.  candidate_gate, preflight,    *)
(* component_score, evidence and setup rows are left out, and the columns  *)
(* of briefing_run other than status and data mode: no property reads      *)
(* them.                                                                   *)
(***************************************************************************)
EXTENDS Integers

CONSTANTS
  Run,          \* the runs of the date
  Ticker,
  None,         \* no run, no row
  MarketDay,    \* is_market_day of the date
  OneAtATime    \* a type's runs do not overlap: the schedule, not the code

ASSUME RunAssumption ==
  /\ None \notin Run
  /\ MarketDay \in BOOLEAN
  /\ OneAtATime \in BOOLEAN

RunType == {"daily", "weekly"}
Mode    == {"live", "fixture"}
Status  == {"running", "succeeded", "partial", "failed", "skipped"}

(* Why a line is in output.diagnostics: a warning, a health finding, or a  *)
(* ticker or setup that raised; a refused snapshot; no market day; an      *)
(* exception of the run.                                                   *)
Diagnostic == {"issue", "refused", "skipped", "error"}

VARIABLES
  pc,          \* pc[r]: what run r does next
  out,         \* out[r]: its PipelineRunOutput
  row,         \* row[t]: the briefing_run row of run type t
  snapshot,    \* snapshot[k]: the run whose scores and option data k's row has
  page,        \* dashboard.html and dashboard.json of the date, by run
  statusFile   \* statusFile[r]: the status in data/runs/<date>/<run_id>.json

runVars == <<pc, out, row, snapshot, page, statusFile>>

Working == {"score", "report", "snapshots", "html", "json", "ledger",
            "status_file", "finish_row"}
PC == Working \union {"new", "returned", "raised", "dead"}

Output == [type : RunType, mode : Mode, stored : BOOLEAN,
           diagnostics : SUBSET Diagnostic,
           reported : SUBSET Diagnostic,   \* the diagnostics in the dashboard
           rows : SUBSET Ticker,           \* scored, and not yet in a snapshot
           status : Status]

Row == [by : Run, status : Status, mode : Mode]

TypeOK ==
  /\ pc \in [Run -> PC]
  /\ out \in [Run -> Output]
  /\ row \in [RunType -> Row \union {None}]
  /\ snapshot \in [Ticker -> Run \union {None}]
  /\ page \in [{"html", "json"} -> Run \union {None}]
  /\ statusFile \in [Run -> Status \union {None}]

NewOutput(type, mode) ==
  [type |-> type, mode |-> mode, stored |-> FALSE, diagnostics |-> {},
   reported |-> {}, rows |-> {}, status |-> "running"]

Init ==
  /\ pc = [r \in Run |-> "new"]
  /\ out = [r \in Run |-> NewOutput("daily", "live")]
  /\ row = [t \in RunType |-> None]
  /\ snapshot = [k \in Ticker |-> None]
  /\ page = [f \in {"html", "json"} |-> None]
  /\ statusFile = [r \in Run |-> None]

Goto(r, label) == pc' = [pc EXCEPT ![r] = label]
Say(r, lines) == [out EXCEPT ![r].diagnostics = @ \union lines]

MayStart(type) ==
  OneAtATime => \A q \in Run : pc[q] \in Working => out[q].type # type

-----------------------------------------------------------------------------
(* upsert_briefing_run on the row of (date, type): a column it is not      *)
(* given keeps what an earlier run left there.                             *)
StartKeepsDetails(r, o) ==   \* mutant: details of an existing row not replaced
  IF row[o.type] = None
    THEN [by |-> r, status |-> "running", mode |-> o.mode]
    ELSE [row[o.type] EXCEPT !.by = r, !.status = "running"]

StartedRow(r, o) ==
  IF row[o.type] = None
    THEN [by |-> r, status |-> "running", mode |-> o.mode]
    ELSE [row[o.type] EXCEPT !.by = r, !.status = "running", !.mode = o.mode]

(* The run is entered: the row says running, and on a day without a market *)
(* an unforced run is over.                                                *)
Start(r, type, mode, force) ==
  LET o    == [NewOutput(type, mode) EXCEPT !.stored = TRUE]
      over == ~force /\ ~MarketDay
  IN  /\ pc[r] = "new"
      /\ MayStart(type)
      /\ row' = [row EXCEPT ![type] = StartedRow(r, o)]
      /\ out' = [out EXCEPT ![r] =
           IF over THEN [o EXCEPT !.diagnostics = {"skipped"}, !.status = "skipped"]
                   ELSE o]
      /\ Goto(r, IF over THEN "status_file" ELSE "score")
      /\ UNCHANGED <<snapshot, page, statusFile>>

(* The first transaction itself fails: the run has no row to finish.       *)
StartFails(r, type, mode) ==
  /\ pc[r] = "new"
  /\ MayStart(type)
  /\ out' = [out EXCEPT ![r] =
       [NewOutput(type, mode) EXCEPT
          !.diagnostics = {"error"}, !.status = "failed"]]
  /\ Goto(r, "status_file")
  /\ UNCHANGED <<row, snapshot, page, statusFile>>

(* load_universe, run_gate, then the accepted tickers are pulled and       *)
(* scored one by one.  A load warning is a line; so is a ticker that       *)
(* raises, and has no score, or one whose setup rules raise.               *)
Score(r) ==
  /\ pc[r] = "score"
  /\ \E scored \in SUBSET Ticker, lines \in SUBSET {"issue"} :
       out' = [Say(r, lines) EXCEPT ![r].rows = scored]
  /\ Goto(r, "report")
  /\ UNCHANGED <<row, snapshot, page, statusFile>>

(* _assess_run_health adds its lines, then build_dashboard_payload copies  *)
(* the list as it is now into the report.                                  *)
ReportFirst(r) ==   \* mutant: the report built before the health lines
  /\ pc[r] = "report"
  /\ \E lines \in SUBSET {"issue"} :
       out' = [Say(r, lines) EXCEPT ![r].reported = out[r].diagnostics]
  /\ Goto(r, "snapshots")
  /\ UNCHANGED <<row, snapshot, page, statusFile>>

Report(r) ==
  /\ pc[r] = "report"
  /\ \E lines \in SUBSET {"issue"} :
       out' = [Say(r, lines) EXCEPT ![r].reported = out[r].diagnostics \union lines]
  /\ Goto(r, "snapshots")
  /\ UNCHANGED <<row, snapshot, page, statusFile>>

(* upsert_daily_snapshot, one transaction per scored ticker: the data mode *)
(* is read from the briefing_run row, as it is now, not from the run.      *)
Snapshot(r, k) ==
  /\ pc[r] = "snapshots"
  /\ k \in out[r].rows
  /\ IF row[out[r].type].mode = "live"
       THEN /\ snapshot' = [snapshot EXCEPT ![k] = r]
            /\ out' = [out EXCEPT ![r].rows = @ \ {k}]
       ELSE /\ out' = [Say(r, {"refused"}) EXCEPT ![r].rows = @ \ {k}]
            /\ UNCHANGED snapshot
  /\ UNCHANGED <<pc, row, page, statusFile>>

SnapshotsDone(r) ==
  /\ pc[r] = "snapshots"
  /\ out[r].rows = {}
  /\ Goto(r, "html")
  /\ UNCHANGED <<out, row, snapshot, page, statusFile>>

(* write_dashboard_artifacts: two files, whatever run wrote them last.     *)
WriteHtml(r) ==
  /\ pc[r] = "html"
  /\ page' = [page EXCEPT !["html"] = r]
  /\ Goto(r, "json")
  /\ UNCHANGED <<out, row, snapshot, statusFile>>

WriteJson(r) ==
  /\ pc[r] = "json"
  /\ page' = [page EXCEPT !["json"] = r]
  /\ Goto(r, "ledger")
  /\ UNCHANGED <<out, row, snapshot, statusFile>>

(* The gate report and the rejection ledger are saved (GateLedger), then   *)
(* _final_status; every failure is a line as well.                         *)
FinalStatus(o) == IF o.diagnostics # {} THEN "partial" ELSE "succeeded"

SaveLedger(r) ==
  /\ pc[r] = "ledger"
  /\ out' = [out EXCEPT ![r].status = FinalStatus(out[r])]
  /\ Goto(r, "status_file")
  /\ UNCHANGED <<row, snapshot, page, statusFile>>

(* _finish_output: the status file, then the row.                          *)
WriteStatusFile(r) ==
  /\ pc[r] = "status_file"
  /\ statusFile' = [statusFile EXCEPT ![r] = out[r].status]
  /\ Goto(r, "finish_row")
  /\ UNCHANGED <<out, row, snapshot, page>>

(* finish_briefing_run.                                                    *)
FinishedRowOnSuccess(r) ==   \* mutant: a failed run does not finish its row
  IF out[r].stored /\ out[r].status # "failed"
    THEN [row EXCEPT ![out[r].type] =
            [by |-> r, status |-> out[r].status, mode |-> out[r].mode]]
    ELSE row

FinishedRow(r) ==
  IF out[r].stored
    THEN [row EXCEPT ![out[r].type] =
            [by |-> r, status |-> out[r].status, mode |-> out[r].mode]]
    ELSE row

FinishRow(r) ==
  /\ pc[r] = "finish_row"
  /\ row' = FinishedRow(r)
  /\ Goto(r, IF out[r].status = "failed" THEN "raised" ELSE "returned")
  /\ UNCHANGED <<out, snapshot, page, statusFile>>

(* An exception in any step: the run is marked failed and closed, then the *)
(* exception goes on to the caller.                                        *)
Raise(r) ==
  /\ pc[r] \in Working
  /\ out[r].status # "failed"
  /\ out' = [Say(r, {"error"}) EXCEPT ![r].status = "failed"]
  /\ Goto(r, "status_file")
  /\ UNCHANGED <<row, snapshot, page, statusFile>>

(* The process is killed, or raises again while it closes: what it had in  *)
(* memory is gone.                                                         *)
Crash(r) ==
  /\ pc[r] \in Working
  /\ Goto(r, "dead")
  /\ out' = [out EXCEPT ![r] = NewOutput(out[r].type, out[r].mode)]
  /\ UNCHANGED <<row, snapshot, page, statusFile>>

-----------------------------------------------------------------------------
RunStep(r) ==
  \/ Score(r)
  \/ Report(r)
  \/ \E k \in Ticker : Snapshot(r, k)
  \/ SnapshotsDone(r)
  \/ WriteHtml(r)
  \/ WriteJson(r)
  \/ SaveLedger(r)
  \/ WriteStatusFile(r)
  \/ FinishRow(r)

RunNext == \E r \in Run :
  \/ \E type \in RunType, mode \in Mode :
       \/ \E force \in BOOLEAN : Start(r, type, mode, force)
       \/ StartFails(r, type, mode)
  \/ RunStep(r)
  \/ Raise(r)
  \/ Crash(r)

-----------------------------------------------------------------------------
(* The option baselines are built from live runs only: a fixture run never *)
(* leaves its synthetic numbers in daily_snapshot, though the refusal goes *)
(* by a row that runs share (README: they cannot contaminate the live      *)
(* baseline).  Holds while runs of one type do not overlap.                *)
SyntheticNeverInBaseline ==
  \A k \in Ticker : snapshot[k] # None => out[snapshot[k]].mode = "live"

Finished(r) == out[r].status \in {"succeeded", "partial"}

(* What the report of a finished live run says is missing is everything    *)
(* its status was computed from ("the report carries the same diagnostics  *)
(* the status is computed from").  A fixture run adds the snapshots it was *)
(* refused after the report.                                               *)
LiveReportCarriesDiagnostics ==
  \A r \in Run : Finished(r) /\ out[r].mode = "live" =>
     out[r].reported = out[r].diagnostics

(* The shared row speaks for the last run of its type: it says running     *)
(* until that run has written its end, also when it failed, and then it    *)
(* agrees with the status file.                                            *)
RowSpeaksForItsRun ==
  \A t \in RunType : row[t] # None =>
    LET r == row[t].by
    IN  /\ row[t].mode = out[r].mode
        /\ pc[r] \in Working => row[t].status = "running"
        /\ pc[r] \in {"returned", "raised"} => row[t].status = statusFile[r]
=============================================================================
