--------------------------- MODULE BriefingProofs ---------------------------
(***************************************************************************)
(* What TLAPS proves of BriefingOps for any set of runs of a date, any     *)
(* tickers, and a day with or without a market.  Most of what a run does   *)
(* it does to variables indexed by the run; the lemmas below say of every  *)
(* action what it does to the others, and the inductive invariants RowInv, *)
(* OwnerInv, SayInv and PublishInv are stated over that.                   *)
(***************************************************************************)
EXTENDS BriefingOps, TLAPS

(* A run changes no output but its own.                                    *)
OwnOutput(r, o) ==
  /\ o \in [Run -> Output]
  /\ \A q \in Run \ {r} : o[q] = out[q]

(* What a run has said when it begins is of its type.                      *)
LEMMA NewOutputType ==
  ASSUME NEW type \in RunType, NEW mode \in Mode
  PROVE  /\ NewOutput(type, mode) \in Output
         /\ NewOutput(type, mode) = [type |-> type, mode |-> mode, stored |-> FALSE,
              diagnostics |-> {}, reported |-> {}, rows |-> {}, status |-> "running"]
BY DEF NewOutput, Output, Status

(* The updates of what a run says keep its type.                           *)
LEMMA OutputUpdates ==
  ASSUME NEW o \in Output, NEW lines \in SUBSET Diagnostic, NEW names \in SUBSET Ticker,
         NEW s \in Status
  PROVE  /\ [o EXCEPT !.diagnostics = lines] \in Output
         /\ [o EXCEPT !.reported = lines] \in Output
         /\ [o EXCEPT !.rows = names] \in Output
         /\ [o EXCEPT !.status = s] \in Output
         /\ [o EXCEPT !.stored = TRUE] \in Output
BY DEF Output

(* A diagnostic changes what its run says, and nothing else.               *)
LEMMA SayEffect ==
  ASSUME TypeOK, NEW r \in Run, NEW lines \in SUBSET Diagnostic
  PROVE  /\ OwnOutput(r, Say(r, lines))
         /\ Say(r, lines)[r] = [out[r] EXCEPT !.diagnostics = @ \union lines]
<1>1. out[r].diagnostics \union lines \in SUBSET Diagnostic
  BY DEF TypeOK, Output
<1>2. Say(r, lines) = [out EXCEPT ![r] = [out[r] EXCEPT !.diagnostics = @ \union lines]]
  BY DEF Say
<1>3. [out[r] EXCEPT !.diagnostics = @ \union lines] \in Output
  BY <1>1 DEF TypeOK, Output
<1>4. QED
  BY <1>2, <1>3 DEF TypeOK, OwnOutput

(* The two ways a run begins.                                              *)
LEMMA StartEffect ==
  ASSUME TypeOK, NEW r \in Run, NEW type \in RunType, NEW mode \in Mode,
         NEW force \in BOOLEAN, Start(r, type, mode, force)
  PROVE  /\ OwnOutput(r, out')
         /\ out'[r].type = type /\ out'[r].mode = mode /\ out'[r].stored
         /\ out'[r].status \in {"running", "skipped"} /\ out'[r].reported = {}
         /\ row'[type] = [by |-> r, status |-> "running", mode |-> mode]
         /\ row' \in [RunType -> Row \union {None}]
         /\ \A t \in RunType \ {type} : row'[t] = row[t]
<1> DEFINE o == [NewOutput(type, mode) EXCEPT !.stored = TRUE]
           final == IF ~force /\ ~MarketDay
                      THEN [o EXCEPT !.diagnostics = {"skipped"}, !.status = "skipped"]
                      ELSE o
<1>1. /\ o \in Output /\ o.type = type /\ o.mode = mode /\ o.stored
      /\ o.reported = {} /\ o.status = "running"
  BY DEF NewOutput, Output, Status
<1>2. /\ final \in Output /\ final.type = type /\ final.mode = mode /\ final.stored
      /\ final.status \in {"running", "skipped"} /\ final.reported = {}
  <2>1. CASE ~force /\ ~MarketDay
    BY <2>1, <1>1 DEF Output, Status, Diagnostic
  <2>2. CASE ~(~force /\ ~MarketDay)
    BY <2>2, <1>1
  <2>3. QED
    BY <2>1, <2>2
<1>3. out' = [out EXCEPT ![r] = final]
  BY DEF Start
<1>4. StartedRow(r, o) = [by |-> r, status |-> "running", mode |-> mode]
  BY <1>1 DEF StartedRow, TypeOK, Row
<1>5. row' = [row EXCEPT ![type] = [by |-> r, status |-> "running", mode |-> mode]]
  BY <1>4 DEF Start
<1>6. [by |-> r, status |-> "running", mode |-> mode] \in Row
  BY DEF Row, Status
<1>7. QED
  BY <1>2, <1>3, <1>5, <1>6 DEF TypeOK, OwnOutput

LEMMA StartFailsEffect ==
  ASSUME TypeOK, NEW r \in Run, NEW type \in RunType, NEW mode \in Mode,
         StartFails(r, type, mode)
  PROVE  /\ OwnOutput(r, out')
         /\ out'[r].type = type /\ out'[r].mode = mode /\ ~out'[r].stored
         /\ out'[r].status = "failed"
<1> DEFINE o == [NewOutput(type, mode) EXCEPT !.diagnostics = {"error"}, !.status = "failed"]
<1>1. o \in Output /\ o.type = type /\ o.mode = mode /\ ~o.stored /\ o.status = "failed"
  BY DEF NewOutput, Output, Status, Diagnostic
<1>2. out' = [out EXCEPT ![r] = o]
  BY DEF StartFails
<1>3. QED
  BY <1>1, <1>2 DEF TypeOK, OwnOutput

(* What the steps of a run that is under way do to its output.             *)
SameRun(r) == /\ out'[r].type = out[r].type /\ out'[r].mode = out[r].mode
SameResult(r) == /\ SameRun(r)
                 /\ out'[r].stored = out[r].stored /\ out'[r].status = out[r].status

(* The stages of a run, each as it changes the shared variables.           *)
LEMMA ScoreEffect ==
  ASSUME TypeOK, NEW r \in Run, Score(r)
  PROVE  OwnOutput(r, out') /\ SameResult(r)
<1>1. PICK scored \in SUBSET Ticker, lines \in SUBSET {"issue"} :
        out' = [Say(r, lines) EXCEPT ![r].rows = scored]
  BY DEF Score
<1>2. lines \in SUBSET Diagnostic
  BY DEF Diagnostic
<1>3. OwnOutput(r, Say(r, lines))
      /\ Say(r, lines)[r] = [out[r] EXCEPT !.diagnostics = @ \union lines]
  BY <1>2, SayEffect
<1>4. out'[r] = [Say(r, lines)[r] EXCEPT !.rows = scored] /\ out'[r] \in Output
  BY <1>1, <1>3 DEF OwnOutput, Output
<1>5. OwnOutput(r, out')
  BY <1>1, <1>3, <1>4 DEF OwnOutput
<1>6. SameResult(r)
  BY <1>3, <1>4 DEF SameResult, SameRun, OwnOutput, TypeOK, Output
<1>7. QED
  BY <1>5, <1>6

LEMMA ReportEffect ==
  ASSUME TypeOK, NEW r \in Run, Report(r)
  PROVE  /\ OwnOutput(r, out') /\ SameResult(r)
         /\ out'[r].reported = out'[r].diagnostics
<1>1. PICK lines \in SUBSET {"issue"} :
        out' = [Say(r, lines) EXCEPT ![r].reported = out[r].diagnostics \union lines]
  BY DEF Report
<1>2. lines \in SUBSET Diagnostic /\ out[r].diagnostics \union lines \in SUBSET Diagnostic
  BY DEF Diagnostic, TypeOK, Output
<1>3. OwnOutput(r, Say(r, lines))
      /\ Say(r, lines)[r] = [out[r] EXCEPT !.diagnostics = @ \union lines]
  BY <1>2, SayEffect
<1>4. /\ out'[r] = [Say(r, lines)[r] EXCEPT !.reported = out[r].diagnostics \union lines]
      /\ out'[r] \in Output
  BY <1>1, <1>2, <1>3 DEF OwnOutput, Output
<1>5. OwnOutput(r, out')
  BY <1>1, <1>3, <1>4 DEF OwnOutput
<1>6. SameResult(r) /\ out'[r].reported = out'[r].diagnostics
  BY <1>3, <1>4 DEF SameResult, SameRun, OwnOutput, TypeOK, Output
<1>7. QED
  BY <1>5, <1>6

LEMMA SnapshotEffect ==
  ASSUME TypeOK, NEW r \in Run, NEW k \in Ticker, Snapshot(r, k)
  PROVE  /\ OwnOutput(r, out') /\ SameResult(r)
         /\ out'[r].reported = out[r].reported
         /\ row[out[r].type].mode = "live" => out'[r].diagnostics = out[r].diagnostics
<1>1. CASE row[out[r].type].mode = "live"
  <2>1. out' = [out EXCEPT ![r].rows = @ \ {k}]
    BY <1>1 DEF Snapshot
  <2>2. out'[r] = [out[r] EXCEPT !.rows = out[r].rows \ {k}] /\ out'[r] \in Output
    BY <2>1 DEF TypeOK, Output
  <2>3. QED
    BY <2>1, <2>2 DEF SameResult, SameRun, OwnOutput, TypeOK, Output
<1>2. CASE row[out[r].type].mode # "live"
  <2>1. out' = [Say(r, {"refused"}) EXCEPT ![r].rows = @ \ {k}]
    BY <1>2 DEF Snapshot
  <2>2. /\ OwnOutput(r, Say(r, {"refused"}))
        /\ Say(r, {"refused"})[r] = [out[r] EXCEPT !.diagnostics = @ \union {"refused"}]
    BY SayEffect DEF Diagnostic
  <2>3. Say(r, {"refused"})[r].rows \ {k} \in SUBSET Ticker
    BY <2>2 DEF OwnOutput, Output
  <2>4. /\ out'[r] = [Say(r, {"refused"})[r] EXCEPT !.rows = Say(r, {"refused"})[r].rows \ {k}]
        /\ out'[r] \in Output
    BY <2>1, <2>2, <2>3 DEF OwnOutput, Output
  <2>5. OwnOutput(r, out')
    BY <2>1, <2>2, <2>4 DEF OwnOutput
  <2>6. SameResult(r) /\ out'[r].reported = out[r].reported
    BY <2>2, <2>4 DEF SameResult, SameRun, OwnOutput, TypeOK, Output
  <2>7. QED
    BY <1>2, <2>5, <2>6
<1>3. QED
  BY <1>1, <1>2

LEMMA SaveLedgerEffect ==
  ASSUME TypeOK, NEW r \in Run, SaveLedger(r)
  PROVE  /\ OwnOutput(r, out') /\ SameRun(r) /\ out'[r].stored = out[r].stored
         /\ out'[r].status \in {"partial", "succeeded"}
         /\ out'[r].reported = out[r].reported /\ out'[r].diagnostics = out[r].diagnostics
<1>1. FinalStatus(out[r]) \in {"partial", "succeeded"}
  BY DEF FinalStatus
<1>2. FinalStatus(out[r]) \in Status
  BY <1>1 DEF Status
<1>3. out' = [out EXCEPT ![r] = [out[r] EXCEPT !.status = FinalStatus(out[r])]]
  BY DEF SaveLedger
<1>4. [out[r] EXCEPT !.status = FinalStatus(out[r])] \in Output
  BY <1>2, OutputUpdates DEF TypeOK
<1>5. QED
  BY <1>1, <1>3, <1>4 DEF SameRun, OwnOutput, TypeOK, Output

(* The two ways a run stops before its end.                                *)
LEMMA RaiseEffect ==
  ASSUME TypeOK, NEW r \in Run, Raise(r)
  PROVE  /\ OwnOutput(r, out') /\ SameRun(r) /\ out'[r].stored = out[r].stored
         /\ out'[r].status = "failed"
<1>1. out' = [Say(r, {"error"}) EXCEPT ![r].status = "failed"]
  BY DEF Raise
<1>2. /\ OwnOutput(r, Say(r, {"error"}))
      /\ Say(r, {"error"})[r] = [out[r] EXCEPT !.diagnostics = @ \union {"error"}]
  BY SayEffect DEF Diagnostic
<1>3. out'[r] = [Say(r, {"error"})[r] EXCEPT !.status = "failed"] /\ out'[r] \in Output
  BY <1>1, <1>2, OutputUpdates DEF OwnOutput, Status
<1>4. OwnOutput(r, out')
  BY <1>1, <1>2, <1>3 DEF OwnOutput
<1>5. QED
  BY <1>2, <1>3, <1>4 DEF SameRun, OwnOutput, TypeOK, Output

LEMMA CrashEffect ==
  ASSUME TypeOK, NEW r \in Run, Crash(r)
  PROVE  /\ OwnOutput(r, out') /\ SameRun(r) /\ ~out'[r].stored
         /\ out'[r].status = "running"
<1>1. out' = [out EXCEPT ![r] = NewOutput(out[r].type, out[r].mode)]
  BY DEF Crash
<1>2. out[r].type \in RunType /\ out[r].mode \in Mode
  BY DEF TypeOK, Output
<1>3. QED
  BY <1>1, <1>2, NewOutputType DEF SameRun, OwnOutput, TypeOK, Output

(* Steps that leave what a run says alone.                                 *)
Files(r) == SnapshotsDone(r) \/ WriteHtml(r) \/ WriteJson(r) \/ WriteStatusFile(r)

(* The actions of a run.                                                   *)
LEMMA Cases ==
  ASSUME RunNext, NEW P,
         \A r \in Run : \A type \in RunType, mode \in Mode, force \in BOOLEAN :
           Start(r, type, mode, force) => P,
         \A r \in Run : \A type \in RunType, mode \in Mode : StartFails(r, type, mode) => P,
         \A r \in Run : Score(r) \/ Report(r) \/ SaveLedger(r) => P,
         \A r \in Run : \A k \in Ticker : Snapshot(r, k) => P,
         \A r \in Run : Files(r) => P,
         \A r \in Run : FinishRow(r) => P,
         \A r \in Run : Raise(r) \/ Crash(r) => P
  PROVE  P
BY DEF RunNext, RunStep, Files

(* No step takes a variable out of its type.                               *)
LEMMA TypeStep == TypeOK /\ RunNext => TypeOK'
<1> SUFFICES ASSUME TypeOK, RunNext PROVE TypeOK'
  OBVIOUS
<1> USE DEF Goto, PC, Working
<1>1. ASSUME NEW r \in Run, NEW type \in RunType, NEW mode \in Mode,
             NEW force \in BOOLEAN, Start(r, type, mode, force)
      PROVE  TypeOK'
  BY <1>1, StartEffect DEF Start, OwnOutput, TypeOK
<1>2. ASSUME NEW r \in Run, NEW type \in RunType, NEW mode \in Mode,
             StartFails(r, type, mode)
      PROVE  TypeOK'
  BY <1>2, StartFailsEffect DEF StartFails, OwnOutput, TypeOK
<1>3. ASSUME NEW r \in Run, Score(r) \/ Report(r) \/ SaveLedger(r) PROVE TypeOK'
  <2>1. OwnOutput(r, out')
    BY <1>3, ScoreEffect, ReportEffect, SaveLedgerEffect
  <2>2. QED
    BY <1>3, <2>1 DEF Score, Report, SaveLedger, OwnOutput, TypeOK
<1>4. ASSUME NEW r \in Run, NEW k \in Ticker, Snapshot(r, k) PROVE TypeOK'
  <2>1. OwnOutput(r, out')
    BY <1>4, SnapshotEffect
  <2>2. snapshot' \in [Ticker -> Run \union {None}]
    BY <1>4 DEF Snapshot, TypeOK
  <2>3. QED
    BY <1>4, <2>1, <2>2 DEF Snapshot, OwnOutput, TypeOK
<1>5. ASSUME NEW r \in Run, Files(r) PROVE TypeOK'
  <2>1. CASE SnapshotsDone(r) \/ WriteHtml(r) \/ WriteJson(r)
    BY <2>1 DEF SnapshotsDone, WriteHtml, WriteJson, TypeOK
  <2>2. CASE WriteStatusFile(r)
    <3>1. out[r].status \in Status
      BY DEF TypeOK, Output
    <3>2. QED
      BY <2>2, <3>1 DEF WriteStatusFile, TypeOK
  <2>3. QED
    BY <1>5, <2>1, <2>2 DEF Files
<1>6. ASSUME NEW r \in Run, FinishRow(r) PROVE TypeOK'
  <2>1. [by |-> r, status |-> out[r].status, mode |-> out[r].mode] \in Row
    BY DEF TypeOK, Output, Row
  <2>2. row' \in [RunType -> Row \union {None}]
    BY <1>6, <2>1 DEF FinishRow, FinishedRow, TypeOK, Output
  <2>3. QED
    BY <1>6, <2>2 DEF FinishRow, TypeOK
<1>7. ASSUME NEW r \in Run, Raise(r) \/ Crash(r) PROVE TypeOK'
  BY <1>7, RaiseEffect, CrashEffect DEF Raise, Crash, OwnOutput, TypeOK
<1>8. QED
  BY <1>1, <1>2, <1>3, <1>4, <1>5, <1>6, <1>7, Cases

-----------------------------------------------------------------------------
(* RowSpeaksForItsRun is inductive with what is known of the run a row     *)
(* speaks for: it was entered, is of the row's type, and, unless it was    *)
(* killed, it knows that it has a row to finish.                           *)
RowInv ==
  /\ RowSpeaksForItsRun
  /\ \A t \in RunType : row[t] # None =>
       /\ pc[row[t].by] # "new"
       /\ out[row[t].by].type = t
       /\ pc[row[t].by] # "dead" => out[row[t].by].stored
  /\ \A r \in Run : pc[r] = "finish_row" => statusFile[r] = out[r].status

(* A step of a run that leaves the rows alone, keeps its type and mode and *)
(* stays in its work.                                                      *)
LEMMA RowKept ==
  ASSUME TypeOK, RowInv, NEW r \in Run, pc[r] \in Working,
         NEW label \in {"score", "report", "snapshots", "html", "json", "ledger", "status_file"},
         UNCHANGED <<row, statusFile>>, OwnOutput(r, out'), SameRun(r),
         out'[r].stored = out[r].stored, Goto(r, label) \/ UNCHANGED pc,
         pc[r] = "finish_row" => Goto(r, label)
  PROVE  RowInv'
<1>1. \A q \in Run : q # r => pc'[q] = pc[q] /\ out'[q] = out[q]
  BY DEF Goto, OwnOutput, TypeOK
<1>2. pc'[r] \in Working /\ pc'[r] # "finish_row"
  BY DEF Goto, TypeOK, Working
<1>3. ASSUME NEW t \in RunType, row'[t] # None
      PROVE  LET q == row'[t].by
             IN  /\ row'[t].mode = out'[q].mode
                 /\ pc'[q] \in Working => row'[t].status = "running"
                 /\ pc'[q] \in {"returned", "raised"} => row'[t].status = statusFile'[q]
                 /\ pc'[q] # "new" /\ out'[q].type = t
                 /\ pc'[q] # "dead" => out'[q].stored
  <2>1. row[t].by \in Run /\ row'[t] = row[t]
    BY <1>3 DEF TypeOK, Row
  <2>2. CASE row[t].by = r
    BY <1>2, <1>3, <2>1, <2>2 DEF RowInv, RowSpeaksForItsRun, SameRun, Working
  <2>3. CASE row[t].by # r
    BY <1>1, <1>3, <2>1, <2>3 DEF RowInv, RowSpeaksForItsRun
  <2>4. QED
    BY <2>2, <2>3
<1>4. ASSUME NEW q \in Run, pc'[q] = "finish_row" PROVE statusFile'[q] = out'[q].status
  BY <1>1, <1>2, <1>4 DEF RowInv
<1>5. QED
  BY <1>3, <1>4 DEF RowInv, RowSpeaksForItsRun

(* The row speaks for the last run of its type that reached it.            *)
LEMMA RowStep == TypeOK /\ RowInv /\ RunNext => RowInv'
<1> SUFFICES ASSUME TypeOK, RowInv, RunNext PROVE RowInv'
  OBVIOUS
<1>1. ASSUME NEW r \in Run, NEW type \in RunType, NEW mode \in Mode,
             NEW force \in BOOLEAN, Start(r, type, mode, force)
      PROVE  RowInv'
  <2>1. /\ OwnOutput(r, out') /\ out'[r].type = type /\ out'[r].mode = mode /\ out'[r].stored
        /\ row'[type] = [by |-> r, status |-> "running", mode |-> mode]
        /\ \A t \in RunType \ {type} : row'[t] = row[t]
    BY <1>1, StartEffect
  <2>2. /\ pc[r] = "new" /\ pc'[r] \in {"score", "status_file"} /\ UNCHANGED statusFile
        /\ \A q \in Run : q # r => pc'[q] = pc[q] /\ out'[q] = out[q]
    BY <1>1, <2>1 DEF Start, Goto, OwnOutput, TypeOK
  <2>3. ASSUME NEW t \in RunType, row'[t] # None
        PROVE  LET q == row'[t].by
               IN  /\ row'[t].mode = out'[q].mode
                   /\ pc'[q] \in Working => row'[t].status = "running"
                   /\ pc'[q] \in {"returned", "raised"} => row'[t].status = statusFile'[q]
                   /\ pc'[q] # "new" /\ out'[q].type = t
                   /\ pc'[q] # "dead" => out'[q].stored
    <3>1. CASE t = type
      BY <2>1, <2>2, <3>1
    <3>2. CASE t # type
      <4>1. row'[t] = row[t] /\ row[t].by \in Run /\ row[t].by # r
        BY <2>1, <2>2, <2>3, <3>2 DEF RowInv, TypeOK, Row
      <4>2. QED
        BY <2>2, <2>3, <4>1 DEF RowInv, RowSpeaksForItsRun
    <3>3. QED
      BY <3>1, <3>2
  <2>4. ASSUME NEW q \in Run, pc'[q] = "finish_row" PROVE statusFile'[q] = out'[q].status
    BY <2>2, <2>4 DEF RowInv
  <2>5. QED
    BY <2>3, <2>4 DEF RowInv, RowSpeaksForItsRun
<1>2. ASSUME NEW r \in Run, NEW type \in RunType, NEW mode \in Mode,
             StartFails(r, type, mode)
      PROVE  RowInv'
  <2>1. /\ pc[r] = "new" /\ pc'[r] = "status_file" /\ UNCHANGED <<row, statusFile>>
        /\ \A q \in Run : q # r => pc'[q] = pc[q] /\ out'[q] = out[q]
    BY <1>2, StartFailsEffect DEF StartFails, Goto, OwnOutput, TypeOK
  <2>2. \A t \in RunType : row[t] # None => row[t].by \in Run \ {r}
    BY <2>1 DEF RowInv, TypeOK, Row
  <2>3. QED
    BY <2>1, <2>2 DEF RowInv, RowSpeaksForItsRun
<1>3. ASSUME NEW r \in Run, Score(r) \/ Report(r) \/ SaveLedger(r) PROVE RowInv'
  <2>1. OwnOutput(r, out') /\ SameRun(r) /\ out'[r].stored = out[r].stored
    BY <1>3, ScoreEffect, ReportEffect, SaveLedgerEffect DEF SameResult
  <2>2. /\ pc[r] \in {"score", "report", "ledger"} /\ UNCHANGED <<row, statusFile>>
        /\ Goto(r, "report") \/ Goto(r, "snapshots") \/ Goto(r, "status_file")
    BY <1>3 DEF Score, Report, SaveLedger
  <2>3. QED
    BY <2>1, <2>2, RowKept DEF Working
<1>4. ASSUME NEW r \in Run, NEW k \in Ticker, Snapshot(r, k) PROVE RowInv'
  <2>1. OwnOutput(r, out') /\ SameRun(r) /\ out'[r].stored = out[r].stored
    BY <1>4, SnapshotEffect DEF SameResult
  <2>2. pc[r] = "snapshots" /\ UNCHANGED <<pc, row, statusFile>>
    BY <1>4 DEF Snapshot
  <2>3. QED
    BY <2>1, <2>2, RowKept DEF Working
<1>5. ASSUME NEW r \in Run, Files(r) PROVE RowInv'
  <2>1. CASE WriteStatusFile(r)
    <3>1. /\ pc[r] = "status_file" /\ pc'[r] = "finish_row"
          /\ statusFile'[r] = out[r].status /\ UNCHANGED <<row, out>>
          /\ \A q \in Run : q # r => pc'[q] = pc[q] /\ statusFile'[q] = statusFile[q]
      BY <2>1 DEF WriteStatusFile, Goto, TypeOK
    <3>2. \A t \in RunType : row[t] # None => row[t].by \in Run
      BY DEF TypeOK, Row
    <3>3. QED
      BY <3>1, <3>2 DEF RowInv, RowSpeaksForItsRun, Working
  <2>2. CASE SnapshotsDone(r) \/ WriteHtml(r) \/ WriteJson(r)
    <3>1. OwnOutput(r, out') /\ SameRun(r) /\ out'[r].stored = out[r].stored
      BY <2>2 DEF SnapshotsDone, WriteHtml, WriteJson, OwnOutput, SameRun, TypeOK
    <3>2. /\ pc[r] \in Working /\ pc[r] # "finish_row" /\ UNCHANGED <<row, statusFile>>
          /\ Goto(r, "html") \/ Goto(r, "json") \/ Goto(r, "ledger")
      BY <2>2 DEF SnapshotsDone, WriteHtml, WriteJson, Working
    <3>3. QED
      BY <3>1, <3>2, RowKept
  <2>3. QED
    BY <1>5, <2>1, <2>2 DEF Files
<1>6. ASSUME NEW r \in Run, FinishRow(r) PROVE RowInv'
  <2> DEFINE type == out[r].type
  <2>1. /\ pc[r] = "finish_row" /\ pc'[r] \in {"returned", "raised"}
        /\ UNCHANGED <<out, statusFile>> /\ row' = FinishedRow(r)
        /\ \A q \in Run : q # r => pc'[q] = pc[q]
    BY <1>6 DEF FinishRow, Goto, TypeOK
  <2>2. type \in RunType /\ \A t \in RunType : row[t] # None => row[t].by \in Run
    BY DEF TypeOK, Row, Output
  <2>3. CASE out[r].stored
    <3>1. /\ row'[type] = [by |-> r, status |-> out[r].status, mode |-> out[r].mode]
          /\ \A t \in RunType : t # type => row'[t] = row[t]
      BY <2>1, <2>2, <2>3 DEF FinishedRow, TypeOK
    <3>2. \A t \in RunType : t # type /\ row[t] # None => row[t].by # r
      BY DEF RowInv
    <3>3. QED
      BY <2>1, <2>2, <2>3, <3>1, <3>2 DEF RowInv, RowSpeaksForItsRun, Working
  <2>4. CASE ~out[r].stored
    <3>1. UNCHANGED row
      BY <2>1, <2>4 DEF FinishedRow
    <3>2. \A t \in RunType : row[t] # None => row[t].by # r
      BY <2>1, <2>4 DEF RowInv
    <3>3. QED
      BY <2>1, <2>2, <3>1, <3>2 DEF RowInv, RowSpeaksForItsRun
  <2>5. QED
    BY <2>3, <2>4
<1>7. ASSUME NEW r \in Run, Raise(r) \/ Crash(r) PROVE RowInv'
  <2>1. CASE Raise(r)
    <3>1. OwnOutput(r, out') /\ SameRun(r) /\ out'[r].stored = out[r].stored
      BY <2>1, RaiseEffect
    <3>2. pc[r] \in Working /\ Goto(r, "status_file") /\ UNCHANGED <<row, statusFile>>
      BY <2>1 DEF Raise
    <3>3. QED
      BY <3>1, <3>2, RowKept
  <2>2. CASE Crash(r)
    <3>1. /\ pc[r] \in Working /\ pc'[r] = "dead" /\ UNCHANGED <<row, statusFile>>
          /\ SameRun(r)
          /\ \A q \in Run : q # r => pc'[q] = pc[q] /\ out'[q] = out[q]
      BY <2>2, CrashEffect DEF Crash, Goto, OwnOutput, TypeOK
    <3>2. \A t \in RunType : row[t] # None => row[t].by \in Run
      BY DEF TypeOK, Row
    <3>3. QED
      BY <3>1, <3>2 DEF RowInv, RowSpeaksForItsRun, SameRun, Working
  <2>3. QED
    BY <1>7, <2>1, <2>2
<1>8. QED
  BY <1>1, <1>2, <1>3, <1>4, <1>5, <1>6, <1>7, Cases

-----------------------------------------------------------------------------
(* While runs of one type do not overlap, the row of a run that is under   *)
(* way is its own: the mode a snapshot is judged by is the run's.          *)
Storing == {"score", "report", "snapshots", "html", "json", "ledger"}

OwnerInv ==
  /\ \A q, r \in Run :
       pc[q] \in Working /\ pc[r] \in Working /\ out[q].type = out[r].type => q = r
  /\ \A r \in Run : pc[r] \in Working /\ out[r].stored =>
       row[out[r].type].mode = out[r].mode
  /\ \A r \in Run : pc[r] \in Storing => out[r].stored

Others(r) == \A q \in Run : q # r => pc'[q] = pc[q] /\ out'[q] = out[q]

(* A run that stores is at work.                                           *)
LEMMA StoringWorks == Storing \subseteq Working
BY DEF Storing, Working

(* A step of a run that keeps its row and type.                            *)
LEMMA OwnerKept ==
  ASSUME TypeOK, OwnerInv, NEW r \in Run, pc[r] \in Working,
         Others(r), UNCHANGED row, SameRun(r),
         pc'[r] \in Working => out'[r].stored = out[r].stored,
         pc'[r] \in Storing => pc[r] \in Storing
  PROVE  OwnerInv'
<1>1. ASSUME NEW p \in Run, NEW q \in Run, pc'[p] \in Working, pc'[q] \in Working,
             out'[p].type = out'[q].type
      PROVE  p = q
  <2>1. /\ pc[p] \in Working /\ out'[p].type = out[p].type
        /\ pc[q] \in Working /\ out'[q].type = out[q].type
    BY <1>1 DEF SameRun, Others
  <2>2. QED
    BY <1>1, <2>1 DEF OwnerInv
<1>2. ASSUME NEW q \in Run, pc'[q] \in Working, out'[q].stored
      PROVE  row'[out'[q].type].mode = out'[q].mode
  BY <1>2 DEF OwnerInv, Others, SameRun
<1>3. ASSUME NEW q \in Run, pc'[q] \in Storing
      PROVE  out'[q].stored
  BY <1>3, StoringWorks DEF OwnerInv, Others, SameRun
<1>4. QED
  BY <1>1, <1>2, <1>3 DEF OwnerInv

(* While runs of one type do not overlap, the row is that of the run.      *)
LEMMA OwnerStep == OneAtATime /\ TypeOK /\ OwnerInv /\ RunNext => OwnerInv'
<1> SUFFICES ASSUME OneAtATime, TypeOK, OwnerInv, RunNext PROVE OwnerInv'
  OBVIOUS
<1>0. \A q \in Run : out[q].type \in RunType
  BY DEF TypeOK, Output
<1>1. ASSUME NEW r \in Run, NEW type \in RunType, NEW mode \in Mode,
             NEW force \in BOOLEAN, Start(r, type, mode, force)
      PROVE  OwnerInv'
  <2>1. /\ out'[r].type = type /\ out'[r].mode = mode /\ out'[r].stored
        /\ row'[type] = [by |-> r, status |-> "running", mode |-> mode]
        /\ \A t \in RunType \ {type} : row'[t] = row[t]
    BY <1>1, StartEffect
  <2>2. pc[r] = "new" /\ Others(r)
    BY <1>1, StartEffect DEF Start, Goto, OwnOutput, Others, TypeOK
  <2>3. \A q \in Run : pc[q] \in Working => out[q].type # type /\ q # r
    BY <1>1, <2>2 DEF Start, MayStart, Working
  <2>4. ASSUME NEW p \in Run, NEW q \in Run, pc'[p] \in Working, pc'[q] \in Working,
               out'[p].type = out'[q].type
        PROVE  p = q
    BY <2>1, <2>2, <2>3, <2>4 DEF OwnerInv, Others
  <2>5. ASSUME NEW q \in Run, pc'[q] \in Working, out'[q].stored
        PROVE  row'[out'[q].type].mode = out'[q].mode
    BY <1>0, <2>1, <2>2, <2>3, <2>5 DEF OwnerInv, Others
  <2>6. ASSUME NEW q \in Run, pc'[q] \in Storing PROVE out'[q].stored
    BY <2>1, <2>2, <2>6 DEF OwnerInv, Others
  <2>7. QED
    BY <2>4, <2>5, <2>6 DEF OwnerInv
<1>2. ASSUME NEW r \in Run, NEW type \in RunType, NEW mode \in Mode,
             StartFails(r, type, mode)
      PROVE  OwnerInv'
  <2>1. out'[r].type = type /\ ~out'[r].stored /\ UNCHANGED row
    BY <1>2, StartFailsEffect DEF StartFails
  <2>2. pc[r] = "new" /\ pc'[r] = "status_file" /\ Others(r)
    BY <1>2, StartFailsEffect DEF StartFails, Goto, OwnOutput, Others, TypeOK
  <2>3. \A q \in Run : pc[q] \in Working => out[q].type # type /\ q # r
    BY <1>2, <2>2 DEF StartFails, MayStart, Working
  <2>4. ASSUME NEW p \in Run, NEW q \in Run, pc'[p] \in Working, pc'[q] \in Working,
               out'[p].type = out'[q].type
        PROVE  p = q
    BY <2>1, <2>2, <2>3, <2>4 DEF OwnerInv, Others
  <2>5. ASSUME NEW q \in Run, pc'[q] \in Working, out'[q].stored
        PROVE  row'[out'[q].type].mode = out'[q].mode
    BY <2>1, <2>2, <2>5 DEF OwnerInv, Others
  <2>6. ASSUME NEW q \in Run, pc'[q] \in Storing PROVE out'[q].stored
    BY <2>1, <2>2, <2>6 DEF OwnerInv, Others, Storing
  <2>7. QED
    BY <2>4, <2>5, <2>6 DEF OwnerInv
<1>3. ASSUME NEW r \in Run, Score(r) \/ Report(r) \/ SaveLedger(r) PROVE OwnerInv'
  <2>1. OwnOutput(r, out') /\ SameRun(r) /\ out'[r].stored = out[r].stored
    BY <1>3, ScoreEffect, ReportEffect, SaveLedgerEffect DEF SameResult
  <2>2. /\ pc[r] \in Working /\ pc[r] \in Storing /\ UNCHANGED row /\ Others(r)
    <3>1. /\ pc[r] \in {"score", "report", "ledger"} /\ UNCHANGED row
          /\ Goto(r, "report") \/ Goto(r, "snapshots") \/ Goto(r, "status_file")
      BY <1>3 DEF Score, Report, SaveLedger
    <3>2. Others(r)
      BY <2>1, <3>1 DEF Goto, OwnOutput, Others, TypeOK
    <3>3. QED
      BY <3>1, <3>2 DEF Working, Storing
  <2>3. QED
    BY <2>1, <2>2, OwnerKept
<1>4. ASSUME NEW r \in Run, NEW k \in Ticker, Snapshot(r, k) PROVE OwnerInv'
  <2>1. OwnOutput(r, out') /\ SameRun(r) /\ out'[r].stored = out[r].stored
    BY <1>4, SnapshotEffect DEF SameResult
  <2>2. /\ pc[r] \in Working /\ pc[r] \in Storing /\ UNCHANGED row /\ Others(r)
    BY <1>4, <2>1 DEF Snapshot, OwnOutput, Others, TypeOK, Working, Storing
  <2>3. QED
    BY <2>1, <2>2, OwnerKept
<1>5. ASSUME NEW r \in Run, Files(r) PROVE OwnerInv'
  <2>1. /\ pc[r] \in Working /\ UNCHANGED <<out, row>> /\ Others(r)
        /\ pc'[r] \in Storing => pc[r] \in Storing
    BY <1>5 DEF Files, SnapshotsDone, WriteHtml, WriteJson, WriteStatusFile, Goto,
                Others, TypeOK, Working, Storing
  <2>2. QED
    BY <2>1, OwnerKept DEF SameRun
<1>6. ASSUME NEW r \in Run, FinishRow(r) PROVE OwnerInv'
  <2>1. /\ pc[r] = "finish_row" /\ pc'[r] \notin Working /\ UNCHANGED out
        /\ row' = FinishedRow(r) /\ Others(r)
    BY <1>6 DEF FinishRow, Goto, Others, TypeOK, Working
  <2>2. \A t \in RunType : t # out[r].type => row'[t] = row[t]
    BY <2>1 DEF FinishedRow, TypeOK
  <2>3. \A q \in Run : pc'[q] \in Working => pc[q] \in Working /\ out[q].type # out[r].type
    BY <2>1 DEF OwnerInv, Others, Working
  <2>4. QED
    BY <1>0, <2>1, <2>2, <2>3, StoringWorks DEF OwnerInv, Others
<1>7. ASSUME NEW r \in Run, Raise(r) \/ Crash(r) PROVE OwnerInv'
  <2>1. OwnOutput(r, out') /\ SameRun(r) /\ (Raise(r) => out'[r].stored = out[r].stored)
    BY <1>7, RaiseEffect, CrashEffect
  <2>2. /\ pc[r] \in Working /\ UNCHANGED row /\ Others(r)
        /\ pc'[r] = (IF Raise(r) THEN "status_file" ELSE "dead")
    <3>1. CASE Raise(r)
      BY <2>1, <3>1 DEF Raise, Goto, OwnOutput, Others, TypeOK
    <3>2. CASE ~Raise(r) /\ Crash(r)
      BY <2>1, <3>2 DEF Crash, Goto, OwnOutput, Others, TypeOK
    <3>3. QED
      BY <1>7, <3>1, <3>2
  <2>3. /\ pc'[r] \in Working => out'[r].stored = out[r].stored
        /\ pc'[r] \notin Storing
    BY <2>1, <2>2 DEF Working, Storing
  <2>4. QED
    BY <2>1, <2>2, <2>3, OwnerKept
<1>8. QED
  BY <1>1, <1>2, <1>3, <1>4, <1>5, <1>6, <1>7, Cases

-----------------------------------------------------------------------------
(* What a run has stored and said.  A snapshot is of a run that has been   *)
(* entered, so that its mode no longer changes; a finished run has been    *)
(* through its report, and only a refused snapshot comes after that.       *)
SayInv ==
  /\ SyntheticNeverInBaseline
  /\ \A k \in Ticker : snapshot[k] # None => pc[snapshot[k]] # "new"
  /\ \A r \in Run : Finished(r) => pc[r] \in {"status_file", "finish_row", "returned"}
  /\ \A r \in Run :
       /\ Finished(r) \/ pc[r] \in {"snapshots", "html", "json", "ledger"}
       /\ out[r].mode = "live"
       => out[r].reported = out[r].diagnostics

(* A run that was entered holds the row in its own mode.                   *)
LEMMA OwnMode ==
  ASSUME TypeOK, OwnerInv, NEW r \in Run, pc[r] = "snapshots"
  PROVE  row[out[r].type].mode = out[r].mode
<1>1. pc[r] \in Working /\ pc[r] \in Storing
  BY DEF Working, Storing
<1>2. QED
  BY <1>1 DEF OwnerInv

(* A step that keeps the snapshots and the mode of a run that was entered. *)
LEMMA SayKept ==
  ASSUME TypeOK, SayInv, NEW r \in Run, Others(r), UNCHANGED snapshot,
         pc[r] = "new" \/ out'[r].mode = out[r].mode, pc'[r] # "new",
         out'[r].status \in {"succeeded", "partial"} =>
           pc'[r] \in {"status_file", "finish_row", "returned"},
         /\ \/ out'[r].status \in {"succeeded", "partial"}
            \/ pc'[r] \in {"snapshots", "html", "json", "ledger"}
         /\ out'[r].mode = "live"
         => out'[r].reported = out'[r].diagnostics
  PROVE  SayInv'
<1>1. ASSUME NEW k \in Ticker, snapshot'[k] # None
      PROVE  out'[snapshot'[k]].mode = "live" /\ pc'[snapshot'[k]] # "new"
  <2>1. /\ snapshot[k] \in Run /\ snapshot'[k] = snapshot[k]
        /\ pc[snapshot[k]] # "new" /\ out[snapshot[k]].mode = "live"
    BY <1>1 DEF SayInv, SyntheticNeverInBaseline, TypeOK
  <2>2. QED
    BY <2>1 DEF Others
<1>2. ASSUME NEW q \in Run, Finished(q)'
      PROVE  pc'[q] \in {"status_file", "finish_row", "returned"}
  BY <1>2 DEF SayInv, Finished, Others
<1>3. ASSUME NEW q \in Run, out'[q].mode = "live",
             Finished(q)' \/ pc'[q] \in {"snapshots", "html", "json", "ledger"}
      PROVE  out'[q].reported = out'[q].diagnostics
  BY <1>3 DEF SayInv, Finished, Others
<1>4. QED
  BY <1>1, <1>2, <1>3 DEF SayInv, SyntheticNeverInBaseline

(* Snapshots, diagnostics and modes go together from step to step.         *)
LEMMA SayStep == TypeOK /\ OwnerInv /\ SayInv /\ RunNext => SayInv'
<1> SUFFICES ASSUME TypeOK, OwnerInv, SayInv, RunNext PROVE SayInv'
  OBVIOUS
<1>1. ASSUME NEW r \in Run, NEW type \in RunType, NEW mode \in Mode,
             NEW force \in BOOLEAN, Start(r, type, mode, force)
      PROVE  SayInv'
  <2>1. /\ OwnOutput(r, out') /\ out'[r].status \in {"running", "skipped"}
        /\ row'[type] = [by |-> r, status |-> "running", mode |-> mode]
    BY <1>1, StartEffect
  <2>2. /\ pc[r] = "new" /\ pc'[r] \in {"score", "status_file"} /\ Others(r)
        /\ UNCHANGED snapshot
    BY <1>1, <2>1 DEF Start, Goto, OwnOutput, Others, TypeOK
  <2>3. QED
    BY <2>1, <2>2, SayKept
<1>2. ASSUME NEW r \in Run, NEW type \in RunType, NEW mode \in Mode,
             StartFails(r, type, mode)
      PROVE  SayInv'
  <2>1. OwnOutput(r, out') /\ out'[r].status = "failed"
    BY <1>2, StartFailsEffect
  <2>2. /\ pc[r] = "new" /\ pc'[r] = "status_file" /\ Others(r)
        /\ UNCHANGED snapshot
    BY <1>2, <2>1 DEF StartFails, Goto, OwnOutput, Others, TypeOK
  <2>3. QED
    BY <2>1, <2>2, SayKept
<1>3. ASSUME NEW r \in Run, Score(r) \/ Report(r) \/ SaveLedger(r) PROVE SayInv'
  <2>1. CASE Score(r)
    <3>1. OwnOutput(r, out') /\ SameResult(r)
      BY <2>1, ScoreEffect
    <3>2. pc[r] = "score" /\ pc'[r] = "report" /\ Others(r) /\ UNCHANGED snapshot
      BY <2>1, <3>1 DEF Score, Goto, OwnOutput, Others, TypeOK
    <3>3. out'[r].status \notin {"succeeded", "partial"}
      BY <3>1, <3>2 DEF SayInv, Finished, SameResult
    <3>4. QED
      BY <3>1, <3>2, <3>3, SayKept DEF SameResult, SameRun
  <2>2. CASE Report(r)
    <3>1. OwnOutput(r, out') /\ SameResult(r) /\ out'[r].reported = out'[r].diagnostics
      BY <2>2, ReportEffect
    <3>2. pc[r] = "report" /\ pc'[r] = "snapshots" /\ Others(r) /\ UNCHANGED snapshot
      BY <2>2, <3>1 DEF Report, Goto, OwnOutput, Others, TypeOK
    <3>3. out'[r].status \notin {"succeeded", "partial"}
      BY <3>1, <3>2 DEF SayInv, Finished, SameResult
    <3>4. QED
      BY <3>1, <3>2, <3>3, SayKept DEF SameResult, SameRun
  <2>3. CASE SaveLedger(r)
    <3>1. /\ OwnOutput(r, out') /\ SameRun(r)
          /\ out'[r].reported = out[r].reported /\ out'[r].diagnostics = out[r].diagnostics
      BY <2>3, SaveLedgerEffect
    <3>2. pc[r] = "ledger" /\ pc'[r] = "status_file" /\ Others(r) /\ UNCHANGED snapshot
      BY <2>3, <3>1 DEF SaveLedger, Goto, OwnOutput, Others, TypeOK
    <3>3. out[r].mode = "live" => out[r].reported = out[r].diagnostics
      BY <3>2 DEF SayInv
    <3>4. QED
      BY <3>1, <3>2, <3>3, SayKept DEF SameRun
  <2>4. QED
    BY <1>3, <2>1, <2>2, <2>3
<1>4. ASSUME NEW r \in Run, NEW k \in Ticker, Snapshot(r, k) PROVE SayInv'
  <2>1. /\ OwnOutput(r, out') /\ SameResult(r) /\ out'[r].reported = out[r].reported
        /\ row[out[r].type].mode = "live" => out'[r].diagnostics = out[r].diagnostics
    BY <1>4, SnapshotEffect
  <2>2. pc[r] = "snapshots" /\ UNCHANGED pc /\ Others(r)
    BY <1>4, <2>1 DEF Snapshot, OwnOutput, Others
  <2>3. row[out[r].type].mode = out[r].mode
    BY <2>2, OwnMode
  <2>4. out[r].status \notin {"succeeded", "partial"}
    BY <2>2 DEF SayInv, Finished
  <2>5. out[r].mode = "live" => out[r].reported = out[r].diagnostics
    BY <2>2 DEF SayInv
  <2>6. CASE out[r].mode # "live"
    <3>1. UNCHANGED snapshot
      BY <1>4, <2>3, <2>6 DEF Snapshot
    <3>2. QED
      BY <2>1, <2>2, <2>4, <2>6, <3>1, SayKept DEF SameResult, SameRun
  <2>7. CASE out[r].mode = "live"
    <3>1. snapshot' = [snapshot EXCEPT ![k] = r]
      BY <1>4, <2>3, <2>7 DEF Snapshot
    <3>2. ASSUME NEW t \in Ticker, snapshot'[t] # None
          PROVE  out'[snapshot'[t]].mode = "live" /\ pc'[snapshot'[t]] # "new"
      <4>1. CASE t = k
        BY <2>1, <2>2, <2>7, <3>1, <4>1 DEF TypeOK, SameResult, SameRun
      <4>2. CASE t # k
        <5>1. /\ snapshot[t] \in Run /\ snapshot'[t] = snapshot[t]
              /\ pc[snapshot[t]] # "new" /\ out[snapshot[t]].mode = "live"
          BY <3>1, <3>2, <4>2 DEF SayInv, SyntheticNeverInBaseline, TypeOK
        <5>2. QED
          BY <2>1, <2>2, <5>1 DEF Others, SameResult, SameRun
      <4>3. QED
        BY <4>1, <4>2
    <3>3. ASSUME NEW q \in Run, Finished(q)'
          PROVE  pc'[q] \in {"status_file", "finish_row", "returned"}
      BY <2>1, <2>2, <2>4, <3>3 DEF SayInv, Finished, Others, SameResult
    <3>4. ASSUME NEW q \in Run, out'[q].mode = "live",
                 Finished(q)' \/ pc'[q] \in {"snapshots", "html", "json", "ledger"}
          PROVE  out'[q].reported = out'[q].diagnostics
      BY <2>1, <2>2, <2>3, <2>5, <2>7, <3>4 DEF SayInv, Finished, Others
    <3>5. QED
      BY <3>2, <3>3, <3>4 DEF SayInv, SyntheticNeverInBaseline
  <2>8. QED
    BY <2>6, <2>7
<1>5. ASSUME NEW r \in Run, Files(r) \/ FinishRow(r) PROVE SayInv'
  <2>1. /\ UNCHANGED <<out, snapshot>> /\ Others(r) /\ pc'[r] # "new"
        /\ pc'[r] \in {"html", "json", "ledger"} => pc[r] \in {"snapshots", "html", "json"}
        /\ pc'[r] # "snapshots"
        /\ out[r].status # "failed" /\ pc[r] \in {"status_file", "finish_row"}
             => pc'[r] \in {"finish_row", "returned"}
    BY <1>5 DEF Files, SnapshotsDone, WriteHtml, WriteJson, WriteStatusFile, FinishRow,
                Goto, Others, TypeOK
  <2>2. pc[r] # "returned"
    BY <1>5 DEF Files, SnapshotsDone, WriteHtml, WriteJson, WriteStatusFile, FinishRow
  <2>3. out[r].status \in {"succeeded", "partial"} => pc[r] \in {"status_file", "finish_row"}
    BY <2>2 DEF SayInv, Finished
  <2>4. /\ out[r].status \in {"succeeded", "partial"} => pc'[r] \in {"finish_row", "returned"}
        /\ /\ \/ out[r].status \in {"succeeded", "partial"}
              \/ pc'[r] \in {"snapshots", "html", "json", "ledger"}
           /\ out[r].mode = "live"
           => out[r].reported = out[r].diagnostics
    BY <2>1, <2>3 DEF SayInv, Finished
  <2>5. QED
    BY <2>1, <2>4, SayKept
<1>6. ASSUME NEW r \in Run, Raise(r) \/ Crash(r) PROVE SayInv'
  <2>1. OwnOutput(r, out') /\ SameRun(r) /\ out'[r].status \in {"failed", "running"}
    BY <1>6, RaiseEffect, CrashEffect
  <2>2. /\ pc'[r] \in {"status_file", "dead"} /\ UNCHANGED snapshot
        /\ Goto(r, "status_file") \/ Goto(r, "dead")
    BY <1>6 DEF Raise, Crash, Goto, TypeOK
  <2>3. Others(r)
    BY <2>1, <2>2 DEF Goto, OwnOutput, Others, TypeOK
  <2>4. QED
    BY <2>1, <2>2, <2>3, SayKept DEF SameRun
<1>7. QED
  BY <1>1, <1>2, <1>3, <1>4, <1>5, <1>6, Cases

-----------------------------------------------------------------------------
(* What is known of a publication at each of its steps, and of the run it  *)
(* publishes: that has returned, and changes no more.                      *)
PublishInv ==
  /\ ManifestComesLast
  /\ latest["manifest"] # None =>
       latest["manifest"] \in Run /\ pc[latest["manifest"]] = "returned"
  /\ \A r \in Run :
       /\ publish[r] \notin {"none", "over"} =>
            /\ pc[r] = "returned" /\ Finished(r)
            /\ page["html"] # None /\ page["json"] # None
       /\ publish[r] \notin {"none", "over", "archive_html"} => archive[r]["html"] # None
       /\ publish[r] \in {"latest_html", "latest_json", "latest_manifest", "archive_manifest"}
            => archive[r]["json"] # None
       /\ publish[r] \in {"latest_json", "latest_manifest", "archive_manifest"}
            => latest["html"] # None
       /\ publish[r] \in {"latest_manifest", "archive_manifest"} => latest["json"] # None

(* No step of a run touches one that has returned, and none takes a page   *)
(* away.                                                                   *)
LEMMA ReturnedStays ==
  ASSUME TypeOK, RunNext
  PROVE  /\ \A q \in Run : pc[q] = "returned" => pc'[q] = "returned" /\ out'[q] = out[q]
         /\ \A f \in {"html", "json"} : page[f] # None => page'[f] # None
<1> USE DEF Goto, TypeOK, OwnOutput
<1> DEFINE Stays(r) == \A q \in Run : q # r => pc'[q] = pc[q] /\ out'[q] = out[q]
           Pages == \A f \in {"html", "json"} : page[f] # None => page'[f] # None
<1> SUFFICES \E r \in Run : pc[r] # "returned" /\ Stays(r) /\ Pages
  OBVIOUS
<1> HIDE DEF Stays
<1>1. ASSUME NEW r \in Run, NEW type \in RunType, NEW mode \in Mode,
             NEW force \in BOOLEAN, Start(r, type, mode, force)
      PROVE  pc[r] # "returned" /\ Stays(r) /\ Pages
  BY <1>1 DEF Start, Stays
<1>2. ASSUME NEW r \in Run, NEW type \in RunType, NEW mode \in Mode,
             StartFails(r, type, mode)
      PROVE  pc[r] # "returned" /\ Stays(r) /\ Pages
  BY <1>2 DEF StartFails, Stays
<1>3. ASSUME NEW r \in Run, Score(r) \/ Report(r) \/ SaveLedger(r)
      PROVE  pc[r] # "returned" /\ Stays(r) /\ Pages
  <2>1. OwnOutput(r, out')
    BY <1>3, ScoreEffect, ReportEffect, SaveLedgerEffect
  <2>2. QED
    BY <1>3, <2>1 DEF Score, Report, SaveLedger, Stays
<1>4. ASSUME NEW r \in Run, NEW k \in Ticker, Snapshot(r, k)
      PROVE  pc[r] # "returned" /\ Stays(r) /\ Pages
  <2>1. OwnOutput(r, out')
    BY <1>4, SnapshotEffect
  <2>2. QED
    BY <1>4, <2>1 DEF Snapshot, Stays
<1>5. ASSUME NEW r \in Run, Files(r)
      PROVE  pc[r] # "returned" /\ Stays(r) /\ Pages
  BY <1>5, RunAssumption
     DEF Files, SnapshotsDone, WriteHtml, WriteJson, WriteStatusFile, Stays
<1>6. ASSUME NEW r \in Run, FinishRow(r)
      PROVE  pc[r] # "returned" /\ Stays(r) /\ Pages
  BY <1>6 DEF FinishRow, Stays
<1>7. ASSUME NEW r \in Run, Raise(r) \/ Crash(r)
      PROVE  pc[r] # "returned" /\ Stays(r) /\ Pages
  <2>1. OwnOutput(r, out')
    BY <1>7, RaiseEffect, CrashEffect
  <2>2. QED
    BY <1>7, <2>1 DEF Raise, Crash, Stays, Working
<1>8. QED
  BY <1>1, <1>2, <1>3, <1>4, <1>5, <1>6, <1>7, Cases

(* A publication moves one run on, and copies one file at most.            *)
LEMMA DeliveryTypeStep ==
  ASSUME OpsTypeOK, NEW r \in Run, Publish(r) \/ PublishStep(r) \/ Abandon(r)
  PROVE  Delivery!DeliveryTypeOK'
<1> USE DEF OpsTypeOK, Delivery!DeliveryTypeOK
<1> DEFINE Moved == \E to \in Delivery!Steps : publish' = [publish EXCEPT ![r] = to]
           Held == UNCHANGED archive \/ \E f \in Delivery!File, q \in Run \union {None} :
                     archive' = [archive EXCEPT ![r][f] = q]
           Shown == UNCHANGED latest \/ \E f \in Delivery!File, q \in Run \union {None} :
                      latest' = [latest EXCEPT ![f] = q]
<1>1. SUFFICES Moved /\ Held /\ Shown
  <2>1. ASSUME Moved PROVE publish' \in [Run -> Delivery!Steps]
    BY <2>1
  <2>2. ASSUME Held PROVE archive' \in [Run -> [Delivery!File -> Run \union {None}]]
    BY <2>2
  <2>3. ASSUME Shown PROVE latest' \in [Delivery!File -> Run \union {None}]
    BY <2>3
  <2>4. QED
    BY <2>1, <2>2, <2>3
<1>2. CASE Publish(r)
  BY <1>2 DEF Publish, Delivery!Publish, Delivery!Steps
<1>3. CASE Abandon(r)
  BY <1>3 DEF Abandon, Delivery!Abandon, Delivery!Steps
<1>4. CASE PublishStep(r)
  <2> USE DEF Delivery!Steps, Delivery!File, TypeOK
  <2>1. CASE Delivery!CopyToArchive(r, "html", "archive_html", "archive_json")
    BY <2>1 DEF Delivery!CopyToArchive
  <2>2. CASE Delivery!CopyToArchive(r, "json", "archive_json", "latest_html")
    BY <2>2 DEF Delivery!CopyToArchive
  <2>3. CASE Delivery!CopyToLatest(r, "html", "latest_html", "latest_json")
    BY <2>3 DEF Delivery!CopyToLatest
  <2>4. CASE Delivery!CopyToLatest(r, "json", "latest_json", "latest_manifest")
    BY <2>4 DEF Delivery!CopyToLatest
  <2>5. CASE Delivery!LatestManifest(r)
    BY <2>5 DEF Delivery!LatestManifest
  <2>6. CASE Delivery!ArchiveManifest(r)
    BY <2>6 DEF Delivery!ArchiveManifest
  <2>7. QED
    BY <1>4, <2>1, <2>2, <2>3, <2>4, <2>5, <2>6 DEF PublishStep, Delivery!PublishStep
<1>5. QED
  BY <1>2, <1>3, <1>4

(* No step of the composition takes a variable out of its type.            *)
LEMMA OpsTypeStep == OpsTypeOK /\ [OpsNext]_vars => OpsTypeOK'
<1> SUFFICES ASSUME OpsTypeOK, [OpsNext]_vars PROVE OpsTypeOK'
  OBVIOUS
<1>1. CASE RunNext /\ UNCHANGED <<publish, archive, latest>>
  <2>1. TypeOK'
    BY <1>1, TypeStep DEF OpsTypeOK
  <2>2. Delivery!DeliveryTypeOK'
    BY <1>1 DEF OpsTypeOK, Delivery!DeliveryTypeOK
  <2>3. QED
    BY <2>1, <2>2 DEF OpsTypeOK
<1>2. ASSUME NEW r \in Run, Publish(r) \/ PublishStep(r) \/ Abandon(r) PROVE OpsTypeOK'
  <2>1. TypeOK'
    BY <1>2 DEF Publish, PublishStep, Abandon, runVars, OpsTypeOK, TypeOK
  <2>2. QED
    BY <1>2, <2>1, DeliveryTypeStep DEF OpsTypeOK
<1>3. CASE UNCHANGED vars
  BY <1>3 DEF vars, OpsTypeOK, TypeOK, Delivery!DeliveryTypeOK
<1>4. QED
  BY <1>1, <1>2, <1>3 DEF OpsNext, Over

(* No step shows a manifest before the files it names.                     *)
LEMMA PublishStepInv ==
  ASSUME OpsTypeOK, PublishInv, [OpsNext]_vars
  PROVE  PublishInv'
<1> USE DEF Finished
<1>1. CASE RunNext /\ UNCHANGED <<publish, archive, latest>>
  BY <1>1, ReturnedStays DEF OpsTypeOK, PublishInv, ManifestComesLast
<1>2. ASSUME NEW r \in Run, Publish(r) PROVE PublishInv'
  BY <1>2 DEF Publish, Delivery!Publish, Delivery!Publishable, runVars,
              PublishInv, ManifestComesLast, OpsTypeOK, Delivery!DeliveryTypeOK
<1>3. ASSUME NEW r \in Run, PublishStep(r) PROVE PublishInv'
  <2> USE DEF runVars, PublishInv, ManifestComesLast, OpsTypeOK, Delivery!DeliveryTypeOK,
             Delivery!File
  <2>1. CASE Delivery!CopyToArchive(r, "html", "archive_html", "archive_json")
    BY <1>3, <2>1 DEF PublishStep, Delivery!CopyToArchive
  <2>2. CASE Delivery!CopyToArchive(r, "json", "archive_json", "latest_html")
    BY <1>3, <2>2 DEF PublishStep, Delivery!CopyToArchive
  <2>3. CASE Delivery!CopyToLatest(r, "html", "latest_html", "latest_json")
    BY <1>3, <2>3 DEF PublishStep, Delivery!CopyToLatest
  <2>4. CASE Delivery!CopyToLatest(r, "json", "latest_json", "latest_manifest")
    BY <1>3, <2>4 DEF PublishStep, Delivery!CopyToLatest
  <2>5. CASE Delivery!LatestManifest(r)
    BY <1>3, <2>5 DEF PublishStep, Delivery!LatestManifest
  <2>6. CASE Delivery!ArchiveManifest(r)
    BY <1>3, <2>6 DEF PublishStep, Delivery!ArchiveManifest
  <2>7. QED
    BY <1>3, <2>1, <2>2, <2>3, <2>4, <2>5, <2>6 DEF PublishStep, Delivery!PublishStep
<1>4. ASSUME NEW r \in Run, Abandon(r) PROVE PublishInv'
  BY <1>4 DEF Abandon, Delivery!Abandon, runVars,
              PublishInv, ManifestComesLast, OpsTypeOK, Delivery!DeliveryTypeOK
<1>5. CASE UNCHANGED vars
  BY <1>5 DEF vars, PublishInv, ManifestComesLast
<1>6. QED
  BY <1>1, <1>2, <1>3, <1>4, <1>5 DEF OpsNext, Over

-----------------------------------------------------------------------------
(* The steps of the composition that are not of a run leave its variables. *)
LEMMA RunOrNot ==
  ASSUME [OpsNext]_vars
  PROVE  RunNext \/ UNCHANGED runVars
BY DEF OpsNext, Publish, PublishStep, Abandon, Over, vars, runVars

(* The invariants hold of a day no run has been started on.                *)
LEMMA Initially ==
  OpsInit => OpsTypeOK /\ RowInv /\ OwnerInv /\ SayInv /\ PublishInv
<1> SUFFICES ASSUME OpsInit PROVE OpsTypeOK /\ RowInv /\ OwnerInv /\ SayInv /\ PublishInv
  OBVIOUS
<1> USE DEF OpsInit, Init, Delivery!DeliveryInit
<1>1. NewOutput("daily", "live") \in Output /\ NewOutput("daily", "live").status = "running"
  BY DEF NewOutput, Output, RunType, Mode, Status
<1>2. OpsTypeOK
  BY <1>1 DEF OpsTypeOK, TypeOK, Delivery!DeliveryTypeOK, PC, Delivery!Steps, Delivery!File
<1>3. RowInv
  BY DEF RowInv, RowSpeaksForItsRun
<1>4. OwnerInv
  BY DEF OwnerInv, Working, Storing
<1>5. SayInv
  BY <1>1 DEF SayInv, SyntheticNeverInBaseline, Finished
<1>6. PublishInv
  BY DEF PublishInv, ManifestComesLast, Delivery!File
<1>7. QED
  BY <1>2, <1>3, <1>4, <1>5, <1>6

(* Every reachable state of the composition is well typed.                 *)
THEOREM TypeCorrect == Spec => []OpsTypeOK
<1>1. OpsInit => OpsTypeOK
  BY Initially
<1>2. QED
  BY <1>1, OpsTypeStep, PTL DEF Spec

(* The shared row speaks for the last run of its type, for any number of   *)
(* runs, also of one type at once, wherever they fail or are killed.       *)
THEOREM RowsSpeak == Spec => []RowSpeaksForItsRun
<1>1. OpsInit => RowInv
  BY Initially
<1>2. OpsTypeOK /\ RowInv /\ [OpsNext]_vars => RowInv'
  <2> SUFFICES ASSUME OpsTypeOK, RowInv, [OpsNext]_vars PROVE RowInv'
    OBVIOUS
  <2>1. CASE RunNext
    BY <2>1, RowStep DEF OpsTypeOK
  <2>2. CASE UNCHANGED runVars
    BY <2>2 DEF runVars, RowInv, RowSpeaksForItsRun
  <2>3. QED
    BY <2>1, <2>2, RunOrNot
<1>3. RowInv => RowSpeaksForItsRun
  BY DEF RowInv
<1>4. QED
  BY <1>1, <1>2, <1>3, TypeCorrect, PTL DEF Spec

(* While runs of one type do not overlap, what they say and store goes     *)
(* together.                                                               *)
LEMMA SayAlways == OneAtATime => (Spec => []SayInv)
<1> SUFFICES ASSUME OneAtATime PROVE Spec => []SayInv
  OBVIOUS
<1>1. OpsInit => OwnerInv /\ SayInv
  BY Initially
<1>2. OpsTypeOK /\ OwnerInv /\ SayInv /\ [OpsNext]_vars => OwnerInv' /\ SayInv'
  <2> SUFFICES ASSUME OpsTypeOK, OwnerInv, SayInv, [OpsNext]_vars
               PROVE  OwnerInv' /\ SayInv'
    OBVIOUS
  <2>1. CASE RunNext
    BY <2>1, OwnerStep, SayStep DEF OpsTypeOK
  <2>2. CASE UNCHANGED runVars
    BY <2>2 DEF runVars, OwnerInv, SayInv, SyntheticNeverInBaseline, Finished
  <2>3. QED
    BY <2>1, <2>2, RunOrNot
<1>3. QED
  BY <1>1, <1>2, TypeCorrect, PTL DEF Spec

(* While runs of one type do not overlap, no fixture run leaves its        *)
(* numbers in the baselines.                                               *)
THEOREM BaselinesAreLive == OneAtATime => (Spec => []SyntheticNeverInBaseline)
<1> SUFFICES ASSUME OneAtATime PROVE Spec => []SyntheticNeverInBaseline
  OBVIOUS
<1>1. SayInv => SyntheticNeverInBaseline
  BY DEF SayInv
<1>2. QED
  BY <1>1, SayAlways, PTL

(* While runs of one type do not overlap, the report of a live run carries *)
(* every diagnostic its status was computed from.                          *)
THEOREM ReportsAreComplete == OneAtATime => (Spec => []LiveReportCarriesDiagnostics)
<1> SUFFICES ASSUME OneAtATime PROVE Spec => []LiveReportCarriesDiagnostics
  OBVIOUS
<1>1. SayInv => LiveReportCarriesDiagnostics
  BY DEF SayInv, LiveReportCarriesDiagnostics
<1>2. QED
  BY <1>1, SayAlways, PTL

(* A manifest names files that are there, of a run that may be published,  *)
(* wherever publications interleave and stop.                              *)
THEOREM ManifestsAreLast == Spec => []ManifestComesLast
<1>1. OpsInit => PublishInv
  BY Initially
<1>2. OpsTypeOK /\ PublishInv /\ [OpsNext]_vars => PublishInv'
  BY PublishStepInv
<1>3. PublishInv => ManifestComesLast
  BY DEF PublishInv
<1>4. QED
  BY <1>1, <1>2, <1>3, TypeCorrect, PTL DEF Spec
=============================================================================
