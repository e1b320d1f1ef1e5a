---------------------------- MODULE GateLedger ----------------------------
(***************************************************************************)
(* The rejection ledger (JsonGateStore, universe/store.py) and the runs    *)
(* that read it for the gate and advance it after their report: scheduled  *)
(* runs (run_pipeline) and the gate stage alone (run_candidate_gate).      *)
(*                                                                         *)
(* A step is one read or one write of rejection_history.json, or the gate  *)
(* pass in between.  The file is replaced as a whole (_atomic_write), so   *)
(* no reader finds it half written.                                        *)
(***************************************************************************)
EXTENDS Naturals, Sequences, FiniteSets

CONSTANTS
  Proc,         \* the processes that run the gate
  Ticker,
  None,         \* no record
  Cooldown,     \* rejection_cooldown_days
  MaxEntries,   \* bound: records in a universe
  LastDay,      \* bound: the days of the model are 0 .. LastDay
  FlagBound     \* bound: no run starts once a ticker was flagged so often

ASSUME LedgerAssumption ==
  /\ Cooldown \in Nat
  /\ MaxEntries \in Nat
  /\ LastDay \in Nat
  /\ FlagBound \in Nat

Day == 0 .. LastDay

VARIABLES
  today,
  ledger,    \* ledger[t]: the record of t in the file
  pc,        \* pc[p]: what p does next
  run,       \* run[p]: the locals of p's run
  flagged,   \* history, flagged[t]: rejections of t in the reports written
  flagDays   \* history, flagDays[t]: the run dates of those writes

vars == <<today, ledger, pc, run, flagged, flagDays>>

(* RejectionRecord: first_flagged_on, last_flagged_on, occurrences.        *)
Record == [first : Day, last : Day, occurrences : Nat]

(* CandidateGateResult: the verdict on one entry of the universe.          *)
Result == [ticker : Ticker, scored : BOOLEAN, occurrences : Nat]

(* The locals of a run: its date, the history it judges by, the results of *)
(* its gate, and the ledger it has read again.                             *)
Ledger == [Ticker -> Record \union {None}]
Run == [date : Day, history : Ledger, results : Seq(Result), held : Ledger]

NoLedger == [t \in Ticker |-> None]
NoRun == [date |-> 0, history |-> NoLedger, results |-> <<>>, held |-> NoLedger]

TypeOK ==
  /\ today \in Day
  /\ ledger \in Ledger
  /\ pc \in [Proc -> {"idle", "gate", "update", "write"}]
  /\ run \in [Proc -> Run]
  /\ flagged \in [Ticker -> Nat]
  /\ flagDays \in [Ticker -> SUBSET Day]

Init ==
  /\ today = 0
  /\ ledger = NoLedger
  /\ pc = [p \in Proc |-> "idle"]
  /\ run = [p \in Proc |-> NoRun]
  /\ flagged = [t \in Ticker |-> 0]
  /\ flagDays = [t \in Ticker |-> {}]

Goto(p, label) == pc' = [pc EXCEPT ![p] = label]

-----------------------------------------------------------------------------
IsActiveAlways(record, date) == TRUE   \* mutant: the cooldown not looked at

(* RejectionRecord.is_active: a cooldown of 0 never expires.               *)
IsActive(record, date) == Cooldown = 0 \/ record.last + Cooldown >= date

(* active_history: the records the gate may count on.                      *)
ActiveHistory(records, date) ==
  [t \in Ticker |->
     IF records[t] # None /\ IsActive(records[t], date) THEN records[t] ELSE None]

(* The occurrences of a candidate that was gated out (end of               *)
(* evaluate_candidate, and update_history).                                *)
OccurrencesOf(record) == IF record = None THEN 1 ELSE record.occurrences + 1

(* The entries of a universe as the rules leave them: load_universe keeps  *)
(* every entry of a ticker; in run_gate the first wins if it passes, and a *)
(* later one is rejected, whatever became of the first.                    *)
Entry == [ticker : Ticker, passes : BOOLEAN]

IsFirst(universe, i) == \A j \in 1 .. i - 1 : universe[j].ticker # universe[i].ticker

Universe == UNION {[1 .. n -> Entry] : n \in 0 .. MaxEntries}

RunGate(universe, history) ==
  [i \in DOMAIN universe |->
     LET t      == universe[i].ticker
         scored == universe[i].passes /\ IsFirst(universe, i)
     IN  [ticker |-> t, scored |-> scored,
          occurrences |-> IF scored THEN 0 ELSE OccurrencesOf(history[t])]]

(* update_history on one result: an accepted name leaves the ledger; the   *)
(* record of any other is renewed, its streak going on while active.       *)
AdvanceKeepingAccepted(records, result, date) ==   \* mutant: nothing leaves
  IF result.scored THEN records
  ELSE LET t   == result.ticker
           old == ActiveHistory(records, date)[t]
       IN  [records EXCEPT ![t] =
              [first |-> IF old = None THEN date ELSE old.first,
               last |-> date, occurrences |-> OccurrencesOf(old)]]

AdvanceFromStale(records, result, date) ==   \* mutant: cooldown not applied here
  LET t == result.ticker
  IN  [records EXCEPT ![t] =
         IF result.scored THEN None
         ELSE [first |-> IF records[t] = None THEN date ELSE records[t].first,
               last |-> date, occurrences |-> OccurrencesOf(records[t])]]

AdvanceCountedTwice(records, result, date) ==   \* mutant: from the report's count
  LET t   == result.ticker
      old == ActiveHistory(records, date)[t]
  IN  [records EXCEPT ![t] =
         IF result.scored THEN None
         ELSE [first |-> IF old = None THEN date ELSE old.first,
               last |-> date, occurrences |-> result.occurrences + 1]]

Advance(records, result, date) ==
  LET t   == result.ticker
      old == ActiveHistory(records, date)[t]
  IN  [records EXCEPT ![t] =
         IF result.scored THEN None
         ELSE [first |-> IF old = None THEN date ELSE old.first,
               last |-> date, occurrences |-> OccurrencesOf(old)]]

(* update_history on the whole report, in its order.                       *)
UpdateHistory(records, results, date) ==
  LET after[n \in 0 .. Len(results)] ==
        IF n = 0 THEN records ELSE Advance(after[n - 1], results[n], date)
  IN  after[Len(results)]

-----------------------------------------------------------------------------
(* A run starts: active_history is read for its date.                      *)
LoadHistory(p) ==
  /\ pc[p] = "idle"
  /\ \A t \in Ticker : flagged[t] < FlagBound
  /\ run' = [run EXCEPT ![p] = [NoRun EXCEPT
       !.date = today, !.history = ActiveHistory(ledger, today)]]
  /\ Goto(p, "gate")
  /\ UNCHANGED <<today, ledger, flagged, flagDays>>

(* load_universe and run_gate.                                             *)
Gate(p, universe) ==
  /\ pc[p] = "gate"
  /\ run' = [run EXCEPT ![p].results = RunGate(universe, run[p].history)]
  /\ Goto(p, "update")
  /\ UNCHANGED <<today, ledger, flagged, flagDays>>

(* update_history: the ledger is read again ...                            *)
LoadLedger(p) ==
  /\ pc[p] = "update"
  /\ run' = [run EXCEPT ![p].held = ledger]
  /\ Goto(p, "write")
  /\ UNCHANGED <<today, ledger, flagged, flagDays>>

(* ... and replaced.                                                       *)
GatedOut(results, t) ==
  {i \in DOMAIN results : results[i].ticker = t /\ ~results[i].scored}

WriteLedger(p) ==
  /\ pc[p] = "write"
  /\ ledger' = UpdateHistory(run[p].held, run[p].results, run[p].date)
  /\ flagged' = [t \in Ticker |->
       flagged[t] + Cardinality(GatedOut(run[p].results, t))]
  /\ flagDays' = [t \in Ticker |-> flagDays[t] \union
       (IF GatedOut(run[p].results, t) = {} THEN {} ELSE {run[p].date})]
  /\ run' = [run EXCEPT ![p] = NoRun]
  /\ Goto(p, "idle")
  /\ UNCHANGED today

(* A run fails or is killed on the way: the file stays as it is.           *)
Abort(p) ==
  /\ pc[p] # "idle"
  /\ run' = [run EXCEPT ![p] = NoRun]
  /\ Goto(p, "idle")
  /\ UNCHANGED <<today, ledger, flagged, flagDays>>

Midnight ==
  /\ today < LastDay
  /\ today' = today + 1
  /\ UNCHANGED <<ledger, pc, run, flagged, flagDays>>

(* The end of the bounded model. *)
Over ==
  /\ today = LastDay
  /\ \A p \in Proc : pc[p] = "idle"
  /\ UNCHANGED vars

Next ==
  \/ \E p \in Proc :
       \/ LoadHistory(p)
       \/ \E universe \in Universe : Gate(p, universe)
       \/ LoadLedger(p)
       \/ WriteLedger(p)
       \/ Abort(p)
  \/ Midnight
  \/ Over

Spec == Init /\ [][Next]_vars

-----------------------------------------------------------------------------
(* However runs interleave and wherever they are killed, the ledger never  *)
(* counts more rejections of a ticker than the reports written have, nor   *)
(* dates its streak to a day without any (lost updates only lose).         *)
NeverOverstated ==
  \A t \in Ticker : ledger[t] # None =>
    /\ ledger[t].occurrences <= flagged[t]
    /\ ledger[t].first \in flagDays[t]
    /\ ledger[t].last \in flagDays[t]

(* A name is called a repeat only if a run gated it out within the         *)
(* cooldown before the date of the run that says so.                       *)
RepeatIsRecent ==
  \A p \in Proc : \A i \in DOMAIN run[p].results :
    LET r == run[p].results[i]
    IN  r.occurrences > 1 => \E d \in flagDays[r.ticker] :
           Cooldown = 0 \/ d + Cooldown >= run[p].date

(* Once a run has written its report, the streak of a ticker it accepted   *)
(* is over: what the ledger then holds of it, if anything, are the further *)
(* entries of the ticker that this report rejected.                        *)
AcceptedStartsOver ==
  [][\A p \in Proc : WriteLedger(p) =>
       \A i \in DOMAIN run[p].results :
         LET t == run[p].results[i].ticker
         IN  run[p].results[i].scored /\ ledger'[t] # None =>
               /\ ledger'[t].first = run[p].date
               /\ ledger'[t].occurrences
                    <= Cardinality(GatedOut(run[p].results, t))]_vars

(* The count the ledger gets of a ticker that a report names once is the   *)
(* count the report published, unless another run wrote the ledger in      *)
(* between ("so the count matches what the gate saw in active_history").   *)
NamedOnce(results, i) ==
  \A j \in DOMAIN results : results[j].ticker = results[i].ticker => j = i

CountMatchesReport ==
  [][\A p \in Proc : WriteLedger(p) =>
       \A i \in DOMAIN run[p].results :
         LET r == run[p].results[i]
         IN  /\ ~r.scored
             /\ NamedOnce(run[p].results, i)
             /\ ActiveHistory(run[p].held, run[p].date) = run[p].history
             => ledger'[r.ticker].occurrences = r.occurrences]_vars
=============================================================================
